------------------------- MODULE ProxyRequestProofs --------------------------
(***************************************************************************)
(* What ProxyRequest keeps, for every number of requests, every gateway,   *)
(* list of models and bound on the changes.  The invariant says, for each  *)
(* place a request can be at, what it has sent, heard and recorded there;  *)
(* that the key in the keyring is the one of the settings outside a save;  *)
(* and that what the user picked stays a route of the settings the request *)
(* works with until it is sent.  First come the lemmas about lists of      *)
(* models and the names a request may ask for, and the types; a name that  *)
(* only Claude uses has an invariant of its own.                           *)
(***************************************************************************)
EXTENDS ProxyRequest, FiniteSetTheorems, SequenceTheorems, WellFoundedInduction, TLAPS

-----------------------------------------------------------------------------
(* Lists and names (ModelRouting), for every set of models                 *)

\* The order of a list (model_priority, then the id) is strict and total.
LEMMA PrecedesOrder ==
  ASSUME NEW k \in Models, NEW m \in Models
  PROVE  /\ ~Precedes(m, m)
         /\ k # m => Precedes(k, m) \/ Precedes(m, k)
         /\ \A j \in Models : Precedes(j, k) /\ Precedes(k, m) => Precedes(j, m)
<1> USE ModelsAssumption DEF Precedes
<1>1. \A j \in Models : j \in Nat /\ Info[j].free \in BOOLEAN
  BY InfoAssumption
<1> QED
  BY <1>1

\* A model that precedes another has a lower position.
LEMMA PositionGrows ==
  ASSUME NEW list, IsFiniteSet(list), list \subseteq Models,
         NEW k \in list, NEW m \in list, Precedes(k, m)
  PROVE  Position(k, list) < Position(m, list)
<1> DEFINE Before(j) == {i \in list : Precedes(i, j)}
<1>1. Before(k) \subseteq Before(m)
  BY PrecedesOrder
<1>2. k \in Before(m) /\ k \notin Before(k)
  BY PrecedesOrder
<1>3. IsFiniteSet(Before(m)) /\ IsFiniteSet(Before(k))
  <2>1. Before(m) \subseteq list /\ Before(k) \subseteq list
    OBVIOUS
  <2> HIDE DEF Before
  <2> QED
    BY <2>1, FS_Subset
<1>4. Cardinality(Before(k)) =< Cardinality(Before(m))
      /\ (Cardinality(Before(k)) = Cardinality(Before(m)) => Before(k) = Before(m))
  <2> HIDE DEF Before
  <2> QED
    BY <1>1, <1>3, FS_Subset
<1>5. Cardinality(Before(k)) \in Nat /\ Cardinality(Before(m)) \in Nat
  <2> HIDE DEF Before
  <2> QED
    BY <1>3, FS_CardinalityType
<1>6. Before(k) # Before(m)
  BY <1>2
<1>7. Cardinality(Before(k)) < Cardinality(Before(m))
  <2> HIDE DEF Before
  <2> QED
    BY <1>4, <1>5, <1>6
<1> QED
  BY <1>7 DEF Position

\* Different models of a list have different aliases, whatever their families.
LEMMA AliasInjective ==
  ASSUME NEW catalog, IsFiniteSet(catalog), catalog \subseteq Models, NEW p,
         NEW k \in Listed(catalog, p), NEW m \in Listed(catalog, p),
         Alias(k, catalog, p) = Alias(m, catalog, p)
  PROVE  k = m
<1>1. /\ IsFiniteSet(Listed(catalog, p)) /\ Listed(catalog, p) \subseteq Models
  <2>1. Listed(catalog, p) \subseteq catalog
    BY DEF Listed
  <2> QED
    BY <2>1, FS_Subset
<1>2. Position(k, Listed(catalog, p)) = Position(m, Listed(catalog, p))
  BY DEF Alias
<1>3. \A j \in Listed(catalog, p) : Position(j, Listed(catalog, p)) \in Nat
  <2> TAKE j \in Listed(catalog, p)
  <2>1. IsFiniteSet({i \in Listed(catalog, p) : Precedes(i, j)})
    BY <1>1, FS_Subset
  <2> QED
    BY <2>1, FS_CardinalityType DEF Position
<1>4. ~Precedes(k, m) /\ ~Precedes(m, k)
  BY <1>1, <1>2, <1>3, PositionGrows
<1> QED
  BY <1>1, <1>4, PrecedesOrder

\* The routes of a list lead to its visible models, each by its own alias.
LEMMA RoutesToShown ==
  ASSUME NEW catalog, IsFiniteSet(catalog), catalog \subseteq Models, NEW p, NEW hidden
  PROVE  LET list  == Routing(catalog, p, hidden)
             shown == Listed(catalog, p) \ hidden
         IN  /\ {list.routes[a] : a \in DOMAIN list.routes} = shown
             /\ \A m \in shown : /\ Alias(m, catalog, p) \in DOMAIN list.routes
                                 /\ list.routes[Alias(m, catalog, p)] = m
             /\ DOMAIN list.routes = {Alias(m, catalog, p) : m \in shown}
             /\ DOMAIN list.efforts \subseteq DOMAIN list.routes
             /\ list.discovered = Listed(catalog, p)
             /\ list.discovered \subseteq Models
<1> DEFINE list  == Routing(catalog, p, hidden)
           shown == Listed(catalog, p) \ hidden
           The(a) == CHOOSE m \in shown : Alias(m, catalog, p) = a
<1>1. /\ list.routes = [a \in {Alias(m, catalog, p) : m \in shown} |-> The(a)]
      /\ list.discovered = Listed(catalog, p)
      /\ DOMAIN list.efforts = {Alias(m, catalog, p) : m \in {k \in shown : Reasons(k, p)}}
  BY DEF Routing
<1>2. ASSUME NEW m \in shown PROVE The(Alias(m, catalog, p)) = m
  <2>1. /\ The(Alias(m, catalog, p)) \in shown
        /\ Alias(The(Alias(m, catalog, p)), catalog, p) = Alias(m, catalog, p)
    OBVIOUS
  <2> QED
    BY <2>1, AliasInjective
<1>3. list.discovered \subseteq Models
  BY <1>1 DEF Listed
<1> HIDE DEF The, list
<1>4. \A m \in shown : /\ Alias(m, catalog, p) \in DOMAIN list.routes
                       /\ list.routes[Alias(m, catalog, p)] = m
  BY <1>1, <1>2
<1>5. {list.routes[a] : a \in DOMAIN list.routes} = shown
  BY <1>1, <1>2
<1>6. DOMAIN list.efforts \subseteq DOMAIN list.routes
  BY <1>1
<1>7. DOMAIN list.routes = {Alias(m, catalog, p) : m \in shown}
  BY <1>1
<1> QED
  BY <1>1, <1>3, <1>4, <1>5, <1>6, <1>7 DEF list

\* There are as many routes as visible models.
LEMMA RoutesCounted ==
  ASSUME NEW catalog, IsFiniteSet(catalog), catalog \subseteq Models, NEW p, NEW hidden
  PROVE  Cardinality(DOMAIN Routing(catalog, p, hidden).routes)
           = Cardinality(Listed(catalog, p) \ hidden)
<1> DEFINE shown == Listed(catalog, p) \ hidden
           f == [m \in shown |-> Alias(m, catalog, p)]
           Of == {Alias(m, catalog, p) : m \in shown}
<1>1. IsFiniteSet(shown)
  <2>1. shown \subseteq catalog
    BY DEF Listed
  <2> QED
    BY <2>1, FS_Subset
<1>2. f \in Bijection(shown, Of)
  <2>1. f \in [shown -> Of]
    OBVIOUS
  <2>2. \A k, m \in shown : f[k] = f[m] => k = m
    BY AliasInjective
  <2>3. \A a \in Of : \E m \in shown : f[m] = a
    OBVIOUS
  <2> HIDE DEF f, Of, shown
  <2> QED
    BY <2>1, <2>2, <2>3 DEF Bijection, Injection, Surjection, IsInjective
<1>3. Cardinality(shown) = Cardinality(Of)
  <2> HIDE DEF f, Of, shown
  <2>1. ExistsBijection(shown, Of)
    BY <1>2 DEF ExistsBijection
  <2> QED
    BY <1>1, <2>1, FS_Bijection
<1>4. DOMAIN Routing(catalog, p, hidden).routes = Of
  BY RoutesToShown
<1> QED
  BY <1>3, <1>4

\* The model that stands in for a stale one is another one, and is one.
LEMMA FallbackIsAnother ==
  ASSUME NEW n, NEW stale, NEW s,
         Targets(s) \subseteq Models, s.models.discovered \subseteq Models,
         NEW m \in Lowest(Fallbacks(n, stale, s))
  PROVE  m \notin {stale, None}
<1>1. m \in Targets(s) \cup Some(s.global) \cup s.models.discovered /\ m # stale
  BY DEF Lowest, Fallbacks, Targets
<1>2. None \notin Models /\ None \notin Some(s.global)
  BY ModelsAssumption DEF None, Some
<1> QED
  BY <1>1, <1>2

\* Among any numbers there is a least: the order of the numbers is well-founded.
LEMMA LeastExists ==
  ASSUME NEW S, S \subseteq Nat, S # {}
  PROVE  \E m \in S : \A k \in S : m =< k
<1>1. PICK m \in S : \A k \in S : <<k, m>> \notin OpToRel(<, Nat)
  BY WFMin, NatLessThanWellFounded
<1>2. \A k \in S : ~(k < m)
  BY <1>1 DEF OpToRel
<1>3. \A k \in S : m =< k
  BY <1>2
<1> QED
  BY <1>3

\* Among any models there is a first by id.
LEMMA LowestExists ==
  ASSUME NEW S, S \subseteq Models, S # {}
  PROVE  Lowest(S) # {}
BY LeastExists, ModelsAssumption DEF Lowest

\* And a first in the order of the list: the first free one, if there are any.
LEMMA FirstExists ==
  ASSUME NEW s, s.models.discovered \subseteq Models, s.models.discovered # {}
  PROVE  First(s) # {}
<1> DEFINE list == s.models.discovered
           free == {m \in list : Info[m].free}
<1>0. \A m \in list : m \in Nat /\ Info[m].free \in BOOLEAN
  BY ModelsAssumption, InfoAssumption
<1>1. CASE free # {}
  <2>1. PICK m : m \in Lowest(free)
    BY <1>1, LowestExists
  <2>2. m \in free /\ \A k \in free : m =< k
    BY <2>1 DEF Lowest
  <2>3. \A k \in list \ {m} : Precedes(m, k)
    BY <1>0, <2>2 DEF Precedes
  <2> QED
    BY <2>2, <2>3 DEF First
<1>2. CASE free = {}
  <2>1. PICK m : m \in Lowest(list)
    BY LowestExists
  <2>2. m \in list /\ \A k \in list : m =< k
    BY <2>1 DEF Lowest
  <2>3. \A k \in list \ {m} : Precedes(m, k)
    BY <1>0, <1>2, <2>2 DEF Precedes
  <2> QED
    BY <2>2, <2>3 DEF First
<1> QED
  BY <1>1, <1>2

\* Every rule names models, and so does the first one that says anything.
LEMMA ResolveNamesModels ==
  ASSUME NEW n, NEW s, Targets(s) \subseteq Models, s.models.discovered \subseteq Models,
         n.family \in Family \cup {"none"},
         s.override \in [Family -> Models \cup {None}], s.global \in Models \cup {None}
  PROVE  Resolve(n, s) \subseteq Models
<1>1. Some(s.global) \subseteq Models
  BY DEF Some
<1>2. FamilyOverride(n, s) \subseteq Models
  BY DEF FamilyOverride, Some
<1>3. ExactRoute(n, s) \subseteq Models /\ FuzzyFamily(n, s) \subseteq Models
  BY DEF ExactRoute, FuzzyFamily, Targets
<1>4. Discovered(n.id, s) \subseteq Models /\ Discovered(n.inner, s) \subseteq Models
  BY DEF Discovered
<1>5. SafetyNet(n, s) \subseteq Models
  BY DEF SafetyNet, Lowest, First
<1>6. \A i \in 1 .. 7 : Rules(n, s)[i] \subseteq Models
  BY <1>1, <1>2, <1>3, <1>4, <1>5 DEF Rules
<1>7. CASE n.empty
  BY <1>1, <1>7 DEF Resolve
<1>8. CASE ~n.empty
  <2> DEFINE rules == Rules(n, s)
             says  == {i \in DOMAIN rules : rules[i] # {}}
             first == CHOOSE i \in says : \A j \in says : i =< j
  <2>1. Resolve(n, s) = IF says = {} THEN {} ELSE rules[first]
    BY <1>8 DEF Resolve
  <2>2. says \subseteq 1 .. 7
    BY DEF Rules
  <2>3. says # {} => \E i \in says : \A j \in says : i =< j
    <3>1. says \subseteq Nat
      BY <2>2
    <3> HIDE DEF says
    <3> QED
      BY <3>1, LeastExists
  <2>4. says # {} => first \in 1 .. 7
    BY <2>2, <2>3
  <2> HIDE DEF rules, says, first
  <2>5. says # {} => rules[first] \subseteq Models
    BY <1>6, <2>4 DEF rules
  <2> QED
    BY <2>1, <2>5
<1> QED
  BY <1>7, <1>8

\* A list has aliases as they are written, and gives a model known levels only.
LEMMA ListTyped ==
  ASSUME NEW catalog, IsFiniteSet(catalog), catalog \subseteq Models, NEW p \in Prefs, NEW hidden
  PROVE  LET list == Routing(catalog, p, hidden)
         IN  /\ DOMAIN list.routes \subseteq [family : Family, index : Nat]
             /\ \A a \in DOMAIN list.efforts : list.efforts[a] \subseteq Rank
<1> DEFINE list  == Routing(catalog, p, hidden)
           shown == Listed(catalog, p) \ hidden
           The(a) == CHOOSE m \in shown : Alias(m, catalog, p) = a
<1>1. Listed(catalog, p) \subseteq catalog
  BY DEF Listed
<1>2. ASSUME NEW m \in Listed(catalog, p)
      PROVE  Alias(m, catalog, p) \in [family : Family, index : Nat]
  <2>1. IsFiniteSet({k \in Listed(catalog, p) : Precedes(k, m)})
    BY <1>1, FS_Subset
  <2>2. Position(m, Listed(catalog, p)) \in Nat
    BY <2>1, FS_CardinalityType DEF Position
  <2>3. FamilyOf(m, p) \in Family
    BY DEF FamilyOf, Family
  <2> QED
    BY <2>2, <2>3 DEF Alias
<1>3. DOMAIN list.routes = {Alias(m, catalog, p) : m \in shown}
  BY RoutesToShown
<1>4. ASSUME NEW m \in Models PROVE EffortLevels(m, p) \subseteq Rank
  <2>1. p.level[m] \in Level \cup {"unset"}
    BY DEF Prefs
  <2>2. Info[m].levels \subseteq Rank
    BY InfoAssumption
  <2>3. p.level[m] # "unset" => OverrideLevels(p.level[m]) \subseteq Rank
    BY <2>1 DEF Level, OverrideLevels, Rank
  <2> QED
    BY <2>2, <2>3 DEF EffortLevels
<1>5. list.efforts = [a \in {Alias(m, catalog, p) : m \in {k \in shown : Reasons(k, p)}} |->
                        EffortLevels(The(a), p)]
  BY DEF Routing
<1>6. ASSUME NEW a \in DOMAIN list.efforts PROVE list.efforts[a] \subseteq Rank
  <2>1. PICK m \in shown : Alias(m, catalog, p) = a
    BY <1>5
  <2>2. The(a) \in shown
    BY <2>1
  <2>3. list.efforts[a] = EffortLevels(The(a), p)
    BY <1>5
  <2> QED
    BY <1>1, <1>4, <2>2, <2>3
<1> QED
  BY <1>2, <1>3, <1>6

\* A bracketed or numbered name leads to a model once any list was fetched.
LEMMA ClaudeNameResolves ==
  ASSUME NEW n, NEW s, ~n.empty, Bracketed(n) \/ n.numbered,
         Targets(s) \subseteq Models, s.models.discovered \subseteq Models, s.models.discovered # {}
  PROVE  Resolve(n, s) # {}
<1> DEFINE rules == Rules(n, s)
           says  == {i \in DOMAIN rules : rules[i] # {}}
           first == CHOOSE i \in says : \A j \in says : i =< j
<1>1. rules[7] # {} /\ DOMAIN rules = 1 .. 7
  <2>1. SafetyNet(n, s) # {}
    BY LowestExists, FirstExists DEF SafetyNet
  <2> QED
    BY <2>1 DEF Rules
<1>2. says # {} /\ says \subseteq Nat
  BY <1>1
<1>3. \E i \in says : \A j \in says : i =< j
  <2> HIDE DEF says
  <2> QED
    BY <1>2, LeastExists
<1>4. first \in says
  BY <1>3
<1>5. rules[first] # {}
  BY <1>4
<1>6. Resolve(n, s) = rules[first]
  BY <1>2 DEF Resolve
<1> QED
  BY <1>5, <1>6
-----------------------------------------------------------------------------
(* The invariant                                                           *)

IsList(models) ==
  /\ \A a \in DOMAIN models.routes : models.routes[a] \in Models
  /\ models.discovered \subseteq Models

IsSettings(s) ==
  /\ s = [gw |-> s.gw, prefs |-> s.prefs, override |-> s.override, global |-> s.global,
          models |-> s.models]
  /\ IsList(s.models)

Call(c) == c = [model |-> c.model, effort |-> c.effort, key |-> c.key]

Unsent(q) == sent[q] = <<>> /\ replies[q] = <<>>
Once(q)   == sent[q] = <<sent[q][1]>> /\ Call(sent[q][1])
Twice(q)  ==
  /\ sent[q] = <<sent[q][1], sent[q][2]>> /\ Call(sent[q][1]) /\ Call(sent[q][2])
  /\ sent[q][2].model \notin {sent[q][1].model, None}
  /\ sent[q][2].key = sent[q][1].key

\* A first answer that is final, and the reply it came from.
Final(q, x) ==
  /\ answer[q] \in {"unreachable", "error", "stream", "passed", "message", "local", "bad"}
  /\ answer[q] = "stream"  => x \in Success
  /\ answer[q] = "message" => x = "good"
  /\ answer[q] = "error"   => x \in {"gone", "error"}
  /\ answer[q] = "passed"  => IsNative(q)

\* An answer after a second try.
FinalAgain(q, x) ==
  /\ answer[q] \in {"error", "stream", "passed", "message"}
  /\ answer[q] = "stream"  => x \in Success
  /\ answer[q] = "message" => x = "good"
  /\ answer[q] = "passed"  => IsNative(q)
  /\ x = "good" => answer[q] # "error"

Answered(q) ==
  \/ Unsent(q) /\ answer[q] = "refused" /\ log[q] = <<>>
  \/ Unsent(q) /\ answer[q] = "local" /\ \E x : log[q] = <<x>>
  \/ \E x \in Reply : /\ Once(q) /\ replies[q] = <<x>> /\ log[q] = <<x>>
                      /\ Final(q, x)
  \/ \E x \in Reply : /\ Twice(q) /\ replies[q] = <<"gone", x>> /\ log[q] = <<"gone">>
                      /\ FinalAgain(q, x)

\* A request at the place it is at.
At(q) ==
  CASE pc[q] \in {"idle", "prepare", "key"} -> Unsent(q) /\ log[q] = <<>>
    [] pc[q] = "wait"    -> Once(q) /\ replies[q] = <<>> /\ log[q] = <<>>
    [] pc[q] = "body"    -> Once(q) /\ \E x \in Reply \ {"failed"} :
                                         replies[q] = <<x>> /\ log[q] = <<x>>
    [] pc[q] = "refresh" -> Once(q) /\ replies[q] = <<"gone">> /\ log[q] = <<"gone">>
    [] pc[q] = "again"   -> Twice(q) /\ replies[q] = <<"gone">> /\ log[q] = <<"gone">>
    [] pc[q] = "done"    -> Answered(q)
    [] pc[q] = "dropped" -> Unsent(q) /\ (log[q] = <<>> \/ \E x : log[q] = <<x>>)
    [] OTHER             -> FALSE

Waiting(q) == pc[q] # "done" => answer[q] = "none"

Works(q) == pc[q] \notin {"idle", "done", "dropped"} => IsSettings(snap[q])

KeyKept(q) ==
  undisturbed[q] =>
    /\ pc[q] \in {"prepare", "key"} => saving = NoGateway /\ keyring = snap[q].gw
    /\ \A i \in DOMAIN sent[q] : sent[q][i].key = snap[q].gw

\* The first call of a request for a model of the menu asks for what was picked.
AskedFor(q) ==
  (/\ sent[q] # <<>> /\ picked[q].model # None /\ req[q].body.class # "broken"
   /\ Some(snap[q].override[req[q].name.family]) = {})
  => /\ sent[q][1].model = picked[q].model
     /\ sent[q][1].effort \subseteq
          IF picked[q].levels # {} THEN UNION picked[q].levels
          ELSE IF picked[q].model \in Reasoners THEN Rank ELSE {}

PickKept(q) ==
  /\ pc[q] = "idle" => picked[q].model = None
  /\ (pc[q] \in {"prepare", "key"} /\ picked[q].model # None) =>
       /\ req[q].name.alias \in DOMAIN snap[q].models.routes
       /\ ~req[q].name.empty
       /\ picked[q] = Pick(req[q].name.alias, snap[q].models)
  /\ AskedFor(q)

Functions ==
  /\ DOMAIN pc = Requests /\ DOMAIN req = Requests /\ DOMAIN snap = Requests
  /\ DOMAIN sent = Requests /\ DOMAIN replies = Requests /\ DOMAIN answer = Requests
  /\ DOMAIN log = Requests /\ DOMAIN picked = Requests /\ DOMAIN undisturbed = Requests

World ==
  /\ IsSettings(settings)
  /\ offered \in Lists
  /\ saving = NoGateway => keyring = settings.gw
  /\ saving # NoGateway => keyring = saving

IInv ==
  /\ Functions /\ World
  /\ \A q \in Requests : At(q) /\ Waiting(q) /\ Works(q) /\ KeyKept(q) /\ PickKept(q)
-----------------------------------------------------------------------------
(* Lemmas                                                                  *)

\* A list that is published, or fetched for a retry, is one.
LEMMA ListsAreLists ==
  ASSUME NEW list \in Lists, NEW p, NEW hidden
  PROVE  IsList(Routing(list, p, hidden))
<1>1. list \subseteq Models /\ IsFiniteSet(list)
  BY ListsAssumption
<1>2. Listed(list, p) \subseteq Models
  BY <1>1 DEF Listed
<1> DEFINE r == Routing(list, p, hidden)
           shown == Listed(list, p) \ hidden
<1>3. /\ \A m \in shown : r.routes[Alias(m, list, p)] = m
      /\ DOMAIN r.routes = {Alias(m, list, p) : m \in shown}
      /\ r.discovered \subseteq Models
  BY <1>1, RoutesToShown
<1>4. IsList(r)
  <2> HIDE DEF r
  <2> QED
    BY <1>2, <1>3 DEF IsList
<1> QED
  BY <1>4

\* A name of the menu resolves to the route of its alias, unless its family is
\* mapped to another model.
LEMMA MenuNameResolves ==
  ASSUME NEW n, NEW s, ~n.empty, n.alias \in DOMAIN s.models.routes,
         Some(s.override[n.family]) = {}
  PROVE  Resolve(n, s) = {s.models.routes[n.alias]}
<1> DEFINE rules == Rules(n, s)
           says  == {i \in DOMAIN rules : rules[i] # {}}
           first == CHOOSE i \in says : \A j \in says : i =< j
<1>1. rules[1] = {} /\ rules[2] = {s.models.routes[n.alias]} /\ DOMAIN rules = 1 .. 7
  BY DEF Rules, FamilyOverride, ExactRoute
<1> HIDE DEF rules
<1>2. 2 \in says /\ \A j \in says : 2 =< j
  BY <1>1
<1>3. first = 2
  <2>1. first \in says /\ \A j \in says : first =< j
    BY <1>2
  <2>2. first \in 1 .. 7
    BY <1>1, <2>1
  <2> HIDE DEF first
  <2> QED
    BY <1>2, <2>1, <2>2
<1>4. Resolve(n, s) = rules[first]
  BY <1>2 DEF Resolve, rules
<1> QED
  BY <1>1, <1>3, <1>4

\* The effort sent is one that the list gives the model, or one that is known if
\* the list gives it none.
LEMMA EffortIsListed ==
  ASSUME NEW n, NEW t, NEW s, NEW named
  PROVE  /\ n.alias \in DOMAIN s.models.efforts =>
              Effort(n, t, s, named) \subseteq s.models.efforts[n.alias]
         /\ n.alias \notin DOMAIN s.models.efforts =>
              Effort(n, t, s, named) \subseteq (IF named THEN Rank ELSE {})
<1>1. \A e, levels : Applied(e, levels) \subseteq levels
  BY DEF Applied, Clamp
<1> QED
  BY <1>1 DEF Effort

\* An effort that a model does not have becomes exactly one level that it has, if
\* it has any: no other is closer, and the stronger of two that are as close; an
\* effort that it has stays as it is (clamp_reasoning_effort).
LEMMA ClampPicksOne ==
  ASSUME NEW e \in Rank, NEW levels, levels \subseteq Rank, levels \ {0} # {}
  PROVE  \E l \in levels \ {0} :
           /\ Clamp(e, levels) = {l}
           /\ \A k \in levels \ {0} : Distance(l, e) =< Distance(k, e)
           /\ e \in levels \ {0} => l = e
<1> DEFINE real       == levels \ {0}
           Measure(l) == 2 * Distance(l, e) + (IF l < e THEN 1 ELSE 0)
           measures   == {Measure(l) : l \in real}
<1>1. e \in Nat /\ \A l \in real : l \in Nat
  BY DEF Rank
<1>2. \A l \in real : Distance(l, e) \in Nat /\ (Distance(l, e) = 0 <=> l = e)
  BY <1>1 DEF Distance
<1>3. \A l \in real : Measure(l) \in Nat
  BY <1>1, <1>2
<1>4. measures \subseteq Nat /\ measures # {}
  BY <1>3
<1>5. PICK l \in real : \A k \in real : Measure(l) =< Measure(k)
  <2> HIDE DEF Measure
  <2>1. PICK m \in measures : \A k \in measures : m =< k
    BY <1>4, LeastExists
  <2> QED
    BY <2>1
\* What is as close as the one found is on the other side, below.
<1>6. \A k \in real :
        \/ Distance(l, e) < Distance(k, e)
        \/ Distance(l, e) = Distance(k, e) /\ k =< l
  <2> TAKE k \in real
  <2>1. Measure(l) =< Measure(k) /\ l \in Nat /\ k \in Nat /\ e \in Nat
    BY <1>1, <1>5
  <2> QED
    BY <2>1 DEF Distance
<1>7. Clamp(e, levels) = {l}
  <2>1. l \in Clamp(e, levels)
    BY <1>6 DEF Clamp
  <2>2. ASSUME NEW k \in Clamp(e, levels) PROVE k = l
    <3>1. k \in real /\ (Distance(k, e) < Distance(l, e)
                           \/ (Distance(l, e) = Distance(k, e) /\ l =< k))
      BY <2>2 DEF Clamp
    <3>2. Distance(l, e) < Distance(k, e) \/ (Distance(l, e) = Distance(k, e) /\ k =< l)
      BY <1>6, <3>1
    <3> QED
      BY <1>1, <1>2, <3>1, <3>2
  <2> QED
    BY <2>1, <2>2
<1>8. \A k \in real : Distance(l, e) =< Distance(k, e)
  BY <1>2, <1>6
<1>9. e \in real => l = e
  BY <1>1, <1>2, <1>8
<1> QED
  BY <1>7, <1>8, <1>9

\* A request that names one effort at most sends one at most: the levels that
\* apply_thinking_mapping may write never contradict each other.
LEMMA OneEffort ==
  ASSUME NEW n, NEW t \in Thinking, NEW s, NEW named,
         n.alias \in DOMAIN s.models.efforts => s.models.efforts[n.alias] \subseteq Rank,
         \A a, b \in t.effort : a = b,
         \A a, b \in t.budget : a = b
  PROVE  \A a, b \in Effort(n, t, s, named) : a = b
<1> DEFINE known  == n.alias \in DOMAIN s.models.efforts
           levels == s.models.efforts[n.alias]
           Sent1(e) == IF known THEN Applied(e, levels)
                                ELSE {e} \cap (IF named THEN Rank ELSE {})
<1>1. Requested(t) \subseteq Rank /\ \A a, b \in Requested(t) : a = b
  BY DEF Requested, Thinking, BudgetRank, Rank
<1>2. ASSUME NEW e \in Rank, NEW a \in Sent1(e), NEW b \in Sent1(e) PROVE a = b
  <2>1. CASE ~known
    BY <1>2, <2>1
  <2>2. CASE known /\ e = 0
    BY <1>2, <2>2 DEF Applied
  <2>3. CASE known /\ e # 0
    <3>1. levels \subseteq Rank /\ a \in Clamp(e, levels) /\ b \in Clamp(e, levels)
      BY <1>2, <2>3 DEF Applied
    <3>2. levels \ {0} # {}
      BY <3>1 DEF Clamp
    <3>3. \E l : Clamp(e, levels) = {l}
      BY <3>1, <3>2, ClampPicksOne
    <3> QED
      BY <3>1, <3>3
  <2> QED
    BY <2>1, <2>2, <2>3
<1>3. CASE t.off
  BY <1>3 DEF Effort
<1>4. CASE ~t.off
  <2>1. Effort(n, t, s, named) = UNION {Sent1(e) : e \in Requested(t)}
    BY <1>4 DEF Effort
  <2> HIDE DEF Sent1
  <2> QED
    BY <1>1, <1>2, <2>1
<1> QED
  BY <1>3, <1>4

\* Sequences of one or two elements.
LEMMA AppendToOne ==
  ASSUME NEW a, NEW b PROVE Append(<<a>>, b) = <<a, b>>
<1>1. <<a>> \in Seq({a, b})
  OBVIOUS
<1>2. Append(<<a>>, b) \in Seq({a, b}) /\ Len(Append(<<a>>, b)) = 2
      /\ Append(<<a>>, b)[1] = a /\ Append(<<a>>, b)[2] = b
  BY <1>1, AppendProperties
<1>3. <<a, b>> \in Seq({a, b}) /\ Len(<<a, b>>) = 2
  OBVIOUS
<1>4. \A i \in 1 .. 2 : Append(<<a>>, b)[i] = <<a, b>>[i]
  BY <1>2
<1> QED
  BY <1>2, <1>3, <1>4, SeqEqual

LEMMA SmallTuples ==
  ASSUME NEW a, NEW b
  PROVE  /\ Len(<<>>) = 0 /\ Len(<<a>>) = 1 /\ Len(<<a, b>>) = 2
         /\ <<a>> # <<>> /\ <<a, b>> # <<>>
OBVIOUS

LEMMA AppendToNone ==
  ASSUME NEW a PROVE Append(<<>>, a) = <<a>>
OBVIOUS
Request(q) == At(q) /\ Waiting(q) /\ Works(q) /\ KeyKept(q) /\ PickKept(q)

Same(q) ==
  /\ pc'[q] = pc[q] /\ req'[q] = req[q] /\ snap'[q] = snap[q] /\ sent'[q] = sent[q]
  /\ replies'[q] = replies[q] /\ answer'[q] = answer[q] /\ log'[q] = log[q]
  /\ picked'[q] = picked[q] /\ undisturbed'[q] = undisturbed[q]

\* A step leaves alone every request it does not change.
LEMMA Untouched ==
  ASSUME NEW q \in Requests, Request(q), Same(q), UNCHANGED <<keyring, saving>>
  PROVE  Request(q)'
<1> USE DEF Request, Same
<1>1. At(q)'
  BY DEF At, Unsent, Once, Twice, Answered, Final, FinalAgain, Call, IsNative
<1>2. Waiting(q)' /\ Works(q)'
  BY DEF Waiting, Works, IsSettings, IsList
<1>3. KeyKept(q)'
  BY DEF KeyKept
<1>4. PickKept(q)'
  BY DEF PickKept, AskedFor, Pick
<1> QED
  BY <1>1, <1>2, <1>3, <1>4

\* It is enough to look at the request that a step is about.
LEMMA StepOf ==
  ASSUME IInv, NEW r \in Requests, UNCHANGED world, Functions',
         \A q \in Requests \ {r} : Same(q), Request(r)'
  PROVE  IInv'
<1>1. World'
  BY DEF IInv, World, world, IsSettings, IsList
<1>2. \A q \in Requests \ {r} : Request(q)'
  BY Untouched DEF IInv, Request, world
<1> QED
  BY <1>1, <1>2 DEF IInv, Request

\* A request that arrives: the settings it reads are the ones its key belongs to.
LEMMA ReceiveKeeps == ASSUME IInv, NEW r \in Requests, Receive(r) PROVE IInv'
<1> USE DEF Receive, Go, Finish
<1>1. Functions'
  BY DEF IInv, Functions, History
<1>2. \A q \in Requests \ {r} : Same(q)
  BY DEF IInv, Functions, Same
<1> USE DEF IInv, Functions
<1>3. At(r) /\ Waiting(r) /\ KeyKept(r) /\ PickKept(r) /\ World /\ pc[r] = "idle"
  OBVIOUS
<1>4. /\ sent'[r] = <<>> /\ replies'[r] = <<>> /\ log'[r] = <<>> /\ answer[r] = "none"
      /\ \/ pc'[r] = "prepare" /\ snap'[r] = settings /\ answer'[r] = "none"
         \/ pc'[r] = "done" /\ answer'[r] = "refused"
  BY <1>3 DEF At, Waiting, Unsent
<1>5. At(r)' /\ Waiting(r)'
  BY <1>4 DEF At, Waiting, Unsent, Answered
<1>6. Works(r)'
  BY <1>3, <1>4 DEF Works, World
<1>7. KeyKept(r)'
  <2>1. undisturbed'[r] = (saving = NoGateway) /\ UNCHANGED <<saving, keyring>>
    BY DEF world
  <2>2. DOMAIN sent'[r] = {}
    BY <1>4
  <2>3. (undisturbed'[r] /\ pc'[r] = "prepare") => (saving = NoGateway /\ keyring = snap'[r].gw)
    BY <1>3, <1>4, <2>1 DEF World
  <2>4. pc'[r] \in {"prepare", "done"}
    BY <1>4
  <2> QED
    BY ONLY <2>1, <2>2, <2>3, <2>4 DEF KeyKept
<1>8. PickKept(r)'
  <2>1. AskedFor(r)'
    BY <1>4 DEF AskedFor
  <2>2. CASE UNCHANGED picked
    BY <1>3, <1>4, <2>1, <2>2 DEF PickKept
  <2>3. CASE \E b \in Bodies, a \in DOMAIN menu, long \in BOOLEAN :
               /\ req' = [req EXCEPT ![r] = [body |-> b, name |-> [MenuName(a) EXCEPT !.long = long]]]
               /\ picked' = [picked EXCEPT ![r] =
                    IF settings.models.routes = menu THEN Pick(a, settings.models) ELSE NoPick]
    <3>1. PICK a \in DOMAIN menu :
            /\ req'[r].name.alias = a /\ ~req'[r].name.empty
            /\ picked'[r] = IF settings.models.routes = menu THEN Pick(a, settings.models) ELSE NoPick
      BY <2>3 DEF MenuName
    <3>2. NoPick.model = None
      BY DEF NoPick
    <3> QED
      BY <1>4, <2>1, <3>1, <3>2 DEF PickKept
  <2> QED
    BY <2>2, <2>3
<1> QED
  BY <1>1, <1>2, <1>5, <1>6, <1>7, <1>8, StepOf DEF Request

\* A local answer is recorded, a refusal is not.
LEMMA PrepareKeeps == ASSUME IInv, NEW r \in Requests, Prepare(r) PROVE IInv'
<1> USE DEF Prepare, Go, Finish, Record, History
<1>1. Functions'
  BY DEF IInv, Functions
<1>2. \A q \in Requests \ {r} : Same(q)
  BY DEF IInv, Functions, Same
<1> USE DEF IInv, Functions
<1>3. At(r) /\ Waiting(r) /\ Works(r) /\ KeyKept(r) /\ PickKept(r) /\ pc[r] = "prepare"
  OBVIOUS
<1>4. /\ Unsent(r) /\ Unsent(r)' /\ log[r] = <<>> /\ answer[r] = "none"
      /\ \/ pc'[r] = "done" /\ answer'[r] = "local" /\ \E x : log'[r] = <<x>>
         \/ pc'[r] = "done" /\ answer'[r] = "refused" /\ log'[r] = <<>>
         \/ pc'[r] = "key" /\ answer'[r] = "none" /\ log'[r] = <<>>
  <2>1. Unsent(r) /\ Unsent(r)' /\ log[r] = <<>> /\ answer[r] = "none"
    BY <1>3 DEF At, Unsent, Waiting
  <2>2. Append(<<>>, "optimized") = <<"optimized">> /\ Append(<<>>, "probe") = <<"probe">>
    BY AppendToNone
  <2> QED
    BY <2>1, <2>2
<1>5. At(r)' /\ Waiting(r)'
  BY <1>4 DEF At, Waiting, Answered
<1>6. Works(r)' /\ KeyKept(r)' /\ PickKept(r)'
  <2>1. Works(r)'
    BY <1>3, <1>4 DEF Works, IsSettings, IsList
  <2>2. KeyKept(r)'
    BY <1>3, <1>4 DEF KeyKept, world
  <2>3. PickKept(r)'
    BY <1>3, <1>4 DEF PickKept, AskedFor, Unsent, Pick
  <2> QED
    BY <2>1, <2>2, <2>3
<1> QED
  BY <1>1, <1>2, <1>5, <1>6, StepOf DEF Request

\* The first call: its key is the keyring's, its model and effort are the pick's.
LEMMA DispatchKeeps == ASSUME IInv, NEW r \in Requests, Dispatch(r) PROVE IInv'
<1> USE DEF Dispatch, Go, Finish, History
<1>1. Functions'
  BY DEF IInv, Functions
<1>2. \A q \in Requests \ {r} : Same(q)
  BY DEF IInv, Functions, Same
<1> USE DEF IInv, Functions
<1>3. At(r) /\ Waiting(r) /\ Works(r) /\ KeyKept(r) /\ PickKept(r) /\ pc[r] = "key"
  OBVIOUS
<1> DEFINE call == [model |-> Target(r), effort |-> Asked(r), key |-> keyring]
<1>4. /\ replies'[r] = <<>> /\ log'[r] = <<>> /\ replies[r] = <<>>
      /\ \/ pc'[r] = "done" /\ answer'[r] = "refused" /\ sent'[r] = <<>>
         \/ pc'[r] = "wait" /\ answer'[r] = "none" /\ sent'[r] = <<call>>
  BY <1>3 DEF At, Unsent, Waiting
<1>5. At(r)' /\ Waiting(r)'
  <2> DEFINE c == call
  <2>1. Call(c)
    BY DEF Call
  <2> HIDE DEF c
  <2> QED
    BY <1>4, <2>1 DEF At, Waiting, Answered, Unsent, Once, Call
<1>6. Works(r)' /\ KeyKept(r)'
  <2>1. Works(r)'
    BY <1>3, <1>4 DEF Works, IsSettings, IsList
  <2>2. sent'[r] = <<>> \/ (sent'[r] = <<call>> /\ call.key = keyring)
    BY <1>4
  <2> HIDE DEF call
  <2>3. KeyKept(r)'
    BY <1>3, <1>4, <2>2 DEF KeyKept
  <2> QED
    BY <2>1, <2>3
<1>7. PickKept(r)'
  <2>1. SUFFICES ASSUME sent'[r] = <<call>>, pc'[r] = "wait", picked[r].model # None,
                        req[r].body.class # "broken",
                        Some(snap[r].override[req[r].name.family]) = {}
                 PROVE  /\ Target(r) = picked[r].model
                        /\ Asked(r) \subseteq
                             IF picked[r].levels # {} THEN UNION picked[r].levels
                             ELSE IF picked[r].model \in Reasoners THEN Rank ELSE {}
    <3>1. call.model = Target(r) /\ call.effort = Asked(r)
      OBVIOUS
    <3> HIDE DEF call
    <3> QED
      BY <1>3, <1>4, <3>1 DEF PickKept, AskedFor
  <2> DEFINE n == req[r].name
             s == snap[r]
  <2>2. /\ n.alias \in DOMAIN s.models.routes /\ ~n.empty
        /\ picked[r] = Pick(n.alias, s.models)
    BY <1>3, <2>1, SMTT(30) DEF PickKept
  <2>3. Resolve(n, s) = {picked[r].model}
    BY <2>1, <2>2, MenuNameResolves DEF Pick
  <2>4. Target(r) = picked[r].model
    BY <2>1, <2>3 DEF Target
  <2>5. picked[r].levels = {s.models.efforts[b] : b \in {n.alias} \cap DOMAIN s.models.efforts}
    BY <2>2 DEF Pick
  <2>6. \/ Asked(r) = {}
        \/ Asked(r) = Effort(n, req[r].body.thinking, s, picked[r].model \in Reasoners)
    BY <2>4 DEF Asked
  <2> HIDE DEF n, s
  <2>7. CASE n.alias \in DOMAIN s.models.efforts
    <3>1. UNION picked[r].levels = s.models.efforts[n.alias] /\ picked[r].levels # {}
      BY <2>5, <2>7
    <3>2. Asked(r) \subseteq s.models.efforts[n.alias]
      BY <2>6, <2>7, EffortIsListed
    <3> QED
      BY <2>4, <3>1, <3>2
  <2>8. CASE n.alias \notin DOMAIN s.models.efforts
    <3>1. picked[r].levels = {}
      BY <2>5, <2>8
    <3> DEFINE named == picked[r].model \in Reasoners
    <3>2. Effort(n, req[r].body.thinking, s, named) \subseteq IF named THEN Rank ELSE {}
      BY ONLY <2>8, EffortIsListed
    <3>3. Asked(r) \subseteq IF picked[r].model \in Reasoners THEN Rank ELSE {}
      BY <2>6, <3>2
    <3> QED
      BY <2>4, <3>1, <3>3
  <2> QED
    BY <2>7, <2>8
<1> QED
  BY <1>1, <1>2, <1>5, <1>6, <1>7, StepOf DEF Request

\* The first outcome is recorded.
LEMMA RespondKeeps == ASSUME IInv, NEW r \in Requests, Respond(r) PROVE IInv'
<1> USE DEF Respond, Go, Finish, Record, History
<1>1. Functions'
  BY DEF IInv, Functions
<1>2. \A q \in Requests \ {r} : Same(q)
  BY DEF IInv, Functions, Same
<1> USE DEF IInv, Functions
<1>3. At(r) /\ Waiting(r) /\ Works(r) /\ KeyKept(r) /\ PickKept(r) /\ pc[r] = "wait"
  OBVIOUS
<1>4. PICK x \in Reply :
        /\ Once(r) /\ Once(r)' /\ replies'[r] = <<x>> /\ log'[r] = <<x>>
        /\ \/ x = "failed" /\ pc'[r] = "done" /\ answer'[r] = "unreachable"
           \/ x # "failed" /\ pc'[r] = "body" /\ answer'[r] = "none"
  <2>1. Once(r) /\ Once(r)' /\ log[r] = <<>> /\ answer[r] = "none"
    BY <1>3 DEF At, Once, Waiting, Call
  <2>2. \A x \in Reply : Append(<<>>, x) = <<x>>
    BY AppendToNone
  <2> QED
    BY <2>1, <2>2
<1>5. At(r)' /\ Waiting(r)'
  BY <1>4 DEF At, Waiting, Answered, Final, Reply, Success
<1>6. Works(r)'
  BY <1>3, <1>4 DEF Works, IsSettings, IsList
<1>7. KeyKept(r)'
  BY <1>3, <1>4 DEF KeyKept
<1>8. PickKept(r)'
  BY <1>3, <1>4 DEF PickKept, AskedFor, Pick
<1> QED
  BY <1>1, <1>2, <1>5, <1>6, <1>7, <1>8, StepOf DEF Request

\* A first answer is final unless it says that the model is gone.
LEMMA DeliverKeeps == ASSUME IInv, NEW r \in Requests, Deliver(r) PROVE IInv'
<1> USE DEF Deliver, Go, Finish, History
<1>1. Functions'
  BY DEF IInv, Functions
<1>2. \A q \in Requests \ {r} : Same(q)
  BY DEF IInv, Functions, Same
<1> USE DEF IInv, Functions
<1>3. At(r) /\ Waiting(r) /\ Works(r) /\ KeyKept(r) /\ PickKept(r) /\ pc[r] = "body"
  OBVIOUS
<1>4. PICK x \in Reply \ {"failed"} :
        /\ Once(r) /\ Once(r)' /\ replies[r] = <<x>> /\ replies'[r] = <<x>> /\ log'[r] = <<x>>
        /\ answer[r] = "none"
  BY <1>3 DEF At, Once, Call, Waiting
<1>5. \/ pc'[r] = "refresh" /\ answer'[r] = "none" /\ x = "gone"
      \/ pc'[r] = "done" /\ Final(r, x)'
  <2>1. replies[r][1] = x
    BY <1>4
  <2>2. IsNative(r)' = IsNative(r)
    BY DEF IsNative
  <2> QED
    BY <1>4, <2>1, <2>2 DEF Final, Reply, Success
<1>6. At(r)' /\ Waiting(r)'
  BY <1>4, <1>5 DEF At, Waiting, Answered
<1>7. Works(r)'
  BY <1>3, <1>5 DEF Works, IsSettings, IsList
<1>8. KeyKept(r)'
  BY <1>3, <1>5 DEF KeyKept
<1>9. PickKept(r)'
  BY <1>3, <1>5 DEF PickKept, AskedFor, Pick
<1> QED
  BY <1>1, <1>2, <1>6, <1>7, <1>8, <1>9, StepOf DEF Request

\* The retry asks for another model, with the key and the effort of the first call.
LEMMA RetryKeeps == ASSUME IInv, NEW r \in Requests, Retry(r) PROVE IInv'
<1> USE DEF Retry, Go, Finish, History
<1>1. Functions'
  BY DEF IInv, Functions
<1>2. \A q \in Requests \ {r} : Same(q)
  BY DEF IInv, Functions, Same
<1>3. /\ At(r) /\ Waiting(r) /\ Works(r) /\ KeyKept(r) /\ PickKept(r) /\ pc[r] = "refresh"
      /\ IsSettings(snap[r]) /\ answer[r] = "none" /\ offered \in Lists
  BY DEF IInv, Works, Waiting, World
<1>4. Once(r) /\ replies[r] = <<"gone">> /\ log[r] = <<"gone">>
  BY <1>3 DEF At
<1> DEFINE stale == sent[r][1].model
<1>5. PICK models \in {snap[r].models, Refreshed(offered, snap[r].prefs)} :
        LET s    == [snap[r] EXCEPT !.models = models]
            next == Lowest(Fallbacks(req[r].name, stale, s))
        IN  /\ snap' = [snap EXCEPT ![r] = s]
            /\ \/ Finish(r, "error") /\ UNCHANGED sent
               \/ /\ \E m \in next :
                       sent' = [sent EXCEPT ![r] = Append(@, [sent[r][1] EXCEPT !.model = m])]
                  /\ Go(r, "again")
  <2> HIDE DEF Go, Finish
  <2> QED
    OBVIOUS
<1> DEFINE s == [snap[r] EXCEPT !.models = models]
<1>6. IsList(models)
  BY <1>3, ListsAreLists DEF Refreshed, IsSettings
<1>7. /\ IsSettings(s) /\ s.models = models
      /\ s.gw = snap[r].gw /\ s.override = snap[r].override
  BY <1>3, <1>6 DEF IsSettings
<1> HIDE DEF s
<1>8. \A m \in Lowest(Fallbacks(req[r].name, stale, s)) : m \notin {stale, None}
  <2>1. Targets(s) \subseteq Models /\ s.models.discovered \subseteq Models
    BY <1>6, <1>7 DEF Targets, IsList
  <2> QED
    BY <2>1, FallbackIsAnother
<1> USE DEF IInv, Functions
<1>9. /\ snap'[r] = s /\ req'[r] = req[r] /\ replies'[r] = replies[r] /\ log'[r] = log[r]
      /\ picked'[r] = picked[r] /\ undisturbed'[r] = undisturbed[r]
  BY <1>5 DEF s
<1>10. \/ pc'[r] = "done" /\ answer'[r] = "error" /\ sent'[r] = sent[r]
       \/ pc'[r] = "again" /\ answer'[r] = "none" /\ Twice(r)' /\ sent'[r][1] = sent[r][1]
  <2>1. CASE Finish(r, "error") /\ UNCHANGED sent
    BY <2>1
  <2>2. ASSUME NEW m \in Lowest(Fallbacks(req[r].name, stale, s)),
               sent' = [sent EXCEPT ![r] = Append(@, [sent[r][1] EXCEPT !.model = m])],
               Go(r, "again")
        PROVE  pc'[r] = "again" /\ answer'[r] = "none" /\ Twice(r)' /\ sent'[r][1] = sent[r][1]
    <3> DEFINE first  == sent[r][1]
               second == [first EXCEPT !.model = m]
    <3>1. sent[r] = <<first>> /\ Call(first)
      BY <1>4 DEF Once
    <3>2. second.model = m /\ second.key = first.key /\ Call(second)
      BY <3>1 DEF Call
    <3>3. sent'[r] = Append(<<first>>, second)
      BY <2>2, <3>1
    <3>4. m \notin {first.model, None}
      BY <1>8
    <3> HIDE DEF first, second
    <3>5. sent'[r] = <<first, second>>
      BY <3>3, AppendToOne
    <3>6. Twice(r)' /\ sent'[r][1] = first
      BY <3>1, <3>2, <3>4, <3>5 DEF Twice, Call
    <3> QED
      BY <1>3, <2>2, <3>6 DEF first
  <2> QED
    BY <1>5, <2>1, <2>2 DEF s
<1>11. At(r)' /\ Waiting(r)'
  <2>1. CASE pc'[r] = "done" /\ answer'[r] = "error" /\ sent'[r] = sent[r]
    <3>1. Once(r)'
      BY <1>4, <2>1 DEF Once, Call
    <3>2. Final(r, "gone")'
      BY <2>1 DEF Final
    <3>3. Answered(r)'
      BY <1>4, <1>9, <3>1, <3>2 DEF Answered, Reply
    <3> QED
      BY <2>1, <3>3 DEF At, Waiting
  <2>2. CASE pc'[r] = "again" /\ answer'[r] = "none" /\ Twice(r)'
    BY <1>4, <1>9, <2>2 DEF At, Waiting
  <2> QED
    BY <1>10, <2>1, <2>2
<1>12. Works(r)'
  BY <1>7, <1>9 DEF Works, IsSettings, IsList
<1>13. KeyKept(r)'
  <2>1. CASE sent'[r] = sent[r]
    BY <1>3, <1>7, <1>9, <1>10, <2>1 DEF KeyKept
  <2>2. CASE pc'[r] = "again" /\ Twice(r)' /\ sent'[r][1] = sent[r][1]
    <3>1. 1 \in DOMAIN sent[r]
      BY <1>4 DEF Once
    <3>2. /\ \A i \in DOMAIN sent'[r] : i \in {1, 2}
          /\ sent'[r][2].key = sent[r][1].key
      BY <2>2 DEF Twice
    <3> QED
      BY <1>3, <1>7, <1>9, <2>2, <3>1, <3>2 DEF KeyKept
  <2> QED
    BY <1>10, <2>1, <2>2
<1>14. PickKept(r)'
  <2>1. sent'[r][1] = sent[r][1] /\ sent[r] # <<>>
    BY <1>4, <1>10 DEF Once
  <2> QED
    BY <1>3, <1>7, <1>9, <1>10, <2>1 DEF PickKept, AskedFor
<1>15. UNCHANGED world
  OBVIOUS
<1> QED
  BY <1>1, <1>2, <1>11, <1>12, <1>13, <1>14, <1>15, StepOf DEF Request

\* The second answer is final, and not recorded.
LEMMA RespondAgainKeeps == ASSUME IInv, NEW r \in Requests, RespondAgain(r) PROVE IInv'
<1> USE DEF RespondAgain, Finish, History
<1>1. Functions'
  BY DEF IInv, Functions
<1>2. \A q \in Requests \ {r} : Same(q)
  BY DEF IInv, Functions, Same
<1> USE DEF IInv, Functions
<1>3. At(r) /\ Waiting(r) /\ Works(r) /\ KeyKept(r) /\ PickKept(r) /\ pc[r] = "again"
  OBVIOUS
<1>4. PICK x \in Reply :
        /\ Twice(r)' /\ replies'[r] = <<"gone", x>> /\ log'[r] = <<"gone">>
        /\ pc'[r] = "done" /\ answer'[r] = Second(r, x)
  <2>1. Twice(r)' /\ replies[r] = <<"gone">> /\ log'[r] = <<"gone">>
    BY <1>3 DEF At, Twice, Call
  <2>2. \A x \in Reply : Append(<<"gone">>, x) = <<"gone", x>>
    BY AppendToOne
  <2> QED
    BY <2>1, <2>2
<1>5. FinalAgain(r, x)'
  <2>1. IsNative(r)' = IsNative(r)
    BY DEF IsNative
  <2> QED
    BY <1>4, <2>1 DEF FinalAgain, Second, Reply, Success
<1>6. At(r)' /\ Waiting(r)'
  BY <1>4, <1>5 DEF At, Waiting, Answered
<1>7. Works(r)' /\ KeyKept(r)' /\ PickKept(r)'
  BY <1>3, <1>4 DEF Works, KeyKept, PickKept, AskedFor
<1> QED
  BY <1>1, <1>2, <1>6, <1>7, StepOf DEF Request

\* A client that goes away leaves the log as it is.
LEMMA DropKeeps == ASSUME IInv, NEW r \in Requests, Drop(r) PROVE IInv'
<1> USE DEF Drop, History
<1>1. Functions'
  BY DEF IInv, Functions
<1>2. \A q \in Requests \ {r} : Same(q)
  BY DEF IInv, Functions, Same
<1> USE DEF IInv, Functions
<1>3. At(r) /\ Waiting(r) /\ pc[r] \notin {"idle", "done", "dropped"}
  BY DEF Active, Ended
<1>4. /\ pc'[r] = "dropped" /\ sent'[r] = <<>> /\ replies'[r] = <<>>
      /\ log'[r] = log[r] /\ answer'[r] = answer[r]
  OBVIOUS
<1>5. log[r] = <<>> \/ \E x : log[r] = <<x>>
  BY <1>3 DEF At
<1>6. At(r)' /\ Waiting(r)'
  BY <1>3, <1>4, <1>5 DEF At, Waiting, Unsent
<1>7. DOMAIN sent'[r] = {}
  BY <1>4
<1>8. Works(r)' /\ KeyKept(r)' /\ PickKept(r)'
  BY <1>4, <1>7 DEF Works, KeyKept, PickKept, AskedFor
<1> QED
  BY <1>1, <1>2, <1>6, <1>8, StepOf DEF Request

\* What changes under the requests leaves all they hold alone but the history of
\* their keys.
LEMMA WorldStepKeeps ==
  ASSUME IInv, World', Others, UNCHANGED picked, DOMAIN undisturbed' = Requests,
         \A q \in Requests : KeyKept(q)'
  PROVE  IInv'
<1> USE DEF IInv, Others
<1>1. Functions'
  BY DEF Functions
<1>2. ASSUME NEW q \in Requests PROVE At(q)' /\ Waiting(q)' /\ Works(q)' /\ PickKept(q)'
  <2>1. At(q)'
    BY SMTT(30) DEF At, Unsent, Once, Twice, Answered, Final, FinalAgain, Call, IsNative
  <2>2. Waiting(q)' /\ Works(q)'
    BY DEF Waiting, Works, IsSettings, IsList
  <2>3. PickKept(q)'
    BY DEF PickKept, AskedFor, Pick
  <2> QED
    BY <2>1, <2>2, <2>3
<1> QED
  BY <1>1, <1>2

\* A save that stores a key disturbs the requests that have not read theirs.
LEMMA SaveKeyKeeps == ASSUME IInv, SaveKey PROVE IInv'
<1> USE DEF SaveKey
<1>1. World'
  <2>1. World /\ UNCHANGED <<settings, offered>> /\ keyring' = saving' /\ saving' # NoGateway
    BY GatewaysAssumption DEF IInv
  <2>2. IsSettings(settings)'
    BY <2>1 DEF World, IsSettings, IsList
  <2> QED
    BY ONLY <2>1, <2>2 DEF World
<1>2. ASSUME NEW q \in Requests PROVE KeyKept(q)'
  <2>1. undisturbed'[q] => undisturbed[q] /\ pc'[q] \notin {"prepare", "key"}
    BY DEF Others
  <2>2. KeyKept(q) /\ UNCHANGED <<sent, snap>>
    BY DEF IInv, Others
  <2> QED
    BY ONLY <2>1, <2>2 DEF KeyKept
<1> QED
  BY <1>1, <1>2, WorldStepKeeps

\* What the settings keep of a list is a list.
LEMMA PublishedIsList == ASSUME NEW list \in Lists, NEW p PROVE IsList(Published(list, p))
BY ListsAreLists DEF Published

\* A save that ends has the key and the settings agree again.
LEMMA SaveFileKeeps == ASSUME IInv, SaveFile PROVE IInv'
<1> USE DEF SaveFile, History
<1>1. PICK p \in ListPrefs : \E models \in {settings.models, Published(offered, p)} :
        settings' = [settings EXCEPT !.gw = saving, !.prefs = p, !.models = models]
  OBVIOUS
<1>2. PICK models \in {settings.models, Published(offered, p)} :
        settings' = [settings EXCEPT !.gw = saving, !.prefs = p, !.models = models]
  BY <1>1
<1>3. IsList(models)
  BY PublishedIsList DEF IInv, World, IsSettings
<1>4. IsSettings(settings') /\ settings'.gw = saving
  BY <1>2, <1>3 DEF IInv, World, IsSettings
<1>5. World'
  BY <1>4 DEF IInv, World, IsSettings, IsList
<1>6. ASSUME NEW q \in Requests PROVE KeyKept(q)'
  <2>1. undisturbed[q] => pc[q] \notin {"prepare", "key"}
    BY DEF IInv, KeyKept
  <2> QED
    BY <2>1 DEF IInv, KeyKept, Others
<1> QED
  BY <1>5, <1>6, WorldStepKeeps DEF IInv, Functions

\* A fetched list leaves the gateway as it is.
LEMMA FetchListKeeps == ASSUME IInv, FetchList PROVE IInv'
<1> USE DEF FetchList, History
<1> DEFINE models == Published(offered, settings.prefs)
<1>1. IsList(models)
  BY PublishedIsList DEF IInv, World
<1> HIDE DEF models
<1>2. settings' = [settings EXCEPT !.models = models]
  BY DEF models
<1>3. IsSettings(settings') /\ settings'.gw = settings.gw
  BY <1>1, <1>2 DEF IInv, World, IsSettings
<1>4. World'
  <2>1. World /\ UNCHANGED <<keyring, saving, offered>>
    BY DEF IInv
  <2>2. IsSettings(settings)'
    BY <1>3 DEF IsSettings, IsList
  <2> QED
    BY ONLY <1>3, <2>1, <2>2 DEF World
<1>5. \A q \in Requests : KeyKept(q)'
  BY DEF IInv, KeyKept, Others
<1> QED
  BY <1>4, <1>5, WorldStepKeeps DEF IInv, Functions

\* Neither the menu nor the gateway's list is the concern of a request under way.
LEMMA MenuAndOfferKeep == ASSUME IInv, ReadMenu \/ Offer PROVE IInv'
<1> USE DEF ReadMenu, Offer, History
<1>1. World'
  BY DEF IInv, World, IsSettings, IsList
<1>2. \A q \in Requests : KeyKept(q)'
  BY DEF IInv, KeyKept, Others
<1> QED
  BY <1>1, <1>2, WorldStepKeeps DEF IInv, Functions

\* A step that changes nothing keeps the invariant.
LEMMA StutterKeeps == ASSUME IInv, UNCHANGED vars PROVE IInv'
<1>1. World'
  BY DEF IInv, World, IsSettings, IsList, vars
<1>2. \A q \in Requests : KeyKept(q)'
  BY DEF IInv, KeyKept, vars
<1> QED
  BY <1>1, <1>2, WorldStepKeeps DEF IInv, Functions, Others, vars
-----------------------------------------------------------------------------
(* The invariant and what it implies                                       *)

\* It holds at first.
LEMMA InitIInv == Init => IInv
<1> SUFFICES ASSUME Init PROVE IInv
  OBVIOUS
<1> USE DEF Init
<1>1. IsSettings(settings) /\ keyring = settings.gw /\ saving = NoGateway /\ offered \in Lists
  <2>1. PICK gw \in Gateways, p \in ListPrefs, m \in Mappings, fetched \in Lists :
          settings = [gw |-> gw, prefs |-> p, override |-> m.family, global |-> m.all,
                      models |-> Published(fetched, p)]
    OBVIOUS
  <2>2. IsList(Published(fetched, p))
    BY PublishedIsList
  <2> QED
    BY <2>1, <2>2 DEF IsSettings
<1>2. World
  BY <1>1 DEF World
<1>3. Functions
  BY DEF Functions
<1>4. \A q \in Requests : At(q) /\ Waiting(q) /\ Works(q) /\ KeyKept(q) /\ PickKept(q)
  BY DEF At, Unsent, Waiting, Works, KeyKept, PickKept, AskedFor
<1> QED
  BY <1>2, <1>3, <1>4 DEF IInv

\* Every step keeps it.
LEMMA NextIInv == IInv /\ [Next]_vars => IInv'
<1> SUFFICES ASSUME IInv, [Next]_vars PROVE IInv'
  OBVIOUS
<1>1. ASSUME NEW r \in Requests, Receive(r) \/ Handle(r) \/ Drop(r) PROVE IInv'
  BY <1>1, ReceiveKeeps, PrepareKeeps, DispatchKeeps, RespondKeeps, DeliverKeeps,
     RetryKeeps, RespondAgainKeeps, DropKeeps DEF Handle
<1>2. CASE SaveKey \/ SaveFile \/ FetchList \/ ReadMenu \/ Offer
  BY <1>2, SaveKeyKeeps, SaveFileKeeps, FetchListKeeps, MenuAndOfferKeep
<1>3. CASE UNCHANGED vars
  BY <1>3, StutterKeeps
<1> QED
  BY <1>1, <1>2, <1>3 DEF Next, Finished

\* The invariant holds always.
THEOREM InvariantHolds == Spec => []IInv
BY InitIInv, NextIInv, PTL DEF Spec

\* A request is sent at most twice, and the second time to another model
\* (try_stale_model_retry).
THEOREM SpecRetriesOnce == Spec => []RetriesOnce
<1>1. IInv => RetriesOnce
  <2> SUFFICES ASSUME IInv, NEW r \in Requests
               PROVE  /\ Len(sent[r]) =< 2
                      /\ Len(sent[r]) = 2 =>
                           /\ replies[r][1] = "gone"
                           /\ answer[r] \notin {"refused", "local", "bad"}
                           /\ sent[r][2].model \notin {sent[r][1].model, None}
    BY DEF RetriesOnce
  <2>1. At(r) /\ Waiting(r)
    BY DEF IInv
  <2>2. /\ Unsent(r) => Len(sent[r]) = 0
        /\ Once(r) => Len(sent[r]) = 1
        /\ Twice(r) => Len(sent[r]) = 2 /\ sent[r][2].model \notin {sent[r][1].model, None}
    BY SmallTuples DEF Unsent, Once, Twice
  <2>3. Len(sent[r]) \in {0, 1, 2}
    BY <2>1, <2>2 DEF At, Answered
  <2>4. Len(sent[r]) = 2 => Twice(r) /\ replies[r][1] = "gone"
                            /\ answer[r] \notin {"refused", "local", "bad"}
    BY <2>1, <2>2 DEF At, Answered, Waiting, FinalAgain
  <2>5. Len(sent[r]) =< 2
    <3>1. \A n \in {0, 1, 2} : n =< 2
      OBVIOUS
    <3> QED
      BY ONLY <2>3, <3>1
  <2> QED
    BY <2>2, <2>4, <2>5
<1> QED
  BY <1>1, InvariantHolds, PTL

\* What the client is told is what the gateway said (dispatch_upstream and its
\* handlers of an answer).
THEOREM SpecAnswerTellsTheReplies == Spec => []AnswerTellsTheReplies
<1>1. IInv => AnswerTellsTheReplies
  <2> SUFFICES ASSUME IInv, NEW r \in Requests, NEW n, n = Len(replies[r])
               PROVE  /\ answer[r] \in {"message", "stream"} => (n > 0 /\ replies[r][n] \in Success)
                      /\ answer[r] = "message" => replies[r][n] = "good"
                      /\ answer[r] = "error" => (replies[r][1] \in {"gone", "error"})
                      /\ (pc[r] = "done" /\ n = 2 /\ replies[r][2] = "good") =>
                           answer[r] \in {"message", "stream", "passed"}
                      /\ answer[r] = "passed" => IsNative(r)
    BY DEF AnswerTellsTheReplies
  <2>1. At(r) /\ Waiting(r)
    BY DEF IInv
  <2>2. CASE pc[r] # "done"
    BY <2>1, <2>2 DEF Waiting
  <2>3. CASE pc[r] = "done" /\ Unsent(r) /\ answer[r] \in {"refused", "local"}
    BY <2>3 DEF Unsent
  <2>4. ASSUME NEW x \in Reply, pc[r] = "done", replies[r] = <<x>>, Final(r, x)
        PROVE  /\ n = 1 /\ replies[r][1] = x
               /\ Final(r, x)
    BY <2>4
  <2>5. ASSUME NEW x \in Reply, pc[r] = "done", replies[r] = <<"gone", x>>, FinalAgain(r, x)
        PROVE  /\ n = 2 /\ replies[r][1] = "gone" /\ replies[r][2] = x
               /\ FinalAgain(r, x)
    BY <2>5
  <2>6. CASE \E x \in Reply : pc[r] = "done" /\ replies[r] = <<x>> /\ Final(r, x)
    BY <2>4, <2>6 DEF Final, Success
  <2>7. CASE \E x \in Reply : pc[r] = "done" /\ replies[r] = <<"gone", x>> /\ FinalAgain(r, x)
    BY <2>5, <2>7 DEF FinalAgain, Success
  <2> QED
    BY <2>1, <2>2, <2>3, <2>6, <2>7 DEF At, Answered
<1> QED
  BY <1>1, InvariantHolds, PTL

\* Every call that was answered locally or sent is in the log once, with its
\* first outcome (record_api_outcome).
THEOREM SpecLoggedOnce == Spec => []LoggedOnce
<1>1. IInv => LoggedOnce
  <2> SUFFICES ASSUME IInv, NEW r \in Requests
               PROVE  /\ Len(log[r]) =< 1
                      /\ pc[r] = "done" => ((log[r] = <<>>) <=> (answer[r] = "refused"))
                      /\ replies[r] # <<>> => log[r] = <<replies[r][1]>>
    BY DEF LoggedOnce
  <2>1. At(r)
    BY DEF IInv
  <2>2. pc[r] = "done" => Answered(r)
    BY <2>1 DEF At
  <2>3. \/ log[r] = <<>> /\ replies[r] = <<>>
        \/ \E x : log[r] = <<x>> /\ (replies[r] # <<>> => replies[r][1] = x)
    BY <2>1 DEF At, Answered, Unsent
  <2>4. Len(log[r]) =< 1 /\ (replies[r] # <<>> => log[r] = <<replies[r][1]>>)
    <3>1. CASE log[r] = <<>> /\ replies[r] = <<>>
      BY <3>1
    <3>2. ASSUME NEW x, log[r] = <<x>>, replies[r] # <<>> => replies[r][1] = x
          PROVE  Len(log[r]) =< 1 /\ (replies[r] # <<>> => log[r] = <<replies[r][1]>>)
      <4>1. Len(log[r]) = 1
        BY <3>2
      <4> QED
        BY <3>2, <4>1
    <3> QED
      BY <2>3, <3>1, <3>2
  <2>5. Answered(r) => ((log[r] = <<>>) <=> (answer[r] = "refused"))
    BY SmallTuples DEF Answered, Final, FinalAgain
  <2> QED
    BY <2>2, <2>4, <2>5
<1> QED
  BY <1>1, InvariantHolds, PTL

\* The key a request sends belongs to the gateway it is sent to, unless a save
\* came in between (handle_proxy, save_or_refresh).
THEOREM SpecKeyOfItsGateway == Spec => []KeyOfItsGateway
<1>1. IInv => KeyOfItsGateway
  BY DEF IInv, KeyKept, KeyOfItsGateway
<1> QED
  BY <1>1, InvariantHolds, PTL

\* The model that was picked from the menu is the one that is asked for, with an
\* effort the list gives it (resolve_model_route, apply_thinking_mapping).
THEOREM SpecPickedModelIsAsked == Spec => []PickedModelIsAsked
<1>1. IInv => PickedModelIsAsked
  BY DEF IInv, PickKept, AskedFor, PickedModelIsAsked
<1> QED
  BY <1>1, InvariantHolds, PTL

-----------------------------------------------------------------------------
(* The types                                                               *)

TypedRequest(q) ==
  /\ Active(q) => Typed(snap[q]) /\ Readable(req[q].name)
  /\ \A i \in DOMAIN sent[q] : sent[q][i] \in Sent
  /\ picked[q].model \in Models \cup {None}

TypedWorld ==
  /\ Typed(settings)
  /\ keyring \in Gateways /\ saving \in Gateways \cup {NoGateway}
  /\ DOMAIN menu \subseteq Aliases
  /\ changes \in 0 .. MaxChanges

Types == TypedWorld /\ \A q \in Requests : TypedRequest(q)

\* The settings stay typed when a list of the gateway's models is put into them.
LEMMA TypedWithList ==
  ASSUME NEW s, IsSettings(s), Typed(s), NEW list \in Lists, NEW hidden
  PROVE  LET t == [s EXCEPT !.models = Routing(list, s.prefs, hidden)]
         IN  IsSettings(t) /\ Typed(t) /\ t.models = Routing(list, s.prefs, hidden)
<1> DEFINE models == Routing(list, s.prefs, hidden)
<1>1. list \subseteq Models /\ IsFiniteSet(list) /\ s.prefs \in Prefs
  BY ListsAssumption, PrefsAssumption DEF Typed
<1>2. /\ DOMAIN models.routes \subseteq Aliases
      /\ \A a \in DOMAIN models.efforts : models.efforts[a] \subseteq Rank
  BY <1>1, ListTyped DEF Aliases
<1>3. IsList(models)
  BY ListsAreLists
<1> HIDE DEF models
<1> DEFINE t == [s EXCEPT !.models = models]
<1>4. /\ t.gw = s.gw /\ t.prefs = s.prefs /\ t.override = s.override /\ t.global = s.global
      /\ t.models = models
      /\ t = [gw |-> t.gw, prefs |-> t.prefs, override |-> t.override, global |-> t.global,
              models |-> t.models]
  BY DEF IsSettings
<1> HIDE DEF t
<1>5. IsSettings(t) /\ Typed(t) /\ t.models = models
  BY <1>2, <1>3, <1>4 DEF IsSettings, Typed
<1> QED
  BY <1>5 DEF t, models

\* The typed settings lead to models and known levels only.
LEMMA TypedTargets ==
  ASSUME NEW s, IsSettings(s), Typed(s)
  PROVE  /\ Targets(s) \subseteq Models /\ s.models.discovered \subseteq Models
         /\ s.override \in [Family -> Models \cup {None}] /\ s.global \in Models \cup {None}
BY DEF IsSettings, IsList, Typed, Targets

\* A step that changes none of the data of a request, and does not start it.
LEMMA TypedStays ==
  ASSUME NEW q \in Requests, TypedRequest(q), Active(q)' => Active(q),
         req'[q] = req[q], snap'[q] = snap[q], sent'[q] = sent[q], picked'[q] = picked[q]
  PROVE  TypedRequest(q)'
<1>1. Typed(snap[q]) => Typed(snap[q])'
  BY DEF Typed
<1> QED
  BY <1>1 DEF TypedRequest, Typed

\* A request arrives with a typed name and reads typed settings.
LEMMA ReceiveTyped ==
  ASSUME IInv, Types, NEW r \in Requests, Receive(r)
  PROVE  TypedRequest(r)'
<1>0. /\ r \in DOMAIN req /\ r \in DOMAIN snap /\ r \in DOMAIN sent /\ r \in DOMAIN picked
      /\ pc[r] = "idle" /\ r \in DOMAIN pc
  BY DEF IInv, Functions, Receive
<1>1. DOMAIN sent'[r] = {}
  BY DEF IInv, At, Unsent, Receive
<1>2. Readable(req'[r].name)
  <2>1. CASE \E b \in Bodies, a \in DOMAIN menu, long \in BOOLEAN :
               req' = [req EXCEPT ![r] = [body |-> b, name |-> [MenuName(a) EXCEPT !.long = long]]]
    <3>1. PICK a \in DOMAIN menu : req'[r].name.family = a.family /\ req'[r].name.id = None
      BY <1>0, <2>1 DEF MenuName
    <3>2. a \in Aliases
      BY DEF Types, TypedWorld
    <3> QED
      BY <3>1, <3>2 DEF Aliases, Readable
  <2>2. CASE \E stray \in Strays : req' = [req EXCEPT ![r] = stray]
    BY <1>0, <2>2, NamesAssumption
  <2> QED
    BY <2>1, <2>2 DEF Receive
<1>3. picked'[r].model \in Models \cup {None}
  <2>1. CASE UNCHANGED picked
    BY <2>1 DEF Types, TypedRequest
  <2>2. CASE \E a \in DOMAIN menu : picked' = [picked EXCEPT ![r] =
               IF settings.models.routes = menu THEN Pick(a, settings.models) ELSE NoPick]
    <3>1. \A a \in DOMAIN settings.models.routes : Pick(a, settings.models).model \in Models
      BY DEF IInv, World, IsSettings, IsList, Pick
    <3>2. NoPick.model = None
      BY DEF NoPick
    <3> QED
      BY <1>0, <2>2, <3>1, <3>2
  <2> QED
    BY <2>1, <2>2 DEF Receive
<1>4. Active(r)' => Typed(snap[r])'
  <2>1. CASE snap' = [snap EXCEPT ![r] = settings]
    <3>1. snap'[r] = settings
      BY <1>0, <2>1
    <3> QED
      BY <3>1 DEF Types, TypedWorld, Typed
  <2>2. CASE Finish(r, "refused")
    BY <1>0, <2>2 DEF Finish, Active, Ended
  <2> QED
    BY <2>1, <2>2 DEF Receive
<1> QED
  BY <1>1, <1>2, <1>3, <1>4 DEF TypedRequest

\* The first call carries a model and an effort, or none, and a gateway's key.
LEMMA DispatchTyped ==
  ASSUME IInv, Types, NEW r \in Requests, Dispatch(r)
  PROVE  TypedRequest(r)'
<1>0. /\ r \in DOMAIN sent /\ r \in DOMAIN pc /\ pc[r] = "key" /\ Active(r) /\ TypedRequest(r)
      /\ req'[r] = req[r] /\ snap'[r] = snap[r] /\ picked'[r] = picked[r]
  BY DEF IInv, Functions, Types, Dispatch, Active, Ended, History
<1> DEFINE n == req[r].name
           s == snap[r]
           call == [model |-> Target(r), effort |-> Asked(r), key |-> keyring]
<1>1. /\ IsSettings(s) /\ Typed(s)
      /\ n.family \in Family \cup {"none"} /\ n.id \in Models \cup {None}
  BY <1>0 DEF IInv, Works, TypedRequest, Readable
<1>2. Target(r) \in Models \cup {None}
  <2>1. Resolve(n, s) \subseteq Models
    <3> HIDE DEF n, s
    <3> QED
      BY <1>1, TypedTargets, ResolveNamesModels
  <2> QED
    BY <1>1, <2>1 DEF Target
<1>3. Asked(r) \subseteq Rank
  <2> DEFINE t == req[r].body.thinking
             named == Target(r) \in Reasoners
  <2>1. \A a \in DOMAIN s.models.efforts : s.models.efforts[a] \subseteq Rank
    BY <1>1 DEF Typed
  <2>2. Asked(r) = {} \/ Asked(r) = Effort(n, t, s, named)
    BY DEF Asked
  <2> HIDE DEF n, s, t, named
  <2>3. Effort(n, t, s, named) \subseteq Rank
    BY <2>1, EffortIsListed
  <2> QED
    BY <2>2, <2>3
<1>4. call \in Sent
  BY <1>2, <1>3 DEF Sent, Types, TypedWorld
<1>5. \A i \in DOMAIN sent'[r] : sent'[r][i] \in Sent
  <2>1. CASE UNCHANGED sent
    BY <1>0, <2>1 DEF TypedRequest
  <2>2. CASE sent' = [sent EXCEPT ![r] = <<call>>]
    <3> HIDE DEF call
    <3>1. sent'[r] = <<call>>
      BY <1>0, <2>2
    <3> QED
      BY <1>4, <3>1
  <2> QED
    BY <2>1, <2>2 DEF Dispatch
<1>6. Typed(snap[r])'
  BY <1>0, <1>1 DEF Typed
<1> QED
  BY <1>0, <1>1, <1>5, <1>6 DEF TypedRequest

\* The second call carries another model.
LEMMA RetryTyped ==
  ASSUME IInv, Types, NEW r \in Requests, Retry(r)
  PROVE  TypedRequest(r)'
<1>0. /\ r \in DOMAIN sent /\ r \in DOMAIN snap /\ pc[r] = "refresh" /\ Active(r) /\ TypedRequest(r)
      /\ req'[r] = req[r] /\ picked'[r] = picked[r] /\ Once(r) /\ offered \in Lists
  BY DEF IInv, Functions, Types, Retry, Active, Ended, History, At, World
<1>1. IsSettings(snap[r]) /\ Typed(snap[r])
  BY <1>0 DEF IInv, Works, TypedRequest
<1>2. PICK models \in {snap[r].models, Refreshed(offered, snap[r].prefs)} :
        LET s    == [snap[r] EXCEPT !.models = models]
            next == Lowest(Fallbacks(req[r].name, sent[r][1].model, s))
        IN  /\ snap' = [snap EXCEPT ![r] = s]
            /\ \/ UNCHANGED sent
               \/ \E m \in next :
                    sent' = [sent EXCEPT ![r] = Append(@, [sent[r][1] EXCEPT !.model = m])]
  BY DEF Retry
<1> DEFINE s    == [snap[r] EXCEPT !.models = models]
           next == Lowest(Fallbacks(req[r].name, sent[r][1].model, s))
<1>3. IsSettings(s) /\ Typed(s)
  <2>1. CASE models = snap[r].models
    <3>1. s = snap[r]
      BY <1>1, <2>1 DEF IsSettings
    <3> QED
      BY <1>1, <3>1
  <2>2. CASE models = Refreshed(offered, snap[r].prefs)
    BY <1>0, <1>1, <2>2, TypedWithList DEF Refreshed
  <2> QED
    BY <2>1, <2>2
<1>4. snap'[r] = s
  BY <1>0, <1>2
<1>5. next \subseteq Models \cup {None}
  <2> HIDE DEF s
  <2> QED
    BY <1>3, TypedTargets DEF Fallbacks, Lowest, Some, Targets
<1>6. sent[r] = <<sent[r][1]>> /\ sent[r][1] \in Sent
  BY <1>0 DEF Once, TypedRequest
<1>7. \A i \in DOMAIN sent'[r] : sent'[r][i] \in Sent
  <2>1. CASE UNCHANGED sent
    BY <1>0, <2>1 DEF TypedRequest
  <2>2. ASSUME NEW m \in next, sent' = [sent EXCEPT ![r] = Append(@, [sent[r][1] EXCEPT !.model = m])]
        PROVE  \A i \in DOMAIN sent'[r] : sent'[r][i] \in Sent
    <3> DEFINE first  == sent[r][1]
               second == [sent[r][1] EXCEPT !.model = m]
    <3>1. second \in Sent
      BY <1>5, <1>6 DEF Sent
    <3>2. sent'[r] = Append(<<first>>, second)
      BY <1>0, <1>6, <2>2
    <3>3. first \in Sent
      BY <1>6
    <3> HIDE DEF first, second
    <3>4. sent'[r] = <<first, second>>
      BY <3>2, AppendToOne
    <3> QED
      BY <3>1, <3>3, <3>4
  <2> QED
    BY <1>2, <2>1, <2>2
<1>8. Typed(snap[r])'
  <2> HIDE DEF s
  <2> QED
    BY <1>3, <1>4 DEF Typed
<1> QED
  BY <1>0, <1>7, <1>8 DEF TypedRequest

\* What changes under the requests keeps its types.
LEMMA WorldTyped ==
  ASSUME IInv, TypedWorld, [Next]_vars
  PROVE  TypedWorld'
<1>0. IsSettings(settings) /\ offered \in Lists /\ Typed(settings)
  BY DEF IInv, World, TypedWorld
<1>1. CASE UNCHANGED world
  BY <1>0, <1>1 DEF world, TypedWorld, Typed
<1>3. CASE SaveKey
  <2>1. keyring' \in Gateways /\ saving' \in Gateways /\ changes' \in 0 .. MaxChanges
        /\ UNCHANGED <<settings, menu>>
    BY <1>3, ChangesAssumption DEF SaveKey, Change, TypedWorld
  <2> QED
    BY <1>0, <2>1 DEF TypedWorld, Typed
<1>4. CASE SaveFile
  <2>0. PICK p \in ListPrefs : \E models \in {settings.models, Published(offered, p)} :
          settings' = [settings EXCEPT !.gw = saving, !.prefs = p, !.models = models]
    BY <1>4 DEF SaveFile
  <2>1. PICK models \in {settings.models, Published(offered, p)} :
          settings' = [settings EXCEPT !.gw = saving, !.prefs = p, !.models = models]
    BY <2>0
  <2>2. saving \in Gateways
    BY <1>4 DEF SaveFile, TypedWorld
  <2>3. /\ DOMAIN models.routes \subseteq Aliases
        /\ \A a \in DOMAIN models.efforts : models.efforts[a] \subseteq Rank
    <3>1. CASE models = settings.models
      BY <1>0, <3>1 DEF Typed
    <3>2. CASE models = Published(offered, p)
      <4>1. offered \subseteq Models /\ IsFiniteSet(offered) /\ p \in Prefs
        BY <1>0, ListsAssumption, PrefsAssumption
      <4> QED
        BY <3>2, <4>1, ListTyped DEF Aliases, Published
    <3> QED
      BY <3>1, <3>2
  <2>4. /\ settings'.gw = saving /\ settings'.prefs = p /\ settings'.models = models
        /\ settings'.override = settings.override /\ settings'.global = settings.global
    BY <1>0, <2>1 DEF IsSettings
  <2>5. Typed(settings)'
    BY <1>0, <2>2, <2>3, <2>4 DEF Typed
  <2>6. saving' = NoGateway /\ UNCHANGED <<keyring, menu, changes>>
    BY <1>4 DEF SaveFile
  <2> QED
    BY <2>5, <2>6 DEF TypedWorld
<1>5. CASE FetchList
  <2>1. settings' = [settings EXCEPT !.models = Published(offered, settings.prefs)]
        /\ UNCHANGED <<keyring, saving, menu>>
    BY <1>5 DEF FetchList
  <2>2. Typed(settings)'
    <3>1. Typed(settings')
      BY <1>0, <2>1, TypedWithList DEF Published
    <3> QED
      BY <3>1 DEF Typed
  <2>3. changes' \in 0 .. MaxChanges
    BY <1>5, ChangesAssumption DEF FetchList, Change, TypedWorld
  <2> QED
    BY <2>1, <2>2, <2>3 DEF TypedWorld
<1>6. CASE ReadMenu
  <2>1. menu' = settings.models.routes /\ UNCHANGED <<settings, keyring, saving, changes>>
    BY <1>6 DEF ReadMenu
  <2> QED
    BY <1>0, <2>1 DEF TypedWorld, Typed
<1>7. CASE Offer
  <2>1. UNCHANGED <<settings, keyring, saving, menu>> /\ changes' \in 0 .. MaxChanges
    BY <1>7, ChangesAssumption DEF Offer, Change, TypedWorld
  <2> QED
    BY <1>0, <2>1 DEF TypedWorld, Typed
<1>8. ASSUME NEW r \in Requests, Receive(r) \/ Handle(r) \/ Drop(r)
      PROVE  UNCHANGED world
  BY <1>8 DEF Handle, Receive, Prepare, Dispatch, Respond, Deliver, Retry, RespondAgain, Drop
<1> QED
  BY <1>1, <1>3, <1>4, <1>5, <1>6, <1>7, <1>8 DEF Next, Finished, vars, world

\* Every step keeps the types of every request.
LEMMA RequestsTyped ==
  ASSUME IInv, Types, [Next]_vars, NEW q \in Requests
  PROVE  TypedRequest(q)'
<1>0. /\ DOMAIN pc = Requests /\ DOMAIN req = Requests /\ DOMAIN snap = Requests
      /\ DOMAIN sent = Requests /\ DOMAIN picked = Requests /\ TypedRequest(q)
  BY DEF IInv, Functions, Types
<1>1. ASSUME NEW r \in Requests, r # q, Receive(r) \/ Handle(r) \/ Drop(r)
      PROVE  TypedRequest(q)'
  <2>1. /\ pc'[q] = pc[q] /\ req'[q] = req[q] /\ snap'[q] = snap[q] /\ sent'[q] = sent[q]
        /\ picked'[q] = picked[q]
    <3>1. CASE Receive(r) \/ Prepare(r) \/ Dispatch(r)
      BY <1>0, <1>1, <3>1 DEF Receive, Prepare, Dispatch, Go, Finish, History
    <3>2. CASE Respond(r) \/ Deliver(r) \/ RespondAgain(r) \/ Drop(r)
      BY <1>0, <1>1, <3>2 DEF Respond, Deliver, RespondAgain, Drop, Go, Finish, History
    <3>3. CASE Retry(r)
      BY <1>0, <1>1, <3>3 DEF Retry, Go, Finish, History
    <3> QED
      BY <1>1, <3>1, <3>2, <3>3 DEF Handle
  <2> QED
    BY <1>0, <2>1, TypedStays DEF Active, Ended
<1>2. CASE Prepare(q) \/ Respond(q) \/ Deliver(q) \/ RespondAgain(q)
  <2>1. /\ Active(q) /\ req'[q] = req[q] /\ snap'[q] = snap[q] /\ sent'[q] = sent[q]
        /\ picked'[q] = picked[q]
    BY <1>2 DEF Prepare, Respond, Deliver, RespondAgain, History, Active, Ended
  <2> QED
    BY <1>0, <2>1, TypedStays
<1>3. CASE Drop(q)
  <2>1. pc'[q] = "dropped" /\ sent'[q] = <<>> /\ picked'[q] = picked[q]
    BY <1>0, <1>3 DEF Drop, History
  <2> QED
    BY <1>0, <2>1 DEF TypedRequest, Active, Ended
<1>4. CASE SaveKey \/ SaveFile \/ FetchList \/ ReadMenu \/ Offer \/ UNCHANGED vars
  <2>1. UNCHANGED <<pc, req, snap, sent, picked>>
    BY <1>4 DEF SaveKey, SaveFile, FetchList, ReadMenu, Offer, Others, History, vars
  <2> QED
    BY <1>0, <2>1, TypedStays, SMTT(30) DEF Active, Ended
<1> QED
  BY <1>1, <1>2, <1>3, <1>4, ReceiveTyped, DispatchTyped, RetryTyped DEF Next, Handle, Finished

\* The types hold always.
LEMMA TypesHold == Spec => []Types
<1>1. Init => Types
  <2> SUFFICES ASSUME Init PROVE Types
    OBVIOUS
  <2>1. PICK gw \in Gateways, p \in ListPrefs, m \in Mappings, fetched \in Lists :
          settings = [gw |-> gw, prefs |-> p, override |-> m.family, global |-> m.all,
                      models |-> Published(fetched, p)]
    BY DEF Init
  <2>2. fetched \subseteq Models /\ IsFiniteSet(fetched) /\ p \in Prefs
        /\ m \in [family : [Family -> Models \cup {None}], all : Models \cup {None}]
    BY ListsAssumption, PrefsAssumption
  <2>3. /\ DOMAIN settings.models.routes \subseteq Aliases
        /\ \A a \in DOMAIN settings.models.efforts : settings.models.efforts[a] \subseteq Rank
    BY <2>1, <2>2, ListTyped DEF Aliases, Published
  <2>4. Typed(settings)
    BY <2>1, <2>2, <2>3 DEF Typed
  <2>5. keyring \in Gateways /\ saving = NoGateway /\ menu = settings.models.routes /\ changes = 0
    BY <2>1 DEF Init
  <2>6. TypedWorld
    BY <2>3, <2>4, <2>5, ChangesAssumption DEF TypedWorld
  <2>7. ASSUME NEW q \in Requests PROVE TypedRequest(q)
    BY DEF Init, TypedRequest, Active
  <2> QED
    BY <2>6, <2>7 DEF Types
<1>2. IInv /\ Types /\ [Next]_vars => Types'
  BY WorldTyped, RequestsTyped DEF Types
<1> QED
  BY <1>1, <1>2, InvariantHolds, PTL DEF Spec

\* Every variable keeps its type (the settings a handler works with, what it
\* sends and hears, and what may change under it).
THEOREM SpecTypeCorrect == Spec => []TypeOK
<1>1. IInv /\ Types => TypeOK
  <2> SUFFICES ASSUME IInv, Types, NEW r \in Requests
               PROVE  /\ sent[r] \in Seq(Sent) /\ replies[r] \in Seq(Reply)
                      /\ Len(replies[r]) =< Len(sent[r])
    BY DEF TypeOK, IInv, World, Types, TypedWorld, TypedRequest
  <2>1. At(r) /\ \A i \in DOMAIN sent[r] : sent[r][i] \in Sent
    BY DEF IInv, Types, TypedRequest
  <2>2. /\ Unsent(r) => sent[r] \in Seq(Sent) /\ Len(sent[r]) = 0
        /\ Once(r) => sent[r] \in Seq(Sent) /\ Len(sent[r]) = 1
        /\ Twice(r) => sent[r] \in Seq(Sent) /\ Len(sent[r]) = 2
    <3>1. ASSUME Unsent(r) PROVE sent[r] \in Seq(Sent) /\ Len(sent[r]) = 0
      BY <3>1 DEF Unsent
    <3>2. ASSUME Once(r) PROVE sent[r] \in Seq(Sent) /\ Len(sent[r]) = 1
      <4>1. PICK c : sent[r] = <<c>>
        BY <3>2 DEF Once
      <4>2. c \in Sent
        BY <2>1, <4>1
      <4> QED
        BY <4>1, <4>2
    <3>3. ASSUME Twice(r) PROVE sent[r] \in Seq(Sent) /\ Len(sent[r]) = 2
      <4>1. PICK c, d : sent[r] = <<c, d>>
        BY <3>3 DEF Twice
      <4>2. c \in Sent /\ d \in Sent
        BY <2>1, <4>1
      <4> QED
        BY <4>1, <4>2
    <3> QED
      BY <3>1, <3>2, <3>3
  <2>3. \/ Unsent(r)
        \/ (Once(r) \/ Twice(r)) /\ replies[r] = <<>>
        \/ (Once(r) \/ Twice(r)) /\ \E x \in Reply : replies[r] = <<x>>
        \/ Twice(r) /\ \E x \in Reply : replies[r] = <<"gone", x>>
    BY <2>1 DEF At, Answered, Reply
  <2>4. CASE Unsent(r)
    BY <2>2, <2>4 DEF Unsent
  <2>5. CASE (Once(r) \/ Twice(r)) /\ replies[r] = <<>>
    BY <2>2, <2>5
  <2>6. ASSUME NEW x \in Reply, Once(r) \/ Twice(r), replies[r] = <<x>>
        PROVE  replies[r] \in Seq(Reply) /\ Len(replies[r]) = 1
    BY <2>6
  <2>7. ASSUME NEW x \in Reply, Twice(r), replies[r] = <<"gone", x>>
        PROVE  replies[r] \in Seq(Reply) /\ Len(replies[r]) = 2
    BY <2>7 DEF Reply
  <2>8. CASE (Once(r) \/ Twice(r)) /\ \E x \in Reply : replies[r] = <<x>>
    <3>1. Len(replies[r]) = 1 /\ replies[r] \in Seq(Reply)
      BY <2>6, <2>8
    <3>2. sent[r] \in Seq(Sent) /\ (Len(sent[r]) = 1 \/ Len(sent[r]) = 2)
      BY <2>2, <2>8
    <3> QED
      BY <3>1, <3>2
  <2>9. CASE Twice(r) /\ \E x \in Reply : replies[r] = <<"gone", x>>
    <3>1. Len(replies[r]) = 2 /\ replies[r] \in Seq(Reply)
      BY <2>7, <2>9
    <3>2. Len(sent[r]) = 2 /\ sent[r] \in Seq(Sent)
      BY <2>2, <2>9
    <3> QED
      BY ONLY <3>1, <3>2
  <2> QED
    BY ONLY <2>3, <2>4, <2>5, <2>8, <2>9
<1> QED
  BY <1>1, InvariantHolds, TypesHold, PTL
-----------------------------------------------------------------------------
(* The names only Claude uses                                              *)

\* What a name is before it is sent, and what it became when it was.
Named(q) ==
  pc[q] \in {"prepare", "key"} =>
    (req[q].name.empty => ~Bracketed(req[q].name) /\ ~req[q].name.numbered)

Mapped(q) ==
  (/\ sent[q] # <<>> /\ req[q].body.class # "broken" /\ Len(sent[q]) = 1
   /\ (Bracketed(req[q].name) \/ req[q].name.numbered)
   /\ snap[q].models.discovered # {})
  => sent[q][1].model # None

MapInv == \A q \in Requests : Named(q) /\ Mapped(q)

\* The first call, and a retry that gives up for want of another model, are the
\* steps that the mapping of a name depends on.
LEMMA MapStep ==
  ASSUME IInv, Types, MapInv, [Next]_vars
  PROVE  MapInv'
<1>0. /\ DOMAIN pc = Requests /\ DOMAIN req = Requests /\ DOMAIN snap = Requests /\ DOMAIN sent = Requests
      /\ \A q \in Requests : Named(q) /\ Mapped(q) /\ At(q) /\ Works(q)
  BY DEF IInv, Functions, MapInv
<1>1. ASSUME NEW q \in Requests, pc'[q] \in {"prepare", "key"} => pc[q] \in {"prepare", "key"},
             req'[q] = req[q], snap'[q] = snap[q], sent'[q] = sent[q]
      PROVE  Named(q)' /\ Mapped(q)'
  BY <1>0, <1>1 DEF Named, Mapped
<1>2. ASSUME NEW r \in Requests, NEW q \in Requests, q # r, Receive(r) \/ Handle(r) \/ Drop(r)
      PROVE  Named(q)' /\ Mapped(q)'
  <2>1. pc'[q] = pc[q] /\ req'[q] = req[q] /\ snap'[q] = snap[q] /\ sent'[q] = sent[q]
    <3>1. CASE Receive(r) \/ Prepare(r) \/ Dispatch(r)
      BY <1>0, <1>2, <3>1 DEF Receive, Prepare, Dispatch, Go, Finish
    <3>2. CASE Respond(r) \/ Deliver(r) \/ RespondAgain(r) \/ Drop(r)
      BY <1>0, <1>2, <3>2 DEF Respond, Deliver, RespondAgain, Drop, Go, Finish
    <3>3. CASE Retry(r)
      BY <1>0, <1>2, <3>3 DEF Retry, Go, Finish
    <3> QED
      BY <1>2, <3>1, <3>2, <3>3 DEF Handle
  <2> QED
    BY <1>1, <2>1
<1>3. ASSUME NEW r \in Requests, Receive(r)
      PROVE  Named(r)' /\ Mapped(r)'
  <2>1. sent'[r] = <<>>
    BY <1>0, <1>3 DEF Receive, At, Unsent
  <2>2. req'[r].name.empty => ~Bracketed(req'[r].name) /\ ~req'[r].name.numbered
    <3>1. CASE \E b \in Bodies, a \in DOMAIN menu, long \in BOOLEAN :
                 req' = [req EXCEPT ![r] = [body |-> b, name |-> [MenuName(a) EXCEPT !.long = long]]]
      BY <1>0, <3>1 DEF MenuName
    <3>2. CASE \E stray \in Strays : req' = [req EXCEPT ![r] = stray]
      BY <1>0, <3>2, NamesAssumption
    <3> QED
      BY <1>3, <3>1, <3>2 DEF Receive
  <2> QED
    BY <2>1, <2>2 DEF Named, Mapped
<1>4. ASSUME NEW r \in Requests, Prepare(r) \/ Respond(r) \/ Deliver(r) \/ RespondAgain(r)
      PROVE  Named(r)' /\ Mapped(r)'
  BY <1>0, <1>1, <1>4 DEF Prepare, Respond, Deliver, RespondAgain, Go, Finish
<1>5. ASSUME NEW r \in Requests, Drop(r)
      PROVE  Named(r)' /\ Mapped(r)'
  BY <1>0, <1>5 DEF Drop, Named, Mapped
<1>6. ASSUME NEW r \in Requests, Dispatch(r)
      PROVE  Named(r)' /\ Mapped(r)'
  <2>1. /\ pc[r] = "key" /\ req'[r] = req[r] /\ snap'[r] = snap[r]
        /\ pc'[r] \in {"done", "wait"} /\ sent[r] = <<>>
    BY <1>0, <1>6 DEF Dispatch, Go, Finish, At, Unsent
  <2>2. CASE sent' = sent
    BY <2>1, <2>2 DEF Named, Mapped
  <2>3. CASE sent' = [sent EXCEPT ![r] = <<[model |-> Target(r), effort |-> Asked(r), key |-> keyring]>>]
    <3> DEFINE n == req[r].name
               s == snap[r]
    <3>1. sent'[r][1].model = Target(r)
      BY <1>0, <2>3
    <3>2. ASSUME req[r].body.class # "broken", Bracketed(n) \/ n.numbered, s.models.discovered # {}
          PROVE  Target(r) # None
      <4>1. ~n.empty
        BY <1>0, <2>1, <3>2 DEF Named
      <4>2. IsList(s.models)
        BY <1>0, <2>1 DEF Works, IsSettings
      <4>3. Targets(s) \subseteq Models /\ s.models.discovered \subseteq Models
        BY <4>2 DEF Targets, IsList
      <4>4. Resolve(n, s) \subseteq Models
        <5>1. IsSettings(s) /\ Typed(s) /\ n.family \in Family \cup {"none"}
          BY <1>0, <2>1 DEF Works, Types, TypedRequest, Active, Ended, Readable
        <5> HIDE DEF n, s
        <5> QED
          BY <5>1, TypedTargets, ResolveNamesModels
      <4> HIDE DEF n, s
      <4>5. Resolve(n, s) # {} /\ None \notin Resolve(n, s)
        BY <3>2, <4>1, <4>3, <4>4, ClaudeNameResolves, ModelsAssumption DEF None
      <4>6. Target(r) = CHOOSE k \in Resolve(n, s) : TRUE
        BY <3>2, <4>5 DEF Target, n, s
      <4> QED
        BY <4>5, <4>6
    <3> QED
      BY <2>1, <3>1, <3>2 DEF Named, Mapped
  <2> QED
    BY <1>6, <2>2, <2>3 DEF Dispatch, Finish
<1>7. ASSUME NEW r \in Requests, Retry(r)
      PROVE  Named(r)' /\ Mapped(r)'
  <2>1. /\ pc[r] = "refresh" /\ pc'[r] \in {"done", "again"} /\ req'[r] = req[r] /\ Once(r)
        /\ IsList(snap[r].models) /\ offered \in Lists
    BY <1>0, <1>7 DEF Retry, Go, Finish, At, Works, IsSettings, IInv, World
  <2>2. PICK models \in {snap[r].models, Refreshed(offered, snap[r].prefs)} :
          LET s    == [snap[r] EXCEPT !.models = models]
              next == Lowest(Fallbacks(req[r].name, sent[r][1].model, s))
          IN  /\ snap' = [snap EXCEPT ![r] = s]
              /\ IF next = {} \/ req[r].body.class = "broken"
                 THEN Finish(r, "error") /\ UNCHANGED sent
                 ELSE /\ \E m \in next :
                           sent' = [sent EXCEPT ![r] = Append(@, [sent[r][1] EXCEPT !.model = m])]
                      /\ Go(r, "again")
    BY <1>7 DEF Retry
  <2> DEFINE s    == [snap[r] EXCEPT !.models = models]
             next == Lowest(Fallbacks(req[r].name, sent[r][1].model, s))
  <2>3. IsList(models)
    BY <2>1, ListsAreLists DEF Refreshed
  <2>4. snap'[r] = s /\ s.models = models
    BY <1>0, <2>1, <2>2 DEF IsSettings, Works
  <2>5. CASE next = {} /\ UNCHANGED sent
    <3>1. SUFFICES ASSUME sent[r][1].model = None, models.discovered # {}
                   PROVE  FALSE
      BY <2>1, <2>4, <2>5 DEF Named, Mapped
    <3>2. Fallbacks(req[r].name, None, s) \subseteq Models
      <4>1. s.global \in Models \cup {None}
        BY <1>0, <2>1 DEF Types, TypedRequest, Active, Ended, Typed, Works, IsSettings
      <4> HIDE DEF s
      <4> QED
        BY <2>3, <2>4, <4>1 DEF Fallbacks, Some, IsList
    <3>3. models.discovered \subseteq Fallbacks(req[r].name, None, s)
      BY <2>3, <2>4, ModelsAssumption DEF Fallbacks, IsList, None
    <3> QED
      BY <2>5, <3>1, <3>2, <3>3, LowestExists
  <2>6. CASE req[r].body.class = "broken"
    BY <2>1, <2>6 DEF Named, Mapped
  <2>7. ASSUME NEW m \in next, sent' = [sent EXCEPT ![r] = Append(@, [sent[r][1] EXCEPT !.model = m])]
        PROVE  Named(r)' /\ Mapped(r)'
    <3>1. sent[r] = <<sent[r][1]>>
      BY <2>1 DEF Once
    <3>2. Len(sent'[r]) = 2
      <4> DEFINE a == sent[r][1]
                 b == [sent[r][1] EXCEPT !.model = m]
      <4>1. sent'[r] = Append(<<a>>, b)
        BY <1>0, <2>7, <3>1
      <4> HIDE DEF a, b
      <4> QED
        BY <4>1, AppendToOne, SmallTuples
    <3> QED
      BY <2>1, <3>2 DEF Named, Mapped
  <2> QED
    BY <2>2, <2>5, <2>6, <2>7
<1>8. ASSUME SaveKey \/ SaveFile \/ FetchList \/ ReadMenu \/ Offer \/ UNCHANGED vars
      PROVE  MapInv'
  <2>1. UNCHANGED <<pc, req, snap, sent>>
    BY <1>8 DEF SaveKey, SaveFile, FetchList, ReadMenu, Offer, Others, vars
  <2> QED
    BY <1>1, <2>1 DEF MapInv
<1>9. ASSUME NEW r \in Requests, Receive(r) \/ Handle(r) \/ Drop(r)
      PROVE  MapInv'
  <2>1. Named(r)' /\ Mapped(r)'
    BY <1>3, <1>4, <1>5, <1>6, <1>7, <1>9 DEF Handle
  <2> QED
    BY <1>2, <1>9, <2>1 DEF MapInv
<1> QED
  BY <1>8, <1>9 DEF Next, Finished

\* A name with brackets, or of the form claude-...-<number>, never goes out as it
\* is once any list was fetched (resolve_model_route's safety net,
\* try_stale_model_retry).
THEOREM SpecClaudeNamesAreMapped == Spec => []ClaudeNamesAreMapped
<1>1. Init => MapInv
  BY DEF Init, MapInv, Named, Mapped
<1>2. MapInv => ClaudeNamesAreMapped
  BY DEF MapInv, Mapped, ClaudeNamesAreMapped
<1>3. IInv /\ Types /\ MapInv /\ [Next]_vars => MapInv'
  BY MapStep
<1> QED
  BY <1>1, <1>2, <1>3, InvariantHolds, TypesHold, PTL DEF Spec

\* Every list that is written has one alias for every visible model
\* (normalize_models_response, apply_model_visibility).
THEOREM SpecEveryModelHasAnAlias == Spec => EveryModelHasAnAlias
<1> DEFINE Complete(list, prefs) ==
      LET shown == list.discovered \ prefs.hidden
      IN  /\ {list.routes[a] : a \in DOMAIN list.routes} = shown
          /\ Cardinality(DOMAIN list.routes) = Cardinality(shown)
          /\ DOMAIN list.efforts \subseteq DOMAIN list.routes
<1>1. ASSUME NEW known \in Lists, NEW p PROVE Complete(Published(known, p), p)
  <2>1. known \subseteq Models /\ IsFiniteSet(known)
    BY ListsAssumption
  <2> QED
    BY <2>1, RoutesToShown, RoutesCounted DEF Published
<1> HIDE DEF Complete
<1>2. ASSUME IInv, [Next]_vars, settings'.models # settings.models
      PROVE  Complete(settings'.models, settings'.prefs)
  <2>1. CASE SaveFile
    <3>1. PICK p \in ListPrefs : \E models \in {settings.models, Published(offered, p)} :
            settings' = [settings EXCEPT !.gw = saving, !.prefs = p, !.models = models]
      BY <2>1 DEF SaveFile
    <3>2. settings'.prefs = p /\ settings'.models = Published(offered, p)
      BY <1>2, <3>1 DEF IInv, World, IsSettings
    <3> QED
      BY <1>1, <1>2, <3>2 DEF IInv, World
  <2>2. CASE FetchList
    <3>1. settings' = [settings EXCEPT !.models = Published(offered, settings.prefs)]
      BY <2>2 DEF FetchList
    <3>2. settings'.prefs = settings.prefs /\ settings'.models = Published(offered, settings.prefs)
      BY <1>2, <3>1 DEF IInv, World, IsSettings
    <3> QED
      BY <1>1, <1>2, <3>2 DEF IInv, World
  <2>3. CASE UNCHANGED settings
    BY <1>2, <2>3, SMTT(30)
  <2>4. SaveFile \/ FetchList \/ UNCHANGED settings
    BY <1>2 DEF Next, Handle, Receive, Prepare, Dispatch, Respond, Deliver, Retry, RespondAgain,
       Drop, SaveKey, ReadMenu, Offer, Finished, world, vars
  <2> QED
    BY <2>1, <2>2, <2>3, <2>4
<1>3. IInv /\ [Next]_vars =>
        [LET list  == settings'.models
             shown == list.discovered \ settings'.prefs.hidden
         IN  list # settings.models =>
               /\ {list.routes[a] : a \in DOMAIN list.routes} = shown
               /\ Cardinality(DOMAIN list.routes) = Cardinality(shown)
               /\ DOMAIN list.efforts \subseteq DOMAIN list.routes]_vars
  BY <1>2 DEF Complete
<1> QED
  BY <1>3, InvariantHolds, PTL DEF Spec, EveryModelHasAnAlias
=============================================================================

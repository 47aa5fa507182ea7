------------------------ MODULE StatuteCascade_proofs ------------------------
(***************************************************************************)
(* Theorems about the walk: over any graph, with any number of edits       *)
(* between its requests and of answers that are lost.                      *)
(***************************************************************************)
EXTENDS StatuteCascade, TLAPS

-----------------------------------------------------------------------------
(* The inductive invariant.                                                *)

\* What the walk has followed was bound when it was read, and nothing is deleted.
PathBound ==
  /\ roleUrn # none => <<persona, roleUrn>> \in bindings
  /\ domainUrn # none => <<domainUrn, roleUrn>> \in bindings
  /\ categoryUrn # none => <<categoryUrn, domainUrn>> \in bindings

\* How far the walk has come.
Progress ==
  /\ pc \in {"constitution", "persona"} => roleUrn = none
  /\ pc \in {"constitution", "persona", "role"} => domainUrn = none
  /\ pc \in {"constitution", "persona", "role", "domain"} => categoryUrn = none
  /\ pc \in {"role", "load_role"} => roleUrn # none
  /\ pc \in {"domain", "load_domain"} => domainUrn # none /\ roleUrn # none
  /\ pc = "load_category" => categoryUrn # none /\ domainUrn # none /\ roleUrn # none

\* The layers of c are among the first n, each once and in order.
UpTo(c, n) == \A i \in DOMAIN c : \E m \in 1 .. n : c[i].layer = Layers[m]

Ordered(c) ==
  \A i, j \in DOMAIN c : i < j =>
    \E m, n \in 1 .. 5 : m < n /\ c[i].layer = Layers[m] /\ c[j].layer = Layers[n]

InOrder ==
  /\ Ordered(chain)
  /\ pc = "constitution" => UpTo(chain, 0)
  /\ pc \in {"persona", "role", "domain", "load_category"} => UpTo(chain, 1)
  /\ pc = "load_domain" => UpTo(chain, 2)
  /\ pc = "load_role" => UpTo(chain, 3)
  /\ pc = "overrides" => UpTo(chain, 4)

Bound(i) == i < Len(chain) /\ <<chain[i].urn, chain[i + 1].urn>> \in bindings

\* A link is bound to the next one, once that has been loaded.
AtEnd(i, u) == i = Len(chain) /\ chain[i].urn = u /\ u # none

Over == pc \in {"integrity", "rejected"}

Links ==
  \A i \in DOMAIN chain :
    /\ chain[i].layer = "category" /\ ~Over =>
         IF pc = "load_domain" THEN AtEnd(i, categoryUrn) ELSE Bound(i)
    /\ chain[i].layer = "domain" /\ ~Over =>
         IF pc = "load_role" THEN AtEnd(i, domainUrn) ELSE Bound(i)
    /\ chain[i].layer = "role" => <<persona, chain[i].urn>> \in bindings

Justified == pc = "integrity" /\ ~lost => PathBroken

WalkInv == TypeOK /\ PathBound /\ Progress /\ InOrder /\ Links /\ Justified

-----------------------------------------------------------------------------
LEMMA LayersAre ==
  /\ DOMAIN Layers = 1 .. 5
  /\ Layers[1] = "constitution" /\ Layers[2] = "category" /\ Layers[3] = "domain"
  /\ Layers[4] = "role" /\ Layers[5] = "overrides"
  BY DEF Layers

LEMMA LayersUpTo ==
  ASSUME NEW c
  PROVE  /\ UpTo(c, 2) => \A i \in DOMAIN c : c[i].layer \in {"constitution", "category"}
         /\ UpTo(c, 3) =>
              \A i \in DOMAIN c : c[i].layer \in {"constitution", "category", "domain"}
  <1>1. /\ \A m \in 1 .. 2 : m = 1 \/ m = 2
        /\ \A m \in 1 .. 3 : m = 1 \/ m = 2 \/ m = 3
    OBVIOUS
  <1> QED
    BY <1>1, LayersAre DEF UpTo

LEMMA NoEmptyLink == ASSUME NEW layer, NEW u PROVE Link(layer, u, <<>>) = <<>>
  BY DEF Link

LEMMA OneLink ==
  ASSUME NEW layer, NEW u, NEW c
  PROVE  Link(layer, u, <<c>>) = <<[layer |-> layer, urn |-> u, constraints |-> c]>>
  BY DEF Link

LEMMA InitInv == Init => WalkInv
  <1> SUFFICES ASSUME Init PROVE WalkInv
    OBVIOUS
  <1> USE GraphAssumption
  <1>1. PICK g \in Seed : concepts = g.concepts /\ bindings = g.bindings
    BY DEF Init
  <1>2. TypeOK
    <2>1. /\ DOMAIN concepts \subseteq URN
          /\ \A u \in DOMAIN concepts : concepts[u] \in Constraints(u)
          /\ bindings \subseteq (URN \cup {persona}) \X (URN \cup Other)
      BY <1>1
    <2>2. chain \in Seq(ChainLink) /\ edits \in 0 .. MaxEdits
      BY DEF Init
    <2> QED
      BY <2>1, <2>2 DEF Init, TypeOK, Requests
  <1>3. PathBound /\ Progress /\ Justified
    BY DEF Init, PathBound, Progress, Justified
  <1>4. InOrder /\ Links
    <2>1. DOMAIN chain = {}
      BY DEF Init
    <2> QED
      BY <2>1 DEF InOrder, Links, UpTo, Ordered
  <1> QED
    BY <1>2, <1>3, <1>4 DEF WalkInv

-----------------------------------------------------------------------------
(* The other organs: the graph grows.                                      *)

LEMMA EditOK ==
  ASSUME WalkInv, Edit, TypeOK',
         UNCHANGED <<start, pc, roleUrn, domainUrn, categoryUrn, chain, lost>>,
         bindings \subseteq bindings'
  PROVE  WalkInv'
  <1>1. PathBound' /\ Progress'
    BY DEF WalkInv, PathBound, Progress
  <1>2. InOrder'
    BY DEF WalkInv, InOrder
  <1>3. Links'
    BY DEF WalkInv, Links, Bound, AtEnd, Over
  <1>4. Justified'
    BY DEF Edit, Requests, Justified
  <1> QED
    BY <1>1, <1>2, <1>3, <1>4 DEF WalkInv

\* Whatever is written, its values name the concept and the edit.
LEMMA WithType ==
  ASSUME WalkInv, Edit, NEW u \in URN, NEW F \in SUBSET Field,
         concepts' = With(u, [f \in F |-> <<u, edits'>>])
  PROVE  /\ DOMAIN concepts' \subseteq URN
         /\ \A v \in DOMAIN concepts' : concepts'[v] \in Constraints(v)
  <1>1. DOMAIN concepts' = DOMAIN concepts \cup {u}
    BY DEF With
  <1>2. concepts'[u] \in Constraints(u)
    <2>1. edits' \in 0 .. MaxEdits
      BY GraphAssumption DEF WalkInv, TypeOK, Edit
    <2>2. [f \in F |-> <<u, edits'>>] \in [F -> {<<u, n>> : n \in 0 .. MaxEdits}]
      BY <2>1
    <2> QED
      BY <2>2 DEF Constraints, With
  <1>3. \A v \in DOMAIN concepts \ {u} : concepts'[v] = concepts[v]
    BY DEF With
  <1> QED
    BY <1>1, <1>2, <1>3 DEF WalkInv, TypeOK

LEMMA ConceptOK ==
  ASSUME WalkInv, NEW u \in URN, insertConcept(u) \/ updateConcept(u)
  PROVE  WalkInv'
  <1>1. PICK F \in SUBSET Field : concepts' = With(u, [f \in F |-> <<u, edits'>>])
    BY DEF insertConcept, updateConcept
  <1>2. /\ Edit /\ bindings' = bindings
        /\ UNCHANGED <<start, pc, roleUrn, domainUrn, categoryUrn, chain, lost>>
    BY DEF insertConcept, updateConcept
  <1>3. TypeOK'
    <2>1. edits' \in 0 .. MaxEdits
      BY <1>2, GraphAssumption DEF WalkInv, TypeOK, Edit
    <2>2. /\ DOMAIN concepts' \subseteq URN
          /\ \A v \in DOMAIN concepts' : concepts'[v] \in Constraints(v)
      BY <1>1, <1>2, WithType
    <2> QED
      BY <1>2, <2>1, <2>2 DEF WalkInv, TypeOK
  <1> QED
    BY <1>2, <1>3, EditOK

LEMMA BindingOK ==
  ASSUME WalkInv, NEW from \in URN \cup {persona}, NEW to \in URN \cup Other,
         insertBinding(from, to)
  PROVE  WalkInv'
  <1>1. /\ Edit /\ bindings' = bindings \cup {<<from, to>>} /\ concepts' = concepts
        /\ UNCHANGED <<start, pc, roleUrn, domainUrn, categoryUrn, chain, lost>>
    BY DEF insertBinding
  <1>2. TypeOK'
    BY <1>1, GraphAssumption DEF WalkInv, TypeOK, Edit
  <1> QED
    BY <1>1, <1>2, EditOK

-----------------------------------------------------------------------------
(* The queries for bindings.                                               *)

\* Before a statute is loaded the chain has no link but the Constitution's.
LEMMA OnlyConstitution ==
  ASSUME NEW c, UpTo(c, 1)
  PROVE  /\ UpTo(c, 2) /\ UpTo(c, 3) /\ UpTo(c, 4)
         /\ \A i \in DOMAIN c : c[i].layer \notin {"category", "domain", "role"}
  <1>1. \A i \in DOMAIN c : c[i].layer = "constitution"
    BY LayersAre DEF UpTo
  <1>2. 1 \in 1 .. 2 /\ 1 \in 1 .. 3 /\ 1 \in 1 .. 4
    OBVIOUS
  <1> QED
    BY <1>1, <1>2, LayersAre DEF UpTo

\* A query leaves the chain as it is, and what it finds is bound.
LEMMA QueryOK ==
  ASSUME WalkInv, pc \in {"persona", "role", "domain"},
         pc' \in {"role", "domain", "load_category", "load_domain", "load_role", "overrides"},
         UNCHANGED <<graphVars, start, chain>>, lost' \in BOOLEAN,
         roleUrn' \in Role \cup {none}, domainUrn' \in Domain \cup {none},
         categoryUrn' \in Category \cup {none}, PathBound', Progress'
  PROVE  WalkInv'
  <1>1. UpTo(chain, 1) /\ Ordered(chain)
    BY DEF WalkInv, InOrder
  <1>2. TypeOK'
    BY DEF WalkInv, TypeOK, graphVars, Requests
  <1>3. InOrder'
    BY <1>1, OnlyConstitution DEF InOrder
  <1>4. Links'
    BY <1>1, OnlyConstitution DEF Links
  <1> QED
    BY <1>2, <1>3, <1>4 DEF WalkInv, Justified

LEMMA EndpointType ==
  ASSUME NEW ends, NEW Prefix, NEW u \in findBindingEndpoint(ends, Prefix)
  PROVE  u = none \/ u \in ends \cap Prefix
  BY DEF findBindingEndpoint

\* The rows are pairs.
LEMMA EndsAreBound ==
  ASSUME WalkInv, NEW u, NEW v
  PROVE  /\ v \in Targets(u) => <<u, v>> \in bindings
         /\ v \in Sources(u) => <<v, u>> \in bindings
  <1>1. \A b \in bindings : b = <<b[1], b[2]>>
    BY DEF WalkInv, TypeOK
  <1> QED
    BY <1>1 DEF Targets, Sources

LEMMA PersonaOK == ASSUME WalkInv, QueryPersona PROVE WalkInv'
  <1>1. PICK ends \in {Targets(persona), {}} :
          queryBindings(Targets(persona), ends) /\ roleUrn' \in findBindingEndpoint(ends, Role)
    BY DEF QueryPersona
  <1>2. roleUrn' = none \/ (roleUrn' \in Role /\ <<persona, roleUrn'>> \in bindings)
    BY <1>1, EndpointType, EndsAreBound
  <1>3. /\ pc = "persona" /\ pc' = IF roleUrn' = none THEN "overrides" ELSE "role"
        /\ UNCHANGED <<graphVars, start, domainUrn, categoryUrn, chain>>
    BY DEF QueryPersona
  <1>4. lost' \in BOOLEAN
    BY <1>1 DEF queryBindings, Answered, WalkInv, TypeOK
  <1>5. domainUrn' = none /\ categoryUrn' = none /\ bindings' = bindings
    BY <1>3 DEF WalkInv, Progress, graphVars
  <1>6. PathBound'
    BY <1>2, <1>5 DEF PathBound
  <1>7. Progress'
    BY <1>3, <1>5 DEF Progress
  <1> QED
    BY <1>2, <1>3, <1>4, <1>5, <1>6, <1>7, QueryOK

LEMMA RoleOK == ASSUME WalkInv, QueryRole PROVE WalkInv'
  <1>1. PICK ends \in {Sources(roleUrn), {}} :
          queryBindings(Sources(roleUrn), ends) /\ domainUrn' \in findBindingEndpoint(ends, Domain)
    BY DEF QueryRole, ParentsOf
  <1>2. domainUrn' = none \/ (domainUrn' \in Domain /\ <<domainUrn', roleUrn>> \in bindings)
    BY <1>1, EndpointType, EndsAreBound
  <1>3. /\ pc = "role" /\ pc' = IF domainUrn' = none THEN "load_role" ELSE "domain"
        /\ UNCHANGED <<graphVars, start, roleUrn, categoryUrn, chain>>
    BY DEF QueryRole
  <1>4. lost' \in BOOLEAN
    BY <1>1 DEF queryBindings, Answered, WalkInv, TypeOK
  <1>5. /\ roleUrn' = roleUrn /\ roleUrn # none /\ roleUrn \in Role \cup {none}
        /\ <<persona, roleUrn>> \in bindings
        /\ categoryUrn' = none /\ bindings' = bindings
    BY <1>3 DEF WalkInv, TypeOK, Progress, PathBound, graphVars
  <1>6. PathBound'
    BY <1>2, <1>5 DEF PathBound
  <1>7. Progress'
    BY <1>3, <1>5 DEF Progress
  <1> QED
    BY <1>2, <1>3, <1>4, <1>5, <1>6, <1>7, QueryOK

LEMMA DomainOK == ASSUME WalkInv, QueryDomain PROVE WalkInv'
  <1>1. PICK ends \in {Sources(domainUrn), {}} :
          queryBindings(Sources(domainUrn), ends) /\ categoryUrn' \in findBindingEndpoint(ends, Category)
    BY DEF QueryDomain, ParentsOf
  <1>2. categoryUrn' = none \/ (categoryUrn' \in Category /\ <<categoryUrn', domainUrn>> \in bindings)
    BY <1>1, EndpointType, EndsAreBound
  <1>3. /\ pc = "domain" /\ pc' = IF categoryUrn' = none THEN "load_domain" ELSE "load_category"
        /\ UNCHANGED <<graphVars, start, roleUrn, domainUrn, chain>>
    BY DEF QueryDomain
  <1>4. lost' \in BOOLEAN
    BY <1>1 DEF queryBindings, Answered, WalkInv, TypeOK
  <1>5. /\ roleUrn' = roleUrn /\ roleUrn # none /\ roleUrn \in Role \cup {none}
        /\ domainUrn' = domainUrn /\ domainUrn # none /\ domainUrn \in Domain \cup {none}
        /\ <<persona, roleUrn>> \in bindings /\ <<domainUrn, roleUrn>> \in bindings
        /\ bindings' = bindings
    BY <1>3 DEF WalkInv, TypeOK, Progress, PathBound, graphVars
  <1>6. PathBound'
    BY <1>2, <1>5 DEF PathBound
  <1>7. Progress'
    BY <1>3, <1>5 DEF Progress
  <1> QED
    BY <1>2, <1>3, <1>4, <1>5, <1>6, <1>7, QueryOK

-----------------------------------------------------------------------------
(* The requests for concepts.                                              *)

\* A link of a later layer at the end of a chain that is in order.
LEMMA PushOK ==
  ASSUME NEW c \in Seq(ChainLink), NEW l \in ChainLink, NEW k \in 1 .. 5, NEW d,
         l.layer = Layers[k], Ordered(c), UpTo(c, k - 1), d = Append(c, l)
  PROVE  /\ d \in Seq(ChainLink) /\ Ordered(d) /\ UpTo(d, k)
         /\ Len(d) = Len(c) + 1 /\ d[Len(c) + 1] = l
         /\ \A i \in DOMAIN c : d[i] = c[i]
         /\ DOMAIN d = DOMAIN c \cup {Len(c) + 1}
  <1>1. /\ d \in Seq(ChainLink) /\ Len(d) = Len(c) + 1 /\ d[Len(c) + 1] = l
        /\ \A i \in DOMAIN c : d[i] = c[i]
        /\ DOMAIN d = DOMAIN c \cup {Len(c) + 1} /\ Len(c) + 1 \notin DOMAIN c
        /\ Len(c) \in Nat /\ DOMAIN c = 1 .. Len(c)
    OBVIOUS
  <1>2. UpTo(d, k)
    <2> SUFFICES ASSUME NEW i \in DOMAIN d PROVE \E m \in 1 .. k : d[i].layer = Layers[m]
      BY DEF UpTo
    <2>1. CASE i \in DOMAIN c
      <3>1. PICK m \in 1 .. k - 1 : c[i].layer = Layers[m]
        BY <2>1 DEF UpTo
      <3> QED
        BY <1>1, <2>1, <3>1
    <2>2. CASE i = Len(c) + 1
      BY <1>1, <2>2
    <2> QED
      BY <1>1, <2>1, <2>2
  <1>3. Ordered(d)
    <2> SUFFICES ASSUME NEW i \in DOMAIN d, NEW j \in DOMAIN d, i < j
                 PROVE  \E m, n \in 1 .. 5 :
                          m < n /\ d[i].layer = Layers[m] /\ d[j].layer = Layers[n]
      BY DEF Ordered
    <2>1. i \in DOMAIN c
      BY <1>1
    <2>2. CASE j \in DOMAIN c
      BY <1>1, <2>1, <2>2 DEF Ordered
    <2>3. CASE j = Len(c) + 1
      <3>1. PICK m \in 1 .. k - 1 : c[i].layer = Layers[m]
        BY <2>1 DEF UpTo
      <3>2. m \in 1 .. 5 /\ m < k /\ d[i].layer = Layers[m] /\ d[j].layer = Layers[k]
        BY <1>1, <2>1, <2>3, <3>1
      <3> QED
        BY <3>2
    <2> QED
      BY <1>1, <2>2, <2>3
  <1> QED
    BY <1>1, <1>2, <1>3

\* What a request for a concept leaves alone.
SamePath == UNCHANGED <<graphVars, start, roleUrn, domainUrn, categoryUrn>>

LEMMA SamePathOK ==
  ASSUME WalkInv, SamePath
  PROVE  /\ PathBound' /\ bindings' = bindings
         /\ pc' \in {"load_domain", "load_role", "persona", "overrides", "done",
                     "integrity", "rejected"} /\ lost' \in BOOLEAN /\ chain' \in Seq(ChainLink)
              => TypeOK'
  BY DEF WalkInv, SamePath, PathBound, TypeOK, graphVars, Requests

\* The step adds a link for u in the k-th layer, to a chain that is in order.
NewLink(k, u) ==
  /\ chain \in Seq(ChainLink)
  /\ chain' \in Seq(ChainLink) /\ Ordered(chain') /\ UpTo(chain', k)
  /\ Len(chain') = Len(chain) + 1
  /\ chain'[Len(chain')].layer = Layers[k] /\ chain'[Len(chain')].urn = u
  /\ \A i \in DOMAIN chain : chain'[i] = chain[i]

LEMMA LinkOK ==
  ASSUME WalkInv, NEW k \in 1 .. 5, NEW u \in URN, u \in DOMAIN concepts,
         UpTo(chain, k - 1), chain' = Pushed(Link(Layers[k], u, <<concepts[u]>>))
  PROVE  NewLink(k, u)
  <1> DEFINE l == [layer |-> Layers[k], urn |-> u, constraints |-> concepts[u]]
  <1>1. chain' = chain \o <<l>>
    BY OneLink DEF Pushed
  <1>2. concepts[u] \in UNION {Constraints(v) : v \in URN}
    BY DEF WalkInv, TypeOK
  <1>3. l \in ChainLink /\ l.layer = Layers[k] /\ l.urn = u
    BY <1>2, LayersAre DEF ChainLink
  <1>4. chain \in Seq(ChainLink) /\ Ordered(chain)
    BY DEF WalkInv, TypeOK, InOrder
  <1>5. chain' = Append(chain, l)
    BY <1>1, <1>4
  <1> HIDE DEF l
  <1>6. /\ chain' \in Seq(ChainLink) /\ Ordered(chain') /\ UpTo(chain', k)
        /\ Len(chain') = Len(chain) + 1 /\ chain'[Len(chain) + 1] = l
        /\ \A i \in DOMAIN chain : chain'[i] = chain[i]
        /\ DOMAIN chain' = DOMAIN chain \cup {Len(chain) + 1}
    BY <1>3, <1>4, <1>5, PushOK
  <1> QED
    BY <1>3, <1>4, <1>6 DEF NewLink

\* Where the links of the new chain are.
LEMMA NewLinkIndices ==
  ASSUME NEW k, NEW u, NewLink(k, u)
  PROVE  /\ Len(chain) \in Nat /\ Len(chain) < Len(chain')
         /\ \A i \in DOMAIN chain : i \in DOMAIN chain' /\ i < Len(chain')
         /\ \A i \in DOMAIN chain' : i \in DOMAIN chain \/ i = Len(chain')
         /\ \A i \in DOMAIN chain : Bound(i) => Bound(i) /\ i + 1 \in DOMAIN chain
         /\ \A i \in DOMAIN chain : i = Len(chain) => i + 1 = Len(chain')
  BY DEF NewLink, Bound

\* A link that was bound to the next one still is, and the last one is bound to
\* the new one if there is such a binding.
LEMMA BoundOK ==
  ASSUME NEW k, NEW u, NewLink(k, u), bindings' = bindings, NEW i \in DOMAIN chain
  PROVE  /\ Bound(i) => Bound(i)'
         /\ i = Len(chain) /\ <<chain[i].urn, u>> \in bindings => Bound(i)'
  BY NewLinkIndices DEF NewLink, Bound

\* Nothing is lost where an empty answer is the right one.
LEMMA MissingOK ==
  ASSUME WalkInv, SamePath, UNCHANGED chain, pc' = "integrity",
         NEW u \in {roleUrn, domainUrn, categoryUrn}, Answered(Row(u), <<>>),
         \E b \in bindings : u \in {b[1], b[2]}
  PROVE  WalkInv'
  <1>1. lost' \in BOOLEAN /\ (~lost' => u \notin DOMAIN concepts)
    BY DEF Answered, Row, WalkInv, TypeOK
  <1>2. TypeOK' /\ PathBound'
    BY <1>1, SamePathOK DEF WalkInv, TypeOK
  <1>3. Progress' /\ InOrder'
    BY DEF WalkInv, Progress, InOrder
  <1>4. Links'
    BY SamePathOK DEF WalkInv, Links, Over
  <1>5. Justified'
    BY <1>1 DEF Justified, PathBroken, SamePath, graphVars
  <1> QED
    BY <1>2, <1>3, <1>4, <1>5 DEF WalkInv

\* loadOrThrow: the concept is missing, or it is the next link.
LEMMA LoadCases ==
  ASSUME WalkInv, NEW u, NEW layer, NEW at, NEW next, loadOrThrow(u, layer, at, next)
  PROVE  /\ pc = at /\ SamePath
         /\ \/ pc' = "integrity" /\ UNCHANGED chain /\ Answered(Row(u), <<>>)
            \/ /\ pc' = next /\ u \in DOMAIN concepts /\ lost' \in BOOLEAN
               /\ chain' = Pushed(Link(layer, u, <<concepts[u]>>))
  <1>1. PICK row \in {Row(u), <<>>} :
          /\ queryConcept(u, row)
          /\ IF IsMissing(row)
             THEN pc' = "integrity" /\ UNCHANGED chain
             ELSE pc' = next /\ chain' = Pushed(Link(layer, u, row))
    BY DEF loadOrThrow
  <1>2. pc = at /\ SamePath
    BY DEF loadOrThrow, SamePath
  <1>3. CASE row = <<>>
    BY <1>1, <1>2, <1>3 DEF IsMissing, queryConcept
  <1>4. CASE row # <<>>
    <2>1. row = Row(u) /\ u \in DOMAIN concepts /\ row = <<concepts[u]>>
      BY <1>4 DEF Row
    <2>2. lost' \in BOOLEAN
      BY <1>1 DEF queryConcept, Answered, WalkInv, TypeOK
    <2> QED
      BY <1>1, <1>2, <1>4, <2>1, <2>2 DEF IsMissing
  <1> QED
    BY <1>3, <1>4

LEMMA LinkLayers ==
  /\ 2 \in 2 .. 4 /\ 3 \in 2 .. 4 /\ 4 \in 2 .. 4
  /\ 2 - 1 = 1 /\ 3 - 1 = 2 /\ 4 - 1 = 3
  /\ \A u : u \in Statute => u \in URN
  BY DEF URN

LEMMA CategoryOK ==
  ASSUME WalkInv, SamePath, pc = "load_category", pc' = "load_domain",
         lost' \in BOOLEAN, NewLink(2, categoryUrn)
  PROVE  WalkInv'
  <1>1. /\ UpTo(chain, 1) /\ roleUrn # none /\ domainUrn # none /\ categoryUrn # none
    BY DEF WalkInv, InOrder, Progress
  <1>2. TypeOK' /\ PathBound'
    BY SamePathOK DEF NewLink
  <1>3. Progress' /\ InOrder'
    BY <1>1 DEF NewLink, Progress, InOrder, SamePath
  <1>4. Links'
    <2>1. \A i \in DOMAIN chain : chain[i].layer \notin {"category", "domain", "role"}
      BY <1>1, OnlyConstitution
    <2>2. \A i \in DOMAIN chain' : i \in DOMAIN chain \/ i = Len(chain')
      BY NewLinkIndices
    <2> QED
      BY <1>1, <2>1, <2>2, LayersAre DEF NewLink, Links, AtEnd, SamePath
  <1> QED
    BY <1>2, <1>3, <1>4 DEF WalkInv, Justified

LEMMA LoadDomainOK ==
  ASSUME WalkInv, SamePath, pc = "load_domain", pc' = "load_role",
         lost' \in BOOLEAN, NewLink(3, domainUrn)
  PROVE  WalkInv'
  <1>1. UpTo(chain, 2) /\ roleUrn # none /\ domainUrn # none
    BY DEF WalkInv, InOrder, Progress
  <1>2. TypeOK' /\ PathBound' /\ bindings' = bindings
    BY SamePathOK DEF NewLink
  <1>3. Progress' /\ InOrder'
    BY <1>1 DEF NewLink, Progress, InOrder, SamePath
  <1>4. \A i \in DOMAIN chain : chain[i].layer \notin {"domain", "role"}
    BY <1>1, LayersUpTo
  <1>5. \A i \in DOMAIN chain : chain[i].layer = "category" => Bound(i)'
    <2> SUFFICES ASSUME NEW i \in DOMAIN chain, chain[i].layer = "category" PROVE Bound(i)'
      OBVIOUS
    <2>1. i = Len(chain) /\ chain[i].urn = categoryUrn /\ categoryUrn # none
      BY DEF WalkInv, Links, Over, AtEnd
    <2>2. <<chain[i].urn, domainUrn>> \in bindings
      BY <2>1 DEF WalkInv, PathBound
    <2> QED
      BY <1>2, <2>1, <2>2, BoundOK
  <1>6. Links'
    <2>1. \A i \in DOMAIN chain' : i \in DOMAIN chain \/ i = Len(chain')
      BY NewLinkIndices
    <2> QED
      BY <1>1, <1>4, <1>5, <2>1, LayersAre DEF NewLink, Links, AtEnd, SamePath
  <1> QED
    BY <1>2, <1>3, <1>6 DEF WalkInv, Justified

LEMMA LoadRoleOK ==
  ASSUME WalkInv, SamePath, pc = "load_role", pc' = "overrides",
         lost' \in BOOLEAN, NewLink(4, roleUrn)
  PROVE  WalkInv'
  <1>1. UpTo(chain, 3) /\ roleUrn # none /\ <<persona, roleUrn>> \in bindings
    BY DEF WalkInv, InOrder, Progress, PathBound
  <1>2. TypeOK' /\ PathBound' /\ bindings' = bindings
    BY SamePathOK DEF NewLink
  <1>3. Progress' /\ InOrder'
    BY <1>1 DEF NewLink, Progress, InOrder, SamePath
  <1>4. \A i \in DOMAIN chain : chain[i].layer # "role"
    BY <1>1, LayersUpTo
  <1>5. \A i \in DOMAIN chain : chain[i].layer = "category" => Bound(i)'
    <2> SUFFICES ASSUME NEW i \in DOMAIN chain, chain[i].layer = "category" PROVE Bound(i)'
      OBVIOUS
    <2>1. Bound(i)
      BY DEF WalkInv, Links, Over
    <2> QED
      BY <1>2, <2>1, BoundOK
  <1>6. \A i \in DOMAIN chain : chain[i].layer = "domain" => Bound(i)'
    <2> SUFFICES ASSUME NEW i \in DOMAIN chain, chain[i].layer = "domain" PROVE Bound(i)'
      OBVIOUS
    <2>1. i = Len(chain) /\ chain[i].urn = domainUrn /\ domainUrn # none
      BY DEF WalkInv, Links, Over, AtEnd
    <2>2. <<chain[i].urn, roleUrn>> \in bindings
      BY <2>1 DEF WalkInv, PathBound
    <2> QED
      BY <1>2, <2>1, <2>2, BoundOK
  <1>7. Links'
    <2>1. \A i \in DOMAIN chain' : i \in DOMAIN chain \/ i = Len(chain')
      BY NewLinkIndices
    <2> QED
      BY <1>1, <1>2, <1>4, <1>5, <1>6, <2>1, LayersAre DEF NewLink, Links
  <1> QED
    BY <1>2, <1>3, <1>7 DEF WalkInv, Justified

\* ReadIfPresent: the concept is not there, or it is the next link.
LEMMA ReadCases ==
  ASSUME WalkInv, NEW u, NEW at, NEW next, ReadIfPresent(u, at, next)
  PROVE  /\ pc = at /\ pc' = next /\ SamePath /\ lost' \in BOOLEAN
         /\ \/ chain' = chain
            \/ u \in DOMAIN concepts /\ chain' = Pushed(Link(u, u, <<concepts[u]>>))
  <1>1. PICK row \in {Row(u), <<>>} : queryConcept(u, row) /\ chain' = Pushed(Link(u, u, row))
    BY DEF ReadIfPresent
  <1>2. pc = at /\ pc' = next /\ SamePath
    BY DEF ReadIfPresent, SamePath
  <1>3. lost' \in BOOLEAN
    BY <1>1 DEF queryConcept, Answered, WalkInv, TypeOK
  <1>4. CASE row = <<>>
    <2>1. chain' = chain \o <<>> /\ chain \in Seq(ChainLink)
      BY <1>1, <1>4, NoEmptyLink DEF Pushed, WalkInv, TypeOK
    <2> QED
      BY <1>2, <1>3, <2>1
  <1>5. CASE row # <<>>
    <2>1. u \in DOMAIN concepts /\ row = <<concepts[u]>>
      BY <1>5 DEF Row
    <2> QED
      BY <1>1, <1>2, <1>3, <2>1
  <1> QED
    BY <1>4, <1>5

LEMMA NoLayer == ASSUME NEW c, UpTo(c, 0) PROVE DOMAIN c = {}
  <1>1. \A m : m \notin 1 .. 0
    OBVIOUS
  <1> QED
    BY <1>1, Zenon DEF UpTo

LEMMA ConstitutionOK ==
  ASSUME WalkInv, SamePath, pc = "constitution", pc' = "persona", lost' \in BOOLEAN,
         chain' = chain \/ NewLink(1, Layers[1])
  PROVE  WalkInv'
  <1>1. /\ roleUrn = none /\ domainUrn = none /\ categoryUrn = none
        /\ chain \in Seq(ChainLink) /\ Ordered(chain) /\ DOMAIN chain = {}
    <2>1. UpTo(chain, 0)
      BY DEF WalkInv, InOrder
    <2>2. DOMAIN chain = {}
      BY <2>1, NoLayer
    <2> QED
      BY <2>2 DEF WalkInv, InOrder, Progress, TypeOK
  <1>2. /\ chain' \in Seq(ChainLink) /\ Ordered(chain') /\ UpTo(chain', 1)
        /\ \A i \in DOMAIN chain' : chain'[i].layer = "constitution"
    <2>1. CASE chain' = chain
      BY <1>1, <2>1 DEF UpTo
    <2>2. CASE NewLink(1, Layers[1])
      BY <1>1, <2>2, NewLinkIndices, LayersAre DEF NewLink
    <2> QED
      BY <2>1, <2>2
  <1>3. TypeOK' /\ PathBound'
    BY <1>2, SamePathOK
  <1>4. Progress' /\ InOrder'
    BY <1>1, <1>2 DEF Progress, InOrder, SamePath
  <1>5. Links'
    BY <1>2 DEF Links
  <1> QED
    BY <1>3, <1>4, <1>5 DEF WalkInv, Justified

LEMMA OverridesOK ==
  ASSUME WalkInv, SamePath, pc = "overrides", pc' = "done", lost' \in BOOLEAN,
         chain' = chain \/ NewLink(5, Layers[5])
  PROVE  WalkInv'
  <1>1. bindings' = bindings /\ Ordered(chain) /\ chain \in Seq(ChainLink)
    BY SamePathOK DEF WalkInv, InOrder, TypeOK
  <1>2. chain' \in Seq(ChainLink) /\ Ordered(chain')
    BY <1>1 DEF NewLink
  <1>3. \A i \in DOMAIN chain :
          /\ chain[i].layer \in {"category", "domain"} => Bound(i)
          /\ chain[i].layer = "role" => <<persona, chain[i].urn>> \in bindings
    BY DEF WalkInv, Links, Over
  <1>4. TypeOK' /\ PathBound'
    BY <1>2, SamePathOK
  <1>5. Progress' /\ InOrder'
    BY <1>2 DEF Progress, InOrder
  <1>6. Links'
    <2>1. CASE chain' = chain
      BY <1>1, <1>3, <2>1 DEF Links, Bound
    <2>2. CASE NewLink(5, Layers[5])
      <3>1. \A i \in DOMAIN chain' : i \in DOMAIN chain \/ i = Len(chain')
        BY <2>2, NewLinkIndices
      <3>2. \A i \in DOMAIN chain : chain[i].layer \in {"category", "domain"} => Bound(i)'
        BY <1>1, <1>3, <2>2, BoundOK
      <3> QED
        BY <1>1, <1>3, <2>2, <3>1, <3>2, LayersAre DEF NewLink, Links
    <2> QED
      BY <2>1, <2>2
  <1> QED
    BY <1>4, <1>5, <1>6 DEF WalkInv, Justified

LEMMA RejectedOK == ASSUME WalkInv, RequestFails PROVE WalkInv'
  <1>1. SamePath /\ pc' = "rejected" /\ UNCHANGED <<chain, lost>>
    BY DEF RequestFails, SamePath
  <1>2. TypeOK' /\ PathBound' /\ bindings' = bindings
    BY <1>1, SamePathOK DEF WalkInv, TypeOK
  <1>3. Progress' /\ InOrder'
    BY <1>1 DEF WalkInv, Progress, InOrder
  <1>4. Links'
    BY <1>1, <1>2 DEF WalkInv, Links, Over
  <1> QED
    BY <1>1, <1>2, <1>3, <1>4 DEF WalkInv, Justified

-----------------------------------------------------------------------------
(* Every step.                                                             *)

LEMMA LoadOK ==
  ASSUME WalkInv, NEW u, NEW layer, NEW at, NEW next, NEW k \in 2 .. 4,
         layer = Layers[k], loadOrThrow(u, layer, at, next),
         u \in {roleUrn, domainUrn, categoryUrn} \cap Statute, UpTo(chain, k - 1),
         \E b \in bindings : u \in {b[1], b[2]}
  PROVE  \/ WalkInv'
         \/ SamePath /\ pc' = next /\ lost' \in BOOLEAN /\ NewLink(k, u)
  <1>1. /\ pc = at /\ SamePath
        /\ \/ pc' = "integrity" /\ UNCHANGED chain /\ Answered(Row(u), <<>>)
           \/ /\ pc' = next /\ u \in DOMAIN concepts /\ lost' \in BOOLEAN
              /\ chain' = Pushed(Link(layer, u, <<concepts[u]>>))
    BY LoadCases
  <1>2. k \in 1 .. 5 /\ u \in URN
    BY LinkLayers
  <1>3. CASE pc' = "integrity" /\ UNCHANGED chain /\ Answered(Row(u), <<>>)
    BY <1>1, <1>3, MissingOK
  <1>4. CASE /\ pc' = next /\ u \in DOMAIN concepts /\ lost' \in BOOLEAN
             /\ chain' = Pushed(Link(Layers[k], u, <<concepts[u]>>))
    BY <1>1, <1>2, <1>4, LinkOK
  <1> QED
    BY <1>1, <1>3, <1>4

LEMMA ReadOK ==
  ASSUME WalkInv, NEW u, NEW at, NEW next, NEW k \in {1, 5},
         u = Layers[k], ReadIfPresent(u, at, next), UpTo(chain, k - 1)
  PROVE  /\ pc = at /\ pc' = next /\ SamePath /\ lost' \in BOOLEAN
         /\ chain' = chain \/ NewLink(k, Layers[k])
  <1>1. k \in 1 .. 5 /\ u \in URN
    BY LayersAre DEF URN
  <1> QED
    BY <1>1, ReadCases, LinkOK

LEMMA ReadFirst ==
  ASSUME WalkInv, NEW u, u = "constitution", NEW next, next = "persona",
         ReadIfPresent(u, u, next)
  PROVE  WalkInv'
  <1>1. pc = "constitution" /\ UpTo(chain, 1 - 1) /\ u = Layers[1]
    BY LayersAre DEF ReadIfPresent, WalkInv, InOrder
  <1> QED
    BY <1>1, ReadOK, ConstitutionOK

LEMMA ReadLast ==
  ASSUME WalkInv, NEW u, u = "overrides", NEW next, next = "done",
         ReadIfPresent(u, u, next)
  PROVE  WalkInv'
  <1>1. pc = "overrides" /\ UpTo(chain, 5 - 1) /\ u = Layers[5]
    BY LayersAre DEF ReadIfPresent, WalkInv, InOrder
  <1> QED
    BY <1>1, ReadOK, OverridesOK

\* The chain when each statute is loaded.
LEMMA Loading ==
  ASSUME WalkInv
  PROVE  /\ pc = "load_category" => UpTo(chain, 2 - 1)
         /\ pc = "load_domain" => UpTo(chain, 3 - 1)
         /\ pc = "load_role" => UpTo(chain, 4 - 1)
  BY LinkLayers, Zenon DEF WalkInv, InOrder

LEMMA LoadFirst ==
  ASSUME WalkInv, NEW layer, layer = Layers[2], NEW at, at = "load_category",
         NEW next, next = "load_domain", loadOrThrow(categoryUrn, layer, at, next)
  PROVE  WalkInv'
  <1>1. pc = at
    BY DEF loadOrThrow
  <1>2. pc = "load_category" /\ UpTo(chain, 2 - 1)
    BY <1>1, Loading
  <1>3. categoryUrn \in Statute /\ <<categoryUrn, domainUrn>> \in bindings
    BY <1>2 DEF WalkInv, Progress, PathBound, TypeOK, Statute
  <1>4. \E b \in bindings : categoryUrn \in {b[1], b[2]}
    BY <1>3
  <1>5. WalkInv' \/ (SamePath /\ pc' = next /\ lost' \in BOOLEAN /\ NewLink(2, categoryUrn))
    BY <1>2, <1>3, <1>4, LoadOK, LinkLayers, Zenon
  <1> QED
    BY <1>2, <1>5, CategoryOK

LEMMA LoadSecond ==
  ASSUME WalkInv, NEW layer, layer = Layers[3], NEW at, at = "load_domain",
         NEW next, next = "load_role", loadOrThrow(domainUrn, layer, at, next)
  PROVE  WalkInv'
  <1>1. pc = at
    BY DEF loadOrThrow
  <1>2. pc = "load_domain" /\ UpTo(chain, 3 - 1)
    BY <1>1, Loading
  <1>3. domainUrn \in Statute /\ <<domainUrn, roleUrn>> \in bindings
    BY <1>2 DEF WalkInv, Progress, PathBound, TypeOK, Statute
  <1>4. \E b \in bindings : domainUrn \in {b[1], b[2]}
    BY <1>3
  <1>5. WalkInv' \/ (SamePath /\ pc' = next /\ lost' \in BOOLEAN /\ NewLink(3, domainUrn))
    BY <1>2, <1>3, <1>4, LoadOK, LinkLayers, Zenon
  <1> QED
    BY <1>2, <1>5, LoadDomainOK

LEMMA LoadThird ==
  ASSUME WalkInv, NEW layer, layer = Layers[4], NEW at, at = "load_role",
         NEW next, next = "overrides", loadOrThrow(roleUrn, layer, at, next)
  PROVE  WalkInv'
  <1>1. pc = at
    BY DEF loadOrThrow
  <1>2. pc = "load_role" /\ UpTo(chain, 4 - 1)
    BY <1>1, Loading
  <1>3. roleUrn \in Statute /\ <<persona, roleUrn>> \in bindings
    BY <1>2 DEF WalkInv, Progress, PathBound, TypeOK, Statute
  <1>4. \E b \in bindings : roleUrn \in {b[1], b[2]}
    BY <1>3
  <1>5. WalkInv' \/ (SamePath /\ pc' = next /\ lost' \in BOOLEAN /\ NewLink(4, roleUrn))
    BY <1>2, <1>3, <1>4, LoadOK, LinkLayers, Zenon
  <1> QED
    BY <1>2, <1>5, LoadRoleOK

LEMMA WalkOK == ASSUME WalkInv, Walk PROVE WalkInv'
  <1>1. CASE ReadIfPresent("constitution", "constitution", "persona")
    BY <1>1, ReadFirst, Zenon
  <1>2. CASE ReadIfPresent("overrides", "overrides", "done")
    BY <1>2, ReadLast, Zenon
  <1>3. CASE loadOrThrow(categoryUrn, "category", "load_category", "load_domain")
    BY <1>3, LoadFirst, LayersAre, Zenon
  <1>4. CASE loadOrThrow(domainUrn, "domain", "load_domain", "load_role")
    BY <1>4, LoadSecond, LayersAre, Zenon
  <1>5. CASE loadOrThrow(roleUrn, "role", "load_role", "overrides")
    BY <1>5, LoadThird, LayersAre, Zenon
  <1>6. CASE QueryPersona \/ QueryRole \/ QueryDomain \/ RequestFails
    BY <1>6, PersonaOK, RoleOK, DomainOK, RejectedOK, Zenon
  <1> QED
    BY <1>1, <1>2, <1>3, <1>4, <1>5, <1>6, Zenon DEF Walk

LEMMA StepOK == WalkInv /\ [Next]_vars => WalkInv'
  <1> SUFFICES ASSUME WalkInv, [Next]_vars PROVE WalkInv'
    OBVIOUS
  <1>1. CASE Walk
    BY <1>1, WalkOK
  <1>2. ASSUME NEW u \in URN, insertConcept(u) \/ updateConcept(u) PROVE WalkInv'
    BY <1>2, ConceptOK
  <1>3. ASSUME NEW r \in Role \cup Other, insertBinding(persona, r) PROVE WalkInv'
    <2>1. r \in URN \cup Other /\ persona \in URN \cup {persona}
      BY DEF URN, Statute
    <2> QED
      BY <1>3, <2>1, BindingOK
  <1>4. ASSUME NEW d \in Domain, NEW r \in Role, insertBinding(d, r) PROVE WalkInv'
    <2>1. r \in URN \cup Other /\ d \in URN \cup {persona}
      BY DEF URN, Statute
    <2> QED
      BY <1>4, <2>1, BindingOK
  <1>5. ASSUME NEW c \in Category, NEW d \in Domain, insertBinding(c, d) PROVE WalkInv'
    <2>1. d \in URN \cup Other /\ c \in URN \cup {persona}
      BY DEF URN, Statute
    <2> QED
      BY <1>5, <2>1, BindingOK
  <1>6. CASE UNCHANGED vars
    <2>1. UNCHANGED <<concepts, bindings, edits, start, pc, roleUrn, domainUrn,
                      categoryUrn, chain, lost>>
      BY <1>6 DEF vars, graphVars
    <2>2. TypeOK' /\ PathBound' /\ Progress' /\ InOrder'
      BY <2>1 DEF WalkInv, TypeOK, PathBound, Progress, InOrder
    <2>3. Links' /\ Justified'
      BY <2>1 DEF WalkInv, Links, Bound, AtEnd, Over, Justified, PathBroken
    <2> QED
      BY <2>2, <2>3 DEF WalkInv
  <1> QED
    BY <1>1, <1>2, <1>3, <1>4, <1>5, <1>6 DEF Next

LEMMA Invariance == Spec => []WalkInv
  BY InitInv, StepOK, PTL DEF Spec

\* The variables of the walk have their types: what is read in the graph
\* has the shape the merge relies on (walkCascadeChain, statute-cascade.js:96).
THEOREM Typing == Spec => []TypeOK
  <1>1. WalkInv => TypeOK
    BY DEF WalkInv
  <1> QED
    BY <1>1, Invariance, PTL

LEMMA ConnectedAtEnd == ASSUME WalkInv, pc = "done" PROVE Connected
  <1>1. Ordered(chain) /\ DOMAIN Layers = 1 .. 5
    BY LayersAre DEF WalkInv, InOrder
  <1>2. \A i \in DOMAIN chain :
          /\ chain[i].layer \in {"category", "domain"} => Bound(i)
          /\ chain[i].layer = "role" => <<persona, chain[i].urn>> \in bindings
    BY DEF WalkInv, Links, Over
  <1> QED
    BY <1>1, <1>2 DEF Connected, Ordered, Bound

\* However many edits come between the requests and however many answers are
\* lost, a chain that is returned is in order and each of its statutes is bound
\* to the next, and GraphIntegrityError is thrown (loadOrThrow,
\* statute-cascade.js:80) only if the path is broken or an answer was lost.
THEOREM Justification == Spec => []OutcomeJustified
  <1>1. WalkInv => OutcomeJustified
    BY ConnectedAtEnd DEF OutcomeJustified, WalkInv, Justified
  <1> QED
    BY <1>1, Invariance, PTL

-----------------------------------------------------------------------------
(* One edit: the walk sees the graph before it or the graph after it.      *)
(* What it has seen so far is stated of a record of its variables, since   *)
(* both graphs and two moments of the walk are compared.                   *)

Walker ==
  [pc |-> pc, role |-> roleUrn, domain |-> domainUrn, category |-> categoryUrn,
   chain |-> chain]

AskedDomain(w) ==
  w.pc \in {"load_category", "load_domain", "load_role", "overrides", "done"}
AskedRole(w) == w.pc = "domain" \/ AskedDomain(w)
AskedPersona(w) == w.pc = "role" \/ AskedRole(w)
LoadedRole(w) == w.pc \in {"overrides", "done"}
LoadedDomain(w) == w.pc = "load_role" \/ LoadedRole(w)
LoadedCategory(w) == w.pc = "load_domain" \/ LoadedDomain(w)

\* The answers of the graph g.
RowIn(g, u) == IF u \in DOMAIN g.concepts THEN <<g.concepts[u]>> ELSE <<>>
FromPersona(g) == {b[2] : b \in {e \in g.bindings : e[1] = persona}}
Into(g, u) == {b[1] : b \in {e \in g.bindings : e[2] = u}} \cap Statute

\* The concepts read, and the statutes whose parent was asked for.
Read(w) ==
  {u \in {"constitution"} : w.pc # "constitution"}
    \cup {u \in {w.category} : LoadedCategory(w)} \cup {u \in {w.domain} : LoadedDomain(w)}
    \cup {u \in {w.role} : LoadedRole(w)} \cup {u \in {"overrides"} : w.pc = "done"}

Followed(w) ==
  {u \in {w.role} : AskedRole(w)} \cup {u \in {w.domain} : AskedDomain(w)}

\* g and h give the same answers to all that the walk has not asked yet.
SameToCome(g, h, w) ==
  /\ \A u : u \notin Read(w) => RowIn(g, u) = RowIn(h, u)
  /\ ~AskedPersona(w) => FromPersona(g) = FromPersona(h)
  /\ \A u : u \notin Followed(w) => Into(g, u) = Into(h, u)

\* They give the same ones to all that it has asked.
SameSoFar(g, h, w) ==
  /\ \A u \in Read(w) : RowIn(g, u) = RowIn(h, u)
  /\ AskedPersona(w) => FromPersona(g) = FromPersona(h)
  /\ \A u \in Followed(w) : Into(g, u) = Into(h, u)

\* The chain of the answers that g gives.
Part(g, layer, u, read) == IF read THEN Link(layer, u, RowIn(g, u)) ELSE <<>>

ChainSoFar(g, w) ==
  Part(g, "constitution", "constitution", w.pc # "constitution")
    \o Part(g, "category", w.category, LoadedCategory(w))
    \o Part(g, "domain", w.domain, LoadedDomain(w))
    \o Part(g, "role", w.role, LoadedRole(w))
    \o Part(g, "overrides", "overrides", w.pc = "done")

\* There is a concept u, if the walk has found u at all.
There(g, u) == u = none \/ RowIn(g, u) # <<>>

\* Every answer so far was what g says.
Seen(g, w) ==
  /\ w.role \in IF AskedPersona(w) THEN findBindingEndpoint(FromPersona(g), Role) ELSE {none}
  /\ w.domain \in IF AskedRole(w) THEN findBindingEndpoint(Into(g, w.role), Domain) ELSE {none}
  /\ w.category \in
       IF AskedDomain(w) THEN findBindingEndpoint(Into(g, w.domain), Category) ELSE {none}
  /\ LoadedCategory(w) => There(g, w.category)
  /\ LoadedDomain(w) => There(g, w.domain)
  /\ LoadedRole(w) => There(g, w.role)
  /\ w.chain = ChainSoFar(g, w)

GraphType(g) ==
  DOMAIN g.concepts \subseteq URN /\ g.bindings \subseteq (URN \cup {persona}) \X (URN \cup Other)

\* The walk agrees with g so far, and can go on doing so while the graph is h; an
\* integrity error is one of g.
IsOf(g, h, w) ==
  /\ w.pc \in Requests \cup {"done"} => Seen(g, w) /\ SameToCome(g, h, w)
  /\ w.pc = "integrity" => \E p \in Paths(g) : Dangling(g, p)

MomentInv ==
  /\ GraphType(start) /\ GraphType(Graph)
  /\ edits = 0 => start = Graph
  /\ edits <= 1 /\ ~lost => \E g \in {start, Graph} : IsOf(g, Graph, Walker)

\* What is not found has no concept and no parents.
LEMMA NoLink ==
  ASSUME NEW g, GraphType(g)
  PROVE  RowIn(g, none) = <<>> /\ Into(g, none) = {}
  <1>1. none \notin URN \cup Other
    BY GraphAssumption DEF URN, none
  <1>2. none \notin DOMAIN g.concepts
    BY <1>1 DEF GraphType
  <1>3. \A e \in g.bindings : e[2] # none
    BY <1>1 DEF GraphType
  <1> QED
    BY <1>2, <1>3 DEF RowIn, Into

\* An edit of what has not been asked for changes nothing the walk has seen.
LEMMA UnreadSeen ==
  ASSUME NEW g, NEW h, NEW w, w.pc \in Requests, SameSoFar(g, h, w), Seen(g, w)
  PROVE  Seen(h, w)
  <1>1. /\ AskedRole(w) => Into(g, w.role) = Into(h, w.role)
        /\ AskedDomain(w) => Into(g, w.domain) = Into(h, w.domain)
        /\ w.pc # "constitution" => RowIn(g, "constitution") = RowIn(h, "constitution")
        /\ LoadedCategory(w) => RowIn(g, w.category) = RowIn(h, w.category)
        /\ LoadedDomain(w) => RowIn(g, w.domain) = RowIn(h, w.domain)
        /\ LoadedRole(w) => RowIn(g, w.role) = RowIn(h, w.role)
        /\ w.pc = "done" => RowIn(g, "overrides") = RowIn(h, "overrides")
    BY DEF SameSoFar, Read, Followed
  <1>2. ChainSoFar(g, w) = ChainSoFar(h, w)
    <2>1. /\ Part(g, "constitution", "constitution", w.pc # "constitution")
               = Part(h, "constitution", "constitution", w.pc # "constitution")
          /\ Part(g, "overrides", "overrides", w.pc = "done")
               = Part(h, "overrides", "overrides", w.pc = "done")
      BY <1>1 DEF Part
    <2>2. /\ Part(g, "category", w.category, LoadedCategory(w))
               = Part(h, "category", w.category, LoadedCategory(w))
          /\ Part(g, "domain", w.domain, LoadedDomain(w))
               = Part(h, "domain", w.domain, LoadedDomain(w))
          /\ Part(g, "role", w.role, LoadedRole(w)) = Part(h, "role", w.role, LoadedRole(w))
      BY <1>1 DEF Part
    <2> QED
      BY <2>1, <2>2, Zenon DEF ChainSoFar
  <1>3. AskedPersona(w) => FromPersona(g) = FromPersona(h)
    BY DEF SameSoFar
  <1> QED
    BY <1>1, <1>2, <1>3 DEF Seen, There

\* h is g after one edit, which changes one answer: a concept, the bindings of
\* the persona, or the parents of one statute.
OneDiffers(g, h) ==
  \/ \E u : /\ \A v : v # u => RowIn(g, v) = RowIn(h, v)
            /\ FromPersona(g) = FromPersona(h) /\ \A v : Into(g, v) = Into(h, v)
  \/ (\A v : RowIn(g, v) = RowIn(h, v)) /\ \A v : Into(g, v) = Into(h, v)
  \/ \E u : /\ \A v : RowIn(g, v) = RowIn(h, v)
            /\ FromPersona(g) = FromPersona(h)
            /\ \A v : v # u => Into(g, v) = Into(h, v)

\* The walk has asked for it, or it has not.
LEMMA OneChange ==
  ASSUME NEW g, NEW h, NEW w, OneDiffers(g, h)
  PROVE  SameToCome(g, h, w) \/ SameSoFar(g, h, w)
  BY DEF OneDiffers, SameToCome, SameSoFar

\* A part of the chain, once read and before.
LEMMA PartType ==
  ASSUME NEW g, NEW l, NEW u, NEW r, NEW S,
         [layer |-> l, urn |-> u, constraints |-> g.concepts[u]] \in S
  PROVE  /\ Part(g, l, u, TRUE) = Link(l, u, RowIn(g, u)) /\ Part(g, l, u, FALSE) = <<>>
         /\ Part(g, l, u, r) \in Seq(S)
  <1>1. Link(l, u, RowIn(g, u)) \in Seq(S)
    <2>1. CASE u \in DOMAIN g.concepts
      <3>1. Link(l, u, RowIn(g, u)) = <<[layer |-> l, urn |-> u, constraints |-> g.concepts[u]]>>
        BY <2>1, OneLink, Zenon DEF RowIn
      <3> QED
        BY <3>1
    <2>2. CASE u \notin DOMAIN g.concepts
      <3>1. Link(l, u, RowIn(g, u)) = <<>>
        BY <2>2, NoEmptyLink, Zenon DEF RowIn
      <3> QED
        BY <3>1
    <2> QED
      BY <2>1, <2>2
  <1> QED
    BY <1>1 DEF Part

\* Parts that have not been read add nothing.
LEMMA Neutral ==
  ASSUME NEW S, NEW a \in Seq(S), NEW b \in Seq(S), NEW c \in Seq(S), NEW d \in Seq(S)
  PROVE  /\ <<>> \o <<>> \o <<>> \o <<>> \o <<>> = <<>>
         /\ <<>> \o a = a /\ a \o <<>> = a
         /\ a \o <<>> \o <<>> \o <<>> \o <<>> = a
         /\ a \o b \o <<>> \o <<>> \o <<>> = a \o b
         /\ a \o b \o c \o <<>> \o <<>> = a \o b \o c
         /\ a \o b \o c \o d \o <<>> = a \o b \o c \o d
  <1>1. ASSUME NEW e \in Seq(S) PROVE e \o <<>> = e /\ <<>> \o e = e
    OBVIOUS
  <1>2. a \o b \in Seq(S) /\ a \o b \o c \in Seq(S) /\ a \o b \o c \o d \in Seq(S)
    OBVIOUS
  <1>3. <<>> \in Seq(S)
    OBVIOUS
  <1> QED
    BY <1>1, <1>2, <1>3, Zenon

\* The link that g gives for u.
LinkOf(g, layer, u) == Link(layer, u, RowIn(g, u))

\* The chain at each request.
LEMMA ChainIs ==
  ASSUME NEW g, NEW w
  PROVE  LET a == LinkOf(g, "constitution", "constitution")
             b == LinkOf(g, "category", w.category)
             c == LinkOf(g, "domain", w.domain)
             d == LinkOf(g, "role", w.role)
             e == LinkOf(g, "overrides", "overrides")
         IN /\ w.pc = "constitution" => ChainSoFar(g, w) = <<>>
            /\ w.pc \in {"persona", "role", "domain", "load_category"} => ChainSoFar(g, w) = a
            /\ w.pc = "load_domain" => ChainSoFar(g, w) = a \o b
            /\ w.pc = "load_role" => ChainSoFar(g, w) = a \o b \o c
            /\ w.pc = "overrides" => ChainSoFar(g, w) = a \o b \o c \o d
            /\ w.pc = "done" => ChainSoFar(g, w) = a \o b \o c \o d \o e
  <1> DEFINE a == LinkOf(g, "constitution", "constitution")
             b == LinkOf(g, "category", w.category)
             c == LinkOf(g, "domain", w.domain)
             d == LinkOf(g, "role", w.role)
             e == LinkOf(g, "overrides", "overrides")
             rec(l, u) == [layer |-> l, urn |-> u, constraints |-> g.concepts[u]]
             S == {rec("constitution", "constitution"), rec("category", w.category),
                   rec("domain", w.domain), rec("role", w.role), rec("overrides", "overrides")}
  <1>1. /\ a \in Seq(S) /\ b \in Seq(S) /\ c \in Seq(S) /\ d \in Seq(S)
        /\ Part(g, "constitution", "constitution", TRUE) = a
        /\ Part(g, "category", w.category, TRUE) = b
        /\ Part(g, "domain", w.domain, TRUE) = c /\ Part(g, "role", w.role, TRUE) = d
        /\ Part(g, "overrides", "overrides", TRUE) = e
    <2>1. /\ rec("constitution", "constitution") \in S /\ rec("category", w.category) \in S
          /\ rec("domain", w.domain) \in S /\ rec("role", w.role) \in S
      OBVIOUS
    <2> HIDE DEF S
    <2>2. \A l, u : rec(l, u) \in S =>
             Part(g, l, u, TRUE) = LinkOf(g, l, u) /\ Part(g, l, u, TRUE) \in Seq(S)
      BY PartType DEF LinkOf
    <2>3. \A l, u : Part(g, l, u, TRUE) = LinkOf(g, l, u)
      BY DEF Part, LinkOf
    <2> QED
      BY <2>1, <2>2, <2>3
  <1>2. \A l, u : Part(g, l, u, FALSE) = <<>>
    BY DEF Part
  <1> HIDE DEF S
  <1>3. /\ <<>> \o <<>> \o <<>> \o <<>> \o <<>> = <<>>
        /\ a \o <<>> \o <<>> \o <<>> \o <<>> = a
        /\ a \o b \o <<>> \o <<>> \o <<>> = a \o b
        /\ a \o b \o c \o <<>> \o <<>> = a \o b \o c
        /\ a \o b \o c \o d \o <<>> = a \o b \o c \o d
    BY <1>1, Neutral
  <1>4. CASE w.pc = "constitution"
    <2>1. /\ (w.pc # "constitution") = FALSE /\ LoadedCategory(w) = FALSE
          /\ LoadedDomain(w) = FALSE /\ LoadedRole(w) = FALSE /\ (w.pc = "done") = FALSE
      BY <1>4 DEF LoadedCategory, LoadedDomain, LoadedRole
    <2> QED
      BY <1>2, <1>3, <1>4, <2>1 DEF ChainSoFar
  <1>5. CASE w.pc \in {"persona", "role", "domain", "load_category"}
    <2>1. /\ (w.pc # "constitution") = TRUE /\ LoadedCategory(w) = FALSE
          /\ LoadedDomain(w) = FALSE /\ LoadedRole(w) = FALSE /\ (w.pc = "done") = FALSE
      BY <1>5 DEF LoadedCategory, LoadedDomain, LoadedRole
    <2> QED
      BY <1>1, <1>2, <1>3, <1>5, <2>1 DEF ChainSoFar
  <1>6. CASE w.pc = "load_domain"
    <2>1. /\ (w.pc # "constitution") = TRUE /\ LoadedCategory(w) = TRUE
          /\ LoadedDomain(w) = FALSE /\ LoadedRole(w) = FALSE /\ (w.pc = "done") = FALSE
      BY <1>6 DEF LoadedCategory, LoadedDomain, LoadedRole
    <2> QED
      BY <1>1, <1>2, <1>3, <1>6, <2>1 DEF ChainSoFar
  <1>7. CASE w.pc = "load_role"
    <2>1. /\ (w.pc # "constitution") = TRUE /\ LoadedCategory(w) = TRUE
          /\ LoadedDomain(w) = TRUE /\ LoadedRole(w) = FALSE /\ (w.pc = "done") = FALSE
      BY <1>7 DEF LoadedCategory, LoadedDomain, LoadedRole
    <2> QED
      BY <1>1, <1>2, <1>3, <1>7, <2>1 DEF ChainSoFar
  <1>8. CASE w.pc = "overrides"
    <2>1. /\ (w.pc # "constitution") = TRUE /\ LoadedCategory(w) = TRUE
          /\ LoadedDomain(w) = TRUE /\ LoadedRole(w) = TRUE /\ (w.pc = "done") = FALSE
      BY <1>8 DEF LoadedCategory, LoadedDomain, LoadedRole
    <2> QED
      BY <1>1, <1>2, <1>3, <1>8, <2>1 DEF ChainSoFar
  <1>9. CASE w.pc = "done"
    <2>1. /\ (w.pc # "constitution") = TRUE /\ LoadedCategory(w) = TRUE
          /\ LoadedDomain(w) = TRUE /\ LoadedRole(w) = TRUE /\ (w.pc = "done") = TRUE
      BY <1>9 DEF LoadedCategory, LoadedDomain, LoadedRole
    <2> QED
      BY <1>1, <1>2, <1>9, <2>1 DEF ChainSoFar
  <1> QED
    BY <1>4, <1>5, <1>6, <1>7, <1>8, <1>9

\* The walk from v to w asks no less.
Further(v, w) ==
  /\ Read(v) \subseteq Read(w) /\ Followed(v) \subseteq Followed(w)
  /\ AskedPersona(v) => AskedPersona(w)

LEMMA StillSame ==
  ASSUME NEW g, NEW h, NEW v, NEW w, SameToCome(g, h, v), Further(v, w)
  PROVE  SameToCome(g, h, w)
  BY DEF SameToCome, Further

\* The walk has found nothing new.
SamePlaces(v, w) == w.role = v.role /\ w.domain = v.domain /\ w.category = v.category

\* One lemma per request: if the answer is that of g, the walk still agrees with g.
LEMMA SeeConstitution ==
  ASSUME NEW g, NEW v, NEW w, Seen(g, v), SamePlaces(v, w),
         v.pc = "constitution", w.pc = "persona",
         w.chain = v.chain \o LinkOf(g, "constitution", "constitution")
  PROVE  Seen(g, w) /\ Further(v, w)
  <1> DEFINE a == LinkOf(g, "constitution", "constitution")
  <1>1. v.chain = <<>> /\ ChainSoFar(g, w) = a
    BY ChainIs DEF Seen
  <1>2. a \in Seq({[layer |-> "constitution", urn |-> "constitution",
                    constraints |-> g.concepts["constitution"]]})
    BY PartType DEF LinkOf
  <1>3. w.chain = ChainSoFar(g, w)
    BY <1>1, <1>2, Neutral
  <1>4. Seen(g, w)
    BY <1>3 DEF Seen, SamePlaces, AskedPersona, AskedRole, AskedDomain,
                LoadedCategory, LoadedDomain, LoadedRole
  <1>5. Further(v, w)
    BY DEF Further, Read, Followed, AskedPersona, AskedRole, AskedDomain,
           LoadedCategory, LoadedDomain, LoadedRole
  <1> QED
    BY <1>4, <1>5

\* Empty links add nothing.
LEMMA Empties ==
  ASSUME NEW a, NEW b, NEW c, NEW d, a \o <<>> = a
  PROVE  /\ b = <<>> => a \o b = a
         /\ b = <<>> /\ c = <<>> => a \o b \o c = a
         /\ b = <<>> /\ c = <<>> /\ d = <<>> => a \o b \o c \o d = a
  <1>1. b = <<>> => a \o b = a
    BY Zenon
  <1>2. c = <<>> => (a \o b) \o c = (a \o b) \o <<>>
    BY Zenon
  <1>3. d = <<>> => (a \o b \o c) \o d = (a \o b \o c) \o <<>>
    BY Zenon
  <1> QED
    BY <1>1, <1>2, <1>3, Zenon

\* A layer that the walk skips adds nothing.
LEMMA Skipped ==
  ASSUME NEW g, NEW w, GraphType(g), w.category = none,
         NEW a, a = LinkOf(g, "constitution", "constitution")
  PROVE  /\ w.pc = "load_domain" => ChainSoFar(g, w) = a
         /\ w.pc = "load_role" /\ w.domain = none => ChainSoFar(g, w) = a
         /\ w.pc = "overrides" /\ w.domain = none /\ w.role = none => ChainSoFar(g, w) = a
  <1>1. ASSUME NEW l PROVE LinkOf(g, l, none) = <<>>
    BY NoLink, NoEmptyLink DEF LinkOf
  <1>2. a \in Seq({[layer |-> "constitution", urn |-> "constitution",
                    constraints |-> g.concepts["constitution"]]})
    BY PartType DEF LinkOf
  <1>3. a \o <<>> = a
    BY <1>2, Neutral
  <1>4. CASE w.pc = "load_domain"
    <2>1. ChainSoFar(g, w) =
            a \o LinkOf(g, "category", w.category)
      BY <1>4, ChainIs
    <2> QED
      BY <1>1, <1>3, <1>4, <2>1
  <1>5. CASE w.pc = "load_role" /\ w.domain = none
    <2>1. ChainSoFar(g, w) =
            a \o LinkOf(g, "category", w.category)
              \o LinkOf(g, "domain", w.domain)
      BY <1>5, ChainIs, Zenon
    <2>2. LinkOf(g, "category", w.category) = <<>> /\ LinkOf(g, "domain", w.domain) = <<>>
      BY <1>1, <1>5
    <2>3. ChainSoFar(g, w) = a
      BY <1>3, <2>1, <2>2, Empties, Zenon
    <2> QED
      BY <1>5, <2>3
  <1>6. CASE w.pc = "overrides" /\ w.domain = none /\ w.role = none
    <2>1. ChainSoFar(g, w) =
            a \o LinkOf(g, "category", w.category)
              \o LinkOf(g, "domain", w.domain) \o LinkOf(g, "role", w.role)
      BY <1>6, ChainIs, Zenon
    <2>2. /\ LinkOf(g, "category", w.category) = <<>> /\ LinkOf(g, "domain", w.domain) = <<>>
          /\ LinkOf(g, "role", w.role) = <<>>
      BY <1>1, <1>6
    <2>3. ChainSoFar(g, w) = a
      BY <1>3, <2>1, <2>2, Empties, Zenon
    <2> QED
      BY <1>6, <2>3
  <1> QED
    BY <1>4, <1>5, <1>6

LEMMA SeePersona ==
  ASSUME NEW g, NEW v, NEW w, GraphType(g), Seen(g, v), v.pc = "persona",
         w.role \in findBindingEndpoint(FromPersona(g), Role),
         w.domain = v.domain, w.category = v.category, w.chain = v.chain,
         w.pc = IF w.role = none THEN "overrides" ELSE "role"
  PROVE  Seen(g, w) /\ Further(v, w)
  <1> USE DEF AskedPersona, AskedRole, AskedDomain, LoadedCategory, LoadedDomain, LoadedRole
  <1>1. w.domain = none /\ w.category = none
    BY DEF Seen
  <1>2. Further(v, w)
    BY DEF Further, Read, Followed
  <1>3. CASE w.role # none
    <2>1. ChainSoFar(g, v) = ChainSoFar(g, w)
      BY <1>3, ChainIs
    <2> QED
      BY <1>2, <1>3, <2>1 DEF Seen
  <1>4. CASE w.role = none
    <2>1. ChainSoFar(g, v) = ChainSoFar(g, w)
      BY <1>1, <1>4, ChainIs, Skipped
    <2>2. none \in findBindingEndpoint(Into(g, none), Domain)
          /\ none \in findBindingEndpoint(Into(g, none), Category)
      BY NoLink DEF findBindingEndpoint
    <2> QED
      BY <1>1, <1>2, <1>4, <2>1, <2>2 DEF Seen, There
  <1> QED
    BY <1>3, <1>4

LEMMA SeeRole ==
  ASSUME NEW g, NEW v, NEW w, GraphType(g), Seen(g, v), v.pc = "role",
         w.domain \in findBindingEndpoint(Into(g, v.role), Domain),
         w.role = v.role, w.category = v.category, w.chain = v.chain,
         w.pc = IF w.domain = none THEN "load_role" ELSE "domain"
  PROVE  Seen(g, w) /\ Further(v, w)
  <1> USE DEF AskedPersona, AskedRole, AskedDomain, LoadedCategory, LoadedDomain, LoadedRole
  <1>1. w.category = none
    BY DEF Seen
  <1>2. Further(v, w)
    BY DEF Further, Read, Followed
  <1>3. CASE w.domain # none
    <2>1. ChainSoFar(g, v) = ChainSoFar(g, w)
      BY <1>3, ChainIs
    <2> QED
      BY <1>2, <1>3, <2>1 DEF Seen
  <1>4. CASE w.domain = none
    <2>1. ChainSoFar(g, v) = ChainSoFar(g, w)
      BY <1>1, <1>4, ChainIs, Skipped
    <2>2. none \in findBindingEndpoint(Into(g, none), Category)
      BY NoLink DEF findBindingEndpoint
    <2> QED
      BY <1>1, <1>2, <1>4, <2>1, <2>2 DEF Seen, There
  <1> QED
    BY <1>3, <1>4

LEMMA SeeDomain ==
  ASSUME NEW g, NEW v, NEW w, GraphType(g), Seen(g, v), v.pc = "domain",
         w.category \in findBindingEndpoint(Into(g, v.domain), Category),
         w.role = v.role, w.domain = v.domain, w.chain = v.chain,
         w.pc = IF w.category = none THEN "load_domain" ELSE "load_category"
  PROVE  Seen(g, w) /\ Further(v, w)
  <1> USE DEF AskedPersona, AskedRole, AskedDomain, LoadedCategory, LoadedDomain, LoadedRole
  <1>1. Further(v, w)
    BY DEF Further, Read, Followed
  <1>2. CASE w.category # none
    <2>1. ChainSoFar(g, v) = ChainSoFar(g, w)
      BY <1>2, ChainIs
    <2> QED
      BY <1>1, <1>2, <2>1 DEF Seen
  <1>3. CASE w.category = none
    <2>1. ChainSoFar(g, v) = ChainSoFar(g, w)
      BY <1>3, ChainIs, Skipped
    <2> QED
      BY <1>1, <1>3, <2>1 DEF Seen, There
  <1> QED
    BY <1>2, <1>3

LEMMA SeeCategory ==
  ASSUME NEW g, NEW v, NEW w, Seen(g, v), SamePlaces(v, w),
         v.pc = "load_category", w.pc = "load_domain", RowIn(g, v.category) # <<>>,
         w.chain = v.chain \o LinkOf(g, "category", v.category)
  PROVE  Seen(g, w) /\ Further(v, w)
  <1> USE DEF AskedPersona, AskedRole, AskedDomain, LoadedCategory, LoadedDomain, LoadedRole
  <1>1. ChainSoFar(g, v) = LinkOf(g, "constitution", "constitution")
        /\ ChainSoFar(g, w) =
             LinkOf(g, "constitution", "constitution") \o LinkOf(g, "category", w.category)
    BY ChainIs
  <1>2. w.chain = ChainSoFar(g, w)
    BY <1>1 DEF Seen, SamePlaces
  <1>3. Seen(g, w)
    BY <1>2 DEF Seen, SamePlaces, There
  <1>4. Further(v, w)
    BY DEF Further, Read, Followed, SamePlaces
  <1> QED
    BY <1>3, <1>4

LEMMA SeeDomainLink ==
  ASSUME NEW g, NEW v, NEW w, Seen(g, v), SamePlaces(v, w),
         v.pc = "load_domain", w.pc = "load_role", RowIn(g, v.domain) # <<>>,
         w.chain = v.chain \o LinkOf(g, "domain", v.domain)
  PROVE  Seen(g, w) /\ Further(v, w)
  <1> USE DEF AskedPersona, AskedRole, AskedDomain, LoadedCategory, LoadedDomain, LoadedRole
  <1>1. ChainSoFar(g, v) =
             LinkOf(g, "constitution", "constitution") \o LinkOf(g, "category", v.category)
        /\ ChainSoFar(g, w) =
             LinkOf(g, "constitution", "constitution") \o LinkOf(g, "category", w.category)
               \o LinkOf(g, "domain", w.domain)
    BY ChainIs
  <1>2. w.chain = ChainSoFar(g, w)
    BY <1>1 DEF Seen, SamePlaces
  <1>3. Seen(g, w)
    BY <1>2 DEF Seen, SamePlaces, There
  <1>4. Further(v, w)
    BY DEF Further, Read, Followed, SamePlaces
  <1> QED
    BY <1>3, <1>4

LEMMA SeeRoleLink ==
  ASSUME NEW g, NEW v, NEW w, Seen(g, v), SamePlaces(v, w),
         v.pc = "load_role", w.pc = "overrides", RowIn(g, v.role) # <<>>,
         w.chain = v.chain \o LinkOf(g, "role", v.role)
  PROVE  Seen(g, w) /\ Further(v, w)
  <1> USE DEF AskedPersona, AskedRole, AskedDomain, LoadedCategory, LoadedDomain, LoadedRole
  <1>1. ChainSoFar(g, v) =
             LinkOf(g, "constitution", "constitution") \o LinkOf(g, "category", v.category)
               \o LinkOf(g, "domain", v.domain)
        /\ ChainSoFar(g, w) =
             LinkOf(g, "constitution", "constitution") \o LinkOf(g, "category", w.category)
               \o LinkOf(g, "domain", w.domain) \o LinkOf(g, "role", w.role)
    BY ChainIs
  <1>2. w.chain = ChainSoFar(g, w)
    BY <1>1 DEF Seen, SamePlaces
  <1>3. Seen(g, w)
    BY <1>2 DEF Seen, SamePlaces, There
  <1>4. Further(v, w)
    BY DEF Further, Read, Followed, SamePlaces
  <1> QED
    BY <1>3, <1>4

LEMMA SeeOverrides ==
  ASSUME NEW g, NEW v, NEW w, Seen(g, v), SamePlaces(v, w),
         v.pc = "overrides", w.pc = "done",
         w.chain = v.chain \o LinkOf(g, "overrides", "overrides")
  PROVE  Seen(g, w) /\ Further(v, w)
  <1> USE DEF AskedPersona, AskedRole, AskedDomain, LoadedCategory, LoadedDomain, LoadedRole
  <1>1. ChainSoFar(g, v) =
             LinkOf(g, "constitution", "constitution") \o LinkOf(g, "category", v.category)
               \o LinkOf(g, "domain", v.domain) \o LinkOf(g, "role", v.role)
        /\ ChainSoFar(g, w) =
             LinkOf(g, "constitution", "constitution") \o LinkOf(g, "category", w.category)
               \o LinkOf(g, "domain", w.domain) \o LinkOf(g, "role", w.role)
               \o LinkOf(g, "overrides", "overrides")
    BY ChainIs
  <1>2. w.chain = ChainSoFar(g, w)
    BY <1>1 DEF Seen, SamePlaces
  <1>3. Seen(g, w)
    BY <1>2 DEF Seen, SamePlaces, There
  <1>4. Further(v, w)
    BY DEF Further, Read, Followed, SamePlaces
  <1> QED
    BY <1>3, <1>4

\* What has been followed is one of the paths of the graph.
LEMMA PathSeen ==
  ASSUME NEW g, NEW w, Seen(g, w), AskedDomain(w)
  PROVE  <<w.category, w.domain, w.role>> \in Paths(g)
  <1> DEFINE ends(u, Prefix) == {b[1] : b \in {e \in g.bindings : e[2] = u}} \cap Prefix
             first(S) == IF S = {} THEN {none} ELSE S
             roles == {b[2] : b \in {e \in g.bindings : e[1] = persona}} \cap Role
  <1>1. Paths(g) =
          UNION {UNION {{<<k, d, r>> : k \in first(ends(d, Category))}
                          : d \in first(ends(r, Domain))}
                   : r \in first(roles)}
    BY Zenon DEF Paths
  <1>2. /\ w.role \in findBindingEndpoint(FromPersona(g), Role)
        /\ w.domain \in findBindingEndpoint(Into(g, w.role), Domain)
        /\ w.category \in findBindingEndpoint(Into(g, w.domain), Category)
    BY DEF Seen, AskedPersona, AskedRole
  <1>3. /\ FromPersona(g) \cap Role = roles
        /\ \A u : Into(g, u) \cap Domain = ends(u, Domain)
        /\ \A u : Into(g, u) \cap Category = ends(u, Category)
    BY DEF FromPersona, Into, Statute
  <1> HIDE DEF ends, roles
  <1>4. /\ w.role \in first(roles) /\ w.domain \in first(ends(w.role, Domain))
        /\ w.category \in first(ends(w.domain, Category))
    BY <1>2, <1>3 DEF findBindingEndpoint
  <1> HIDE DEF first
  <1> QED
    BY <1>1, <1>4

\* A statute that is missing is missing on one of the paths.
LEMMA MissingSeen ==
  ASSUME NEW g, NEW w, Seen(g, w), AskedDomain(w),
         NEW u \in {w.category, w.domain, w.role}, u # none, RowIn(g, u) = <<>>
  PROVE  \E p \in Paths(g) : Dangling(g, p)
  <1> DEFINE p == <<w.category, w.domain, w.role>>
  <1>1. p \in Paths(g)
    BY PathSeen
  <1>2. u \notin DOMAIN g.concepts
    BY DEF RowIn
  <1>3. \E i \in DOMAIN p : p[i] = u
    <2>1. 1 \in DOMAIN p /\ 2 \in DOMAIN p /\ 3 \in DOMAIN p
          /\ p[1] = w.category /\ p[2] = w.domain /\ p[3] = w.role
      OBVIOUS
    <2> QED
      BY <2>1
  <1> HIDE DEF p
  <1>4. Dangling(g, p)
    BY <1>2, <1>3 DEF Dangling
  <1> QED
    BY <1>1, <1>4

-----------------------------------------------------------------------------
\* The request awaited asks for something not asked before.
LEMMA AsksNew ==
  ASSUME WalkInv, NEW v, v = Walker
  PROVE  /\ pc = "constitution" => "constitution" \notin Read(v)
         /\ pc = "persona" => ~AskedPersona(v)
         /\ pc = "role" => roleUrn \notin Followed(v)
         /\ pc = "domain" => domainUrn \notin Followed(v)
         /\ pc = "load_category" => categoryUrn \notin Read(v)
         /\ pc = "load_domain" => domainUrn \notin Read(v)
         /\ pc = "load_role" => roleUrn \notin Read(v)
         /\ pc = "overrides" => "overrides" \notin Read(v)
  <1> USE GraphAssumption DEF AskedPersona, AskedRole, AskedDomain,
          LoadedCategory, LoadedDomain, LoadedRole
  <1>1. v.pc = pc /\ v.role = roleUrn /\ v.domain = domainUrn /\ v.category = categoryUrn
    BY DEF Walker
  <1>2. /\ roleUrn \in Role \cup {none} /\ domainUrn \in Domain \cup {none}
        /\ categoryUrn \in Category \cup {none}
    BY DEF WalkInv, TypeOK
  <1>3. {"constitution", "overrides", none} \cap Statute = {}
        /\ none \notin {"constitution", "overrides"}
    BY DEF none
  <1>4. CASE pc \in {"constitution", "persona"}
    BY <1>1, <1>4 DEF Read
  <1>5. CASE pc \in {"role", "domain"}
    BY <1>1, <1>2, <1>3, <1>5 DEF Followed, WalkInv, Progress, Statute
  <1>6. CASE pc = "load_category"
    BY <1>1, <1>2, <1>3, <1>6 DEF Read, WalkInv, Progress, Statute
  <1>7. CASE pc = "load_domain"
    BY <1>1, <1>2, <1>3, <1>7 DEF Read, WalkInv, Progress, Statute
  <1>8. CASE pc = "load_role"
    BY <1>1, <1>2, <1>3, <1>8 DEF Read, WalkInv, Progress, Statute
  <1>9. CASE pc = "overrides"
    BY <1>1, <1>2, <1>3, <1>9 DEF Read, WalkInv, Progress, Statute
  <1> QED
    BY <1>4, <1>5, <1>6, <1>7, <1>8, <1>9

\* The graph g can still be that of the outcome.
Fits(g) == GraphType(g) /\ Seen(g, Walker) /\ SameToCome(g, Graph, Walker)

LEMMA Stays ==
  ASSUME NEW g, NEW h, NEW v, NEW w, SameToCome(g, h, v), Seen(g, w) /\ Further(v, w)
  PROVE  IsOf(g, h, w) \/ w.pc = "integrity"
  BY StillSame DEF IsOf

\* The fields of the record.
LEMMA Fields ==
  ASSUME NEW v, v = Walker
  PROVE  /\ v.pc = pc /\ v.role = roleUrn /\ v.domain = domainUrn /\ v.category = categoryUrn
         /\ v.chain = chain
  BY DEF Walker

\* A request for a concept whose answer arrives.
LEMMA ReadUnlost ==
  ASSUME WalkInv, NEW u, NEW at, NEW next, ReadIfPresent(u, at, next), ~lost'
  PROVE  /\ pc = at /\ pc' = next /\ SamePath
         /\ chain' = chain \o LinkOf(Graph, u, u)
  <1>1. PICK row \in {Row(u), <<>>} :
          queryConcept(u, row) /\ chain' = Pushed(Link(u, u, row))
    BY DEF ReadIfPresent
  <1>2. row = Row(u)
    BY <1>1 DEF queryConcept, Answered
  <1>3. Row(u) = RowIn(Graph, u)
    BY DEF Row, RowIn, Graph
  <1>4. pc = at /\ pc' = next /\ SamePath
    BY DEF ReadIfPresent, SamePath
  <1> QED
    BY <1>1, <1>2, <1>3, <1>4, Zenon DEF Pushed, LinkOf

LEMMA LoadUnlost ==
  ASSUME WalkInv, NEW u, NEW layer, NEW at, NEW next, loadOrThrow(u, layer, at, next), ~lost'
  PROVE  /\ pc = at /\ SamePath
         /\ \/ pc' = "integrity" /\ RowIn(Graph, u) = <<>>
            \/ /\ pc' = next /\ RowIn(Graph, u) # <<>>
               /\ chain' = chain \o LinkOf(Graph, layer, u)
  <1>1. PICK row \in {Row(u), <<>>} :
          /\ queryConcept(u, row)
          /\ IF IsMissing(row)
             THEN pc' = "integrity" /\ UNCHANGED chain
             ELSE pc' = next /\ chain' = Pushed(Link(layer, u, row))
    BY DEF loadOrThrow
  <1>2. row = Row(u)
    BY <1>1 DEF queryConcept, Answered
  <1>3. Row(u) = RowIn(Graph, u)
    BY DEF Row, RowIn, Graph
  <1>4. pc = at /\ SamePath
    BY DEF loadOrThrow, SamePath
  <1> QED
    BY <1>1, <1>2, <1>3, <1>4, Zenon DEF Pushed, LinkOf, IsMissing

\* Every request of the walk asks for something new, which g and the graph as it
\* is answer alike.
LEMMA ConstitutionMoment ==
  ASSUME WalkInv, ReadIfPresent("constitution", "constitution", "persona"), ~lost',
         NEW g, Fits(g)
  PROVE  IsOf(g, Graph, Walker')
  <1>1. PICK v, w, h : v = Walker /\ w = Walker' /\ h = Graph
    OBVIOUS
  <1>2. /\ pc = "constitution" /\ pc' = "persona" /\ SamePath
        /\ chain' = chain \o LinkOf(Graph, "constitution", "constitution")
    BY ReadUnlost, Zenon
  <1>3. /\ v.pc = "constitution" /\ w.pc = "persona" /\ SamePlaces(v, w)
        /\ w.chain = v.chain \o LinkOf(h, "constitution", "constitution")
    BY <1>1, <1>2 DEF Walker, SamePlaces, SamePath
  <1>4. "constitution" \notin Read(v)
    BY <1>1, <1>2, AsksNew
  <1>5. Seen(g, v) /\ SameToCome(g, h, v)
    BY <1>1 DEF Fits
  <1>6. LinkOf(h, "constitution", "constitution") = LinkOf(g, "constitution", "constitution")
    BY <1>4, <1>5 DEF SameToCome, LinkOf
  <1>7. Seen(g, w) /\ Further(v, w)
    BY <1>3, <1>5, <1>6, SeeConstitution
  <1> QED
    BY <1>1, <1>3, <1>5, <1>7, Stays

LEMMA OverridesMoment ==
  ASSUME WalkInv, ReadIfPresent("overrides", "overrides", "done"), ~lost', NEW g, Fits(g)
  PROVE  IsOf(g, Graph, Walker')
  <1>1. PICK v, w, h : v = Walker /\ w = Walker' /\ h = Graph
    OBVIOUS
  <1>2. /\ pc = "overrides" /\ pc' = "done" /\ SamePath
        /\ chain' = chain \o LinkOf(Graph, "overrides", "overrides")
    BY ReadUnlost, Zenon
  <1>3. /\ v.pc = "overrides" /\ w.pc = "done" /\ SamePlaces(v, w)
        /\ w.chain = v.chain \o LinkOf(h, "overrides", "overrides")
    BY <1>1, <1>2 DEF Walker, SamePlaces, SamePath
  <1>4. "overrides" \notin Read(v)
    BY <1>1, <1>2, AsksNew
  <1>5. Seen(g, v) /\ SameToCome(g, h, v)
    BY <1>1 DEF Fits
  <1>6. LinkOf(h, "overrides", "overrides") = LinkOf(g, "overrides", "overrides")
    BY <1>4, <1>5 DEF SameToCome, LinkOf
  <1>7. Seen(g, w) /\ Further(v, w)
    BY <1>3, <1>5, <1>6, SeeOverrides
  <1> QED
    BY <1>1, <1>3, <1>5, <1>7, Stays

LEMMA LoadCategoryMoment ==
  ASSUME WalkInv, loadOrThrow(categoryUrn, "category", "load_category", "load_domain"), ~lost',
         NEW g, Fits(g)
  PROVE  IsOf(g, Graph, Walker')
  <1>1. PICK v, w, h : v = Walker /\ w = Walker' /\ h = Graph
    OBVIOUS
  <1>2. /\ pc = "load_category" /\ SamePath
        /\ \/ pc' = "integrity" /\ RowIn(Graph, categoryUrn) = <<>>
           \/ /\ pc' = "load_domain" /\ RowIn(Graph, categoryUrn) # <<>>
              /\ chain' = chain \o LinkOf(Graph, "category", categoryUrn)
    BY LoadUnlost, Zenon
  <1>3. v.pc = "load_category" /\ SamePlaces(v, w) /\ v.category = categoryUrn /\ categoryUrn # none
    BY <1>1, <1>2 DEF Walker, SamePlaces, SamePath, WalkInv, Progress
  <1>4. v.category \notin Read(v)
    BY <1>1, <1>2, <1>3, AsksNew
  <1>5. Seen(g, v) /\ SameToCome(g, h, v)
    BY <1>1 DEF Fits
  <1>6. RowIn(h, v.category) = RowIn(g, v.category)
    BY <1>4, <1>5 DEF SameToCome
  <1>7. CASE pc' = "integrity" /\ RowIn(Graph, categoryUrn) = <<>>
    <2>1. w.pc = "integrity" /\ RowIn(g, v.category) = <<>> /\ AskedDomain(v)
      BY <1>1, <1>3, <1>6, <1>7 DEF Walker, AskedDomain
    <2>2. \E p \in Paths(g) : Dangling(g, p)
      BY <1>3, <1>5, <2>1, MissingSeen
    <2> QED
      BY <1>1, <2>1, <2>2 DEF IsOf, Requests
  <1>8. CASE /\ pc' = "load_domain" /\ RowIn(Graph, categoryUrn) # <<>>
             /\ chain' = chain \o LinkOf(Graph, "category", categoryUrn)
    <2>1. w.pc = "load_domain" /\ w.chain = v.chain \o LinkOf(g, "category", v.category)
      BY <1>1, <1>3, <1>6, <1>8 DEF Walker, LinkOf
    <2>2. RowIn(g, v.category) # <<>>
      BY <1>1, <1>3, <1>6, <1>8
    <2>3. Seen(g, w) /\ Further(v, w)
      BY <1>3, <1>5, <2>1, <2>2, SeeCategory
    <2> QED
      BY <1>1, <1>5, <2>1, <2>3, Stays
  <1> QED
    BY <1>2, <1>7, <1>8

LEMMA LoadDomainMoment ==
  ASSUME WalkInv, loadOrThrow(domainUrn, "domain", "load_domain", "load_role"), ~lost',
         NEW g, Fits(g)
  PROVE  IsOf(g, Graph, Walker')
  <1>1. PICK v, w, h : v = Walker /\ w = Walker' /\ h = Graph
    OBVIOUS
  <1>2. /\ pc = "load_domain" /\ SamePath
        /\ \/ pc' = "integrity" /\ RowIn(Graph, domainUrn) = <<>>
           \/ /\ pc' = "load_role" /\ RowIn(Graph, domainUrn) # <<>>
              /\ chain' = chain \o LinkOf(Graph, "domain", domainUrn)
    BY LoadUnlost, Zenon
  <1>3. v.pc = "load_domain" /\ SamePlaces(v, w) /\ v.domain = domainUrn /\ domainUrn # none
    BY <1>1, <1>2 DEF Walker, SamePlaces, SamePath, WalkInv, Progress
  <1>4. v.domain \notin Read(v)
    BY <1>1, <1>2, <1>3, AsksNew
  <1>5. Seen(g, v) /\ SameToCome(g, h, v)
    BY <1>1 DEF Fits
  <1>6. RowIn(h, v.domain) = RowIn(g, v.domain)
    BY <1>4, <1>5 DEF SameToCome
  <1>7. CASE pc' = "integrity" /\ RowIn(Graph, domainUrn) = <<>>
    <2>1. w.pc = "integrity" /\ RowIn(g, v.domain) = <<>> /\ AskedDomain(v)
      BY <1>1, <1>3, <1>6, <1>7 DEF Walker, AskedDomain
    <2>2. \E p \in Paths(g) : Dangling(g, p)
      BY <1>3, <1>5, <2>1, MissingSeen
    <2> QED
      BY <1>1, <2>1, <2>2 DEF IsOf, Requests
  <1>8. CASE /\ pc' = "load_role" /\ RowIn(Graph, domainUrn) # <<>>
             /\ chain' = chain \o LinkOf(Graph, "domain", domainUrn)
    <2>1. w.pc = "load_role" /\ w.chain = v.chain \o LinkOf(g, "domain", v.domain)
      BY <1>1, <1>3, <1>6, <1>8 DEF Walker, LinkOf
    <2>2. RowIn(g, v.domain) # <<>>
      BY <1>1, <1>3, <1>6, <1>8
    <2>3. Seen(g, w) /\ Further(v, w)
      BY <1>3, <1>5, <2>1, <2>2, SeeDomainLink
    <2> QED
      BY <1>1, <1>5, <2>1, <2>3, Stays
  <1> QED
    BY <1>2, <1>7, <1>8

LEMMA LoadRoleMoment ==
  ASSUME WalkInv, loadOrThrow(roleUrn, "role", "load_role", "overrides"), ~lost',
         NEW g, Fits(g)
  PROVE  IsOf(g, Graph, Walker')
  <1>1. PICK v, w, h : v = Walker /\ w = Walker' /\ h = Graph
    OBVIOUS
  <1>2. /\ pc = "load_role" /\ SamePath
        /\ \/ pc' = "integrity" /\ RowIn(Graph, roleUrn) = <<>>
           \/ /\ pc' = "overrides" /\ RowIn(Graph, roleUrn) # <<>>
              /\ chain' = chain \o LinkOf(Graph, "role", roleUrn)
    BY LoadUnlost, Zenon
  <1>3. v.pc = "load_role" /\ SamePlaces(v, w) /\ v.role = roleUrn /\ roleUrn # none
    BY <1>1, <1>2 DEF Walker, SamePlaces, SamePath, WalkInv, Progress
  <1>4. v.role \notin Read(v)
    BY <1>1, <1>2, <1>3, AsksNew
  <1>5. Seen(g, v) /\ SameToCome(g, h, v)
    BY <1>1 DEF Fits
  <1>6. RowIn(h, v.role) = RowIn(g, v.role)
    BY <1>4, <1>5 DEF SameToCome
  <1>7. CASE pc' = "integrity" /\ RowIn(Graph, roleUrn) = <<>>
    <2>1. w.pc = "integrity" /\ RowIn(g, v.role) = <<>> /\ AskedDomain(v)
      BY <1>1, <1>3, <1>6, <1>7 DEF Walker, AskedDomain
    <2>2. \E p \in Paths(g) : Dangling(g, p)
      BY <1>3, <1>5, <2>1, MissingSeen
    <2> QED
      BY <1>1, <2>1, <2>2 DEF IsOf, Requests
  <1>8. CASE /\ pc' = "overrides" /\ RowIn(Graph, roleUrn) # <<>>
             /\ chain' = chain \o LinkOf(Graph, "role", roleUrn)
    <2>1. w.pc = "overrides" /\ w.chain = v.chain \o LinkOf(g, "role", v.role)
      BY <1>1, <1>3, <1>6, <1>8 DEF Walker, LinkOf
    <2>2. RowIn(g, v.role) # <<>>
      BY <1>1, <1>3, <1>6, <1>8
    <2>3. Seen(g, w) /\ Further(v, w)
      BY <1>3, <1>5, <2>1, <2>2, SeeRoleLink
    <2> QED
      BY <1>1, <1>5, <2>1, <2>3, Stays
  <1> QED
    BY <1>2, <1>7, <1>8

LEMMA PersonaMoment ==
  ASSUME WalkInv, QueryPersona, ~lost', NEW g, Fits(g)
  PROVE  IsOf(g, Graph, Walker')
  <1>1. PICK v, w, h : v = Walker /\ w = Walker' /\ h = Graph
    OBVIOUS
  <1>2. Targets(persona) = FromPersona(h)
    BY <1>1 DEF Targets, FromPersona, Graph
  <1>3. /\ pc = "persona" /\ roleUrn' \in findBindingEndpoint(FromPersona(h), Role)
        /\ pc' = IF roleUrn' = none THEN "overrides" ELSE "role"
        /\ UNCHANGED <<domainUrn, categoryUrn, chain>>
    BY <1>2 DEF QueryPersona, queryBindings, Answered
  <1>4. /\ v.pc = "persona" /\ w.role \in findBindingEndpoint(FromPersona(h), Role)
        /\ w.domain = v.domain /\ w.category = v.category /\ w.chain = v.chain
        /\ w.pc = IF w.role = none THEN "overrides" ELSE "role"
    BY <1>1, <1>3 DEF Walker
  <1>5. GraphType(g) /\ Seen(g, v) /\ SameToCome(g, h, v)
    BY <1>1 DEF Fits
  <1>6. FromPersona(h) = FromPersona(g)
    BY <1>1, <1>3, <1>5, AsksNew DEF SameToCome
  <1>7. Seen(g, w) /\ Further(v, w)
    BY <1>4, <1>5, <1>6, SeePersona
  <1> QED
    BY <1>1, <1>4, <1>5, <1>7, Stays

\* Only statutes are the far end of a binding that the walk follows upwards.
LEMMA OnlyStatutes ==
  ASSUME NEW u, NEW h, h = Graph
  PROVE  findBindingEndpoint(Sources(u), Domain) = findBindingEndpoint(Into(h, u), Domain)
         /\ findBindingEndpoint(Sources(u), Category) = findBindingEndpoint(Into(h, u), Category)
  <1>1. Into(h, u) = Sources(u) \cap Statute
    BY DEF Into, Sources, Graph
  <1>2. /\ Into(h, u) \cap Domain = Sources(u) \cap Domain
        /\ Into(h, u) \cap Category = Sources(u) \cap Category
    BY <1>1 DEF Statute
  <1> QED
    BY <1>2, Zenon DEF findBindingEndpoint

LEMMA RoleMoment ==
  ASSUME WalkInv, QueryRole, ~lost', NEW g, Fits(g)
  PROVE  IsOf(g, Graph, Walker')
  <1>1. PICK v, w, h : v = Walker /\ w = Walker' /\ h = Graph
    OBVIOUS
  <1>2. /\ pc = "role" /\ domainUrn' \in findBindingEndpoint(Sources(roleUrn), Domain)
        /\ pc' = IF domainUrn' = none THEN "load_role" ELSE "domain"
        /\ UNCHANGED <<roleUrn, categoryUrn, chain>>
    BY DEF QueryRole, queryBindings, Answered, ParentsOf
  <1>3. domainUrn' \in findBindingEndpoint(Into(h, roleUrn), Domain)
    BY <1>1, <1>2, OnlyStatutes
  <1>4. /\ v.pc = "role" /\ w.domain \in findBindingEndpoint(Into(h, v.role), Domain)
        /\ w.role = v.role /\ w.category = v.category /\ w.chain = v.chain
        /\ w.pc = IF w.domain = none THEN "load_role" ELSE "domain"
    BY <1>1, <1>2, <1>3 DEF Walker
  <1>5. GraphType(g) /\ Seen(g, v) /\ SameToCome(g, h, v)
    BY <1>1 DEF Fits
  <1>6. v.role \notin Followed(v)
    BY <1>1, <1>2, AsksNew, Fields
  <1>7. Into(h, v.role) = Into(g, v.role)
    BY <1>5, <1>6 DEF SameToCome
  <1>8. Seen(g, w) /\ Further(v, w)
    BY <1>4, <1>5, <1>7, SeeRole
  <1> QED
    BY <1>1, <1>4, <1>5, <1>8, Stays

LEMMA DomainMoment ==
  ASSUME WalkInv, QueryDomain, ~lost', NEW g, Fits(g)
  PROVE  IsOf(g, Graph, Walker')
  <1>1. PICK v, w, h : v = Walker /\ w = Walker' /\ h = Graph
    OBVIOUS
  <1>2. /\ pc = "domain" /\ categoryUrn' \in findBindingEndpoint(Sources(domainUrn), Category)
        /\ pc' = IF categoryUrn' = none THEN "load_domain" ELSE "load_category"
        /\ UNCHANGED <<domainUrn, roleUrn, chain>>
    BY DEF QueryDomain, queryBindings, Answered, ParentsOf
  <1>3. categoryUrn' \in findBindingEndpoint(Into(h, domainUrn), Category)
    BY <1>1, <1>2, OnlyStatutes
  <1>4. /\ v.pc = "domain" /\ w.category \in findBindingEndpoint(Into(h, v.domain), Category)
        /\ w.domain = v.domain /\ w.role = v.role /\ w.chain = v.chain
        /\ w.pc = IF w.category = none THEN "load_domain" ELSE "load_category"
    BY <1>1, <1>2, <1>3 DEF Walker
  <1>5. GraphType(g) /\ Seen(g, v) /\ SameToCome(g, h, v)
    BY <1>1 DEF Fits
  <1>6. v.domain \notin Followed(v)
    BY <1>1, <1>2, AsksNew, Fields
  <1>7. Into(h, v.domain) = Into(g, v.domain)
    BY <1>5, <1>6 DEF SameToCome
  <1>8. Seen(g, w) /\ Further(v, w)
    BY <1>4, <1>5, <1>7, SeeDomain
  <1> QED
    BY <1>1, <1>4, <1>5, <1>8, Stays

-----------------------------------------------------------------------------
(* Every step.                                                             *)

LEMMA ConceptDiffers ==
  ASSUME NEW g, NEW h, NEW u, NEW c, h.bindings = g.bindings,
         h.concepts = [v \in DOMAIN g.concepts \cup {u} |->
                         IF v = u THEN c ELSE g.concepts[v]]
  PROVE  OneDiffers(g, h)
  <1>1. \A v : v # u => RowIn(g, v) = RowIn(h, v)
    BY DEF RowIn
  <1>2. FromPersona(g) = FromPersona(h) /\ \A v : Into(g, v) = Into(h, v)
    BY DEF FromPersona, Into
  <1> QED
    BY <1>1, <1>2 DEF OneDiffers

LEMMA BindingDiffers ==
  ASSUME NEW g, NEW h, NEW from, NEW to, h.concepts = g.concepts,
         h.bindings = g.bindings \cup {<<from, to>>}
  PROVE  OneDiffers(g, h)
  <1>1. \A v : RowIn(g, v) = RowIn(h, v)
    BY DEF RowIn
  <1>2. CASE from = persona
    <2>1. from \notin Statute
      BY <1>2, GraphAssumption
    <2>2. \A v : Into(g, v) = Into(h, v)
      BY <2>1 DEF Into
    <2> QED
      BY <1>1, <2>2 DEF OneDiffers
  <1>3. CASE from # persona
    <2>1. FromPersona(g) = FromPersona(h)
      BY <1>3 DEF FromPersona
    <2>2. \A v : v # to => Into(g, v) = Into(h, v)
      BY DEF Into
    <2> QED
      BY <1>1, <2>1, <2>2 DEF OneDiffers
  <1> QED
    BY <1>2, <1>3

LEMMA MomentInit == Init => MomentInv
  <1> SUFFICES ASSUME Init PROVE MomentInv
    OBVIOUS
  <1>1. start = Graph /\ GraphType(Graph)
    <2>1. PICK g \in Seed : concepts = g.concepts /\ bindings = g.bindings
      BY DEF Init
    <2>2. /\ DOMAIN g.concepts \subseteq URN
          /\ g.bindings \subseteq (URN \cup {persona}) \X (URN \cup Other)
      BY GraphAssumption
    <2> QED
      BY <2>1, <2>2 DEF Init, Graph, GraphType
  <1>2. ASSUME NEW w, w = Walker PROVE Seen(Graph, w)
    <2>1. /\ w.pc = "constitution" /\ w.chain = <<>> /\ w.role = none
          /\ w.domain = none /\ w.category = none
      BY <1>2 DEF Walker, Init
    <2>2. ChainSoFar(Graph, w) = <<>>
      BY <2>1, ChainIs, Zenon
    <2> QED
      BY <2>1, <2>2 DEF Seen, AskedPersona, AskedRole, AskedDomain,
                        LoadedCategory, LoadedDomain, LoadedRole
  <1>3. ASSUME NEW g, NEW w PROVE SameToCome(g, g, w)
    BY DEF SameToCome
  <1>4. ASSUME NEW w, w = Walker PROVE IsOf(Graph, Graph, w)
    <2>1. w.pc = "constitution"
      BY <1>4 DEF Walker, Init
    <2> QED
      BY <1>2, <1>3, <1>4, <2>1 DEF IsOf
  <1> QED
    BY <1>1, <1>4 DEF MomentInv

LEMMA EditMoment ==
  ASSUME WalkInv, MomentInv, Edit, TypeOK',
         UNCHANGED <<start, pc, roleUrn, domainUrn, categoryUrn, chain, lost>>,
         NEW h, h = Graph', OneDiffers(Graph, h)
  PROVE  MomentInv'
  <1>1. PICK w, g : w = Walker /\ g = start
    OBVIOUS
  <1>2. Walker' = w /\ start' = g /\ Graph' = h
    BY <1>1 DEF Walker
  <1>3. w.pc = pc /\ pc \in Requests
    BY <1>1 DEF Walker, Edit
  <1>4. GraphType(g) /\ GraphType(h)
    <2>1. GraphType(g)
      BY <1>1 DEF MomentInv
    <2>2. h.concepts = concepts' /\ h.bindings = bindings'
      BY DEF Graph
    <2> QED
      BY <2>1, <2>2 DEF GraphType, TypeOK
  <1>5. edits \in Nat /\ edits' = edits + 1
    BY GraphAssumption DEF WalkInv, TypeOK, Edit
  <1>6. ASSUME edits' <= 1, ~lost' PROVE \E f \in {g, h} : IsOf(f, h, w)
    <2>1. edits = 0 /\ ~lost
      BY <1>5, <1>6
    <2>2. g = Graph /\ IsOf(g, Graph, w)
      BY <1>1, <2>1 DEF MomentInv
    <2>3. Seen(g, w)
      BY <1>3, <2>2 DEF IsOf
    <2>4. SameToCome(g, h, w) \/ SameSoFar(g, h, w)
      BY <2>2, OneChange
    <2>5. CASE SameToCome(g, h, w)
      BY <1>3, <2>3, <2>5 DEF IsOf, Requests
    <2>6. CASE SameSoFar(g, h, w)
      <3>1. Seen(h, w)
        BY <1>3, <2>3, <2>6, UnreadSeen
      <3>2. SameToCome(h, h, w)
        BY DEF SameToCome
      <3> QED
        BY <1>3, <3>1, <3>2 DEF IsOf, Requests
    <2> QED
      BY <2>4, <2>5, <2>6
  <1>7. edits' # 0
    BY <1>5
  <1> QED
    BY <1>2, <1>4, <1>6, <1>7 DEF MomentInv

LEMMA WalkMoment == ASSUME WalkInv, MomentInv, Walk PROVE MomentInv'
  <1>1. UNCHANGED <<concepts, bindings, edits, start>> /\ (lost => lost') /\ pc \in Requests
    <2> SUFFICES UNCHANGED <<graphVars, start>> /\ (lost => lost') /\ pc \in Requests
      BY DEF graphVars
    <2>1. \A true, answer : Answered(true, answer) => (lost => lost')
      BY Zenon DEF Answered
    <2>2. ASSUME NEW u, NEW at \in Requests, NEW next, ReadIfPresent(u, at, next)
          PROVE  UNCHANGED <<graphVars, start>> /\ (lost => lost') /\ pc \in Requests
      BY <2>1, <2>2, Zenon DEF ReadIfPresent, queryConcept
    <2>3. ASSUME NEW u, NEW layer, NEW at \in Requests, NEW next,
                 loadOrThrow(u, layer, at, next)
          PROVE  UNCHANGED <<graphVars, start>> /\ (lost => lost') /\ pc \in Requests
      BY <2>1, <2>3, Zenon DEF loadOrThrow, queryConcept
    <2>4. CASE QueryPersona \/ QueryRole \/ QueryDomain
      <3>1. lost => lost'
        BY <2>1, <2>4, Zenon DEF QueryPersona, QueryRole, QueryDomain, queryBindings
      <3>2. UNCHANGED <<graphVars, start>> /\ pc \in Requests
        BY <2>4 DEF QueryPersona, QueryRole, QueryDomain, Requests
      <3> QED
        BY <3>1, <3>2
    <2>5. CASE RequestFails
      BY <2>5 DEF RequestFails
    <2>6. {"constitution", "load_category", "load_domain", "load_role", "overrides"}
            \subseteq Requests
      BY DEF Requests
    <2> QED
      BY <2>2, <2>3, <2>4, <2>5, <2>6 DEF Walk
  <1>2. ASSUME NEW g, Fits(g), ~lost' PROVE IsOf(g, Graph, Walker')
    <2>1. CASE RequestFails
      <3>1. PICK w : w = Walker'
        OBVIOUS
      <3>2. w.pc = "rejected"
        BY <2>1, <3>1 DEF RequestFails, Walker
      <3> QED
        BY <3>1, <3>2 DEF IsOf, Requests
    <2> QED
      BY <1>2, <2>1, ConstitutionMoment, OverridesMoment, LoadCategoryMoment,
         LoadDomainMoment, LoadRoleMoment, PersonaMoment, RoleMoment, DomainMoment,
         Zenon DEF Walk
  <1>3. Graph' = Graph
    BY <1>1 DEF Graph
  <1>4. ASSUME edits' <= 1, ~lost' PROVE \E g \in {start, Graph} : IsOf(g, Graph, Walker')
    <2>1. PICK g \in {start, Graph} : IsOf(g, Graph, Walker)
      BY <1>1, <1>4 DEF MomentInv
    <2>2. PICK w : w = Walker
      OBVIOUS
    <2>3. w.pc = pc
      BY <2>2 DEF Walker
    <2>4. Fits(g)
      BY <1>1, <2>1, <2>2, <2>3 DEF MomentInv, Fits, IsOf
    <2> QED
      BY <1>2, <1>4, <2>1, <2>4
  <1> QED
    BY <1>1, <1>3, <1>4 DEF MomentInv

LEMMA MomentStep == WalkInv /\ WalkInv' /\ MomentInv /\ [Next]_vars => MomentInv'
  <1> SUFFICES ASSUME WalkInv, WalkInv', MomentInv, [Next]_vars PROVE MomentInv'
    OBVIOUS
  <1>1. PICK g, h : g = Graph /\ h = Graph'
    OBVIOUS
  <1>2. /\ g.concepts = concepts /\ g.bindings = bindings
        /\ h.concepts = concepts' /\ h.bindings = bindings'
    BY <1>1 DEF Graph
  <1>3. TypeOK'
    BY DEF WalkInv
  <1>4. ASSUME NEW u \in URN, insertConcept(u) \/ updateConcept(u) PROVE MomentInv'
    <2>1. /\ Edit /\ UNCHANGED <<start, pc, roleUrn, domainUrn, categoryUrn, chain, lost>>
          /\ bindings' = bindings /\ \E F \in SUBSET Field :
               concepts' = With(u, [f \in F |-> <<u, edits'>>])
      BY <1>4 DEF insertConcept, updateConcept
    <2>2. PICK c : concepts' = With(u, c)
      BY <2>1
    <2>3. h.bindings = g.bindings /\ h.concepts =
            [v \in DOMAIN g.concepts \cup {u} |-> IF v = u THEN c ELSE g.concepts[v]]
      BY <1>2, <2>1, <2>2 DEF With
    <2>4. OneDiffers(g, h)
      BY <2>3, ConceptDiffers
    <2> QED
      BY <1>1, <1>3, <2>1, <2>4, EditMoment
  <1>5. ASSUME NEW from, NEW to, insertBinding(from, to) PROVE MomentInv'
    <2>1. /\ Edit /\ UNCHANGED <<start, pc, roleUrn, domainUrn, categoryUrn, chain, lost>>
          /\ concepts' = concepts /\ bindings' = bindings \cup {<<from, to>>}
      BY <1>5 DEF insertBinding
    <2>2. OneDiffers(g, h)
      BY <1>2, <2>1, BindingDiffers
    <2> QED
      BY <1>1, <1>3, <2>1, <2>2, EditMoment
  <1>6. CASE UNCHANGED vars
    <2>1. UNCHANGED <<concepts, bindings, edits, start, pc, roleUrn, domainUrn,
                      categoryUrn, chain, lost>>
      BY <1>6 DEF vars, graphVars
    <2>2. Graph' = Graph /\ Walker' = Walker
      BY <2>1 DEF Graph, Walker
    <2> QED
      BY <2>1, <2>2 DEF MomentInv
  <1> QED
    BY <1>4, <1>5, <1>6, WalkMoment DEF Next

\* A chain that agrees with g is one of the chains of g.
LEMMA DoneOfOne ==
  ASSUME NEW g, NEW h, NEW w, IsOf(g, h, w), w.pc = "done", GraphType(g)
  PROVE  \E p \in Paths(g) : ~Dangling(g, p) /\ w.chain = ChainOf(g, p)
  <1> DEFINE p == <<w.category, w.domain, w.role>>
  <1>1. Seen(g, w) /\ AskedDomain(w)
    BY DEF IsOf, AskedDomain
  <1>2. p \in Paths(g)
    BY <1>1, PathSeen
  <1>3. There(g, w.category) /\ There(g, w.domain) /\ There(g, w.role)
    BY <1>1 DEF Seen, LoadedCategory, LoadedDomain, LoadedRole
  <1>4. ~Dangling(g, p)
    <2>1. \A u : There(g, u) => u = none \/ u \in DOMAIN g.concepts
      BY DEF There, RowIn
    <2>2. \A i \in DOMAIN p : p[i] \in {w.category, w.domain, w.role}
      OBVIOUS
    <2> QED
      BY <1>3, <2>1, <2>2 DEF Dangling
  <1>5. \A l, u : LinkIn(g, l, u) = LinkOf(g, l, u)
    BY Zenon DEF LinkIn, LinkOf, RowIn
  <1>6. w.chain = LinkOf(g, "constitution", "constitution") \o LinkOf(g, "category", w.category)
                    \o LinkOf(g, "domain", w.domain) \o LinkOf(g, "role", w.role)
                    \o LinkOf(g, "overrides", "overrides")
    BY <1>1, ChainIs DEF Seen
  <1>7. p[1] = w.category /\ p[2] = w.domain /\ p[3] = w.role
    OBVIOUS
  <1> HIDE DEF p
  <1>8. w.chain = ChainOf(g, p)
    BY <1>5, <1>6, <1>7 DEF ChainOf
  <1> QED
    BY <1>2, <1>4, <1>8

\* The links are read one by one, yet for any graph and any single edit between
\* the requests resolveCascade (statute-cascade.js:183) returns the chain, or
\* throws for a path, of the graph before the edit or of the one after it.
THEOREM NoMixture == Spec => []OneMoment
  <1>1. MomentInv => OneMoment
    <2> SUFFICES ASSUME MomentInv, edits <= 1, ~lost
                 PROVE  /\ pc = "done" =>
                             \E g \in {start, Graph} : \E p \in Paths(g) :
                               ~Dangling(g, p) /\ chain = ChainOf(g, p)
                        /\ pc = "integrity" =>
                             \E g \in {start, Graph} : \E p \in Paths(g) : Dangling(g, p)
      BY Zenon DEF OneMoment
    <2>1. PICK g \in {start, Graph} : IsOf(g, Graph, Walker)
      BY DEF MomentInv
    <2>2. PICK w, h : w = Walker /\ h = Graph
      OBVIOUS
    <2>3. w.pc = pc /\ w.chain = chain /\ IsOf(g, h, w) /\ GraphType(g)
      BY <2>1, <2>2 DEF Walker, MomentInv
    <2>4. CASE pc = "done"
      BY <2>1, <2>3, <2>4, DoneOfOne
    <2>5. CASE pc = "integrity"
      BY <2>1, <2>3, <2>5 DEF IsOf
    <2> QED
      BY <2>4, <2>5
  <1>2. Spec => [](WalkInv /\ MomentInv)
    BY InitInv, StepOK, MomentInit, MomentStep, PTL DEF Spec
  <1> QED
    BY <1>1, <1>2, PTL

-----------------------------------------------------------------------------
(* The merge.  A chain has one link for each layer at most, so that the    *)
(* loop of mergeChain can be followed turn by turn.                        *)

\* merged[n] of mergeChain is what n turns of its loop make.
LEMMA Loop ==
  ASSUME NEW links, Len(links) \in 0 .. 5
  PROVE  \E m : /\ mergeChain(links) = m[Len(links)]
                /\ m[0] = NothingMerged
                /\ \A n \in 1 .. Len(links) : m[n] = MergeLink(m[n - 1], links[n])
  <1> DEFINE k == Len(links)
             Turn(m) == [n \in 0 .. k |-> IF n = 0 THEN NothingMerged
                                          ELSE MergeLink(m[n - 1], links[n])]
             a1 == MergeLink(NothingMerged, links[1])
             a2 == MergeLink(a1, links[2])
             a3 == MergeLink(a2, links[3])
             a4 == MergeLink(a3, links[4])
             a5 == MergeLink(a4, links[5])
             w == [n \in 0 .. k |-> IF n = 0 THEN NothingMerged ELSE
                     IF n = 1 THEN a1 ELSE IF n = 2 THEN a2 ELSE
                     IF n = 3 THEN a3 ELSE IF n = 4 THEN a4 ELSE a5]
  <1>1. k \in 0 .. 5
    OBVIOUS
  <1>2. w = Turn(w)
    <2>1. /\ a1 = MergeLink(NothingMerged, links[1]) /\ a2 = MergeLink(a1, links[2])
          /\ a3 = MergeLink(a2, links[3]) /\ a4 = MergeLink(a3, links[4])
          /\ a5 = MergeLink(a4, links[5])
      OBVIOUS
    <2> HIDE DEF k, a1, a2, a3, a4, a5
    <2>2. /\ w[0] = NothingMerged
          /\ 1 <= k => w[1] = a1
          /\ 2 <= k => w[2] = a2
          /\ 3 <= k => w[3] = a3
          /\ 4 <= k => w[4] = a4
          /\ 5 <= k => w[5] = a5
      BY <1>1
    <2>3. w = [n \in 0 .. k |-> w[n]]
      OBVIOUS
    <2> HIDE DEF w
    <2>4. ASSUME NEW n \in 0 .. k
          PROVE  w[n] = IF n = 0 THEN NothingMerged ELSE MergeLink(w[n - 1], links[n])
      <3>1. n = 0 \/ n = 1 \/ n = 2 \/ n = 3 \/ n = 4 \/ n = 5
        BY <1>1
      <3>2. /\ 1 - 1 = 0 /\ 2 - 1 = 1 /\ 3 - 1 = 2 /\ 4 - 1 = 3 /\ 5 - 1 = 4
            /\ n <= k /\ k \in Nat
        BY <1>1
      <3> QED
        BY <2>1, <2>2, <3>1, <3>2
    <2> QED
      BY <2>3, <2>4
  <1> DEFINE m == CHOOSE f : f = Turn(f)
  <1>3. m = Turn(m)
    BY <1>2, Zenon
  <1>4. mergeChain(links) = m[k]
    BY Zenon DEF mergeChain
  <1> HIDE DEF m, k
  <1>5. /\ m[0] = NothingMerged
        /\ \A n \in 1 .. k : m[n] = MergeLink(m[n - 1], links[n])
    BY <1>1, <1>3
  <1> QED
    BY <1>4, <1>5 DEF k

\* The property, of the first n links of a chain: which of them a field is from.
SetIn(c, i, f) == f \in DOMAIN c[i].constraints
SupremeIn(c, i, f) == SetIn(c, i, f) /\ c[i].layer = "constitution"
WinsUpTo(c, n, i, f) ==
  /\ SetIn(c, i, f)
  /\ SupremeIn(c, i, f)
       \/ \A j \in 1 .. n : ~SupremeIn(c, j, f) /\ (j > i => ~SetIn(c, j, f))

\* What the loop has made of them; a field is locked once its source is the
\* Constitution.
MergedUpTo(c, n, m) ==
  /\ DOMAIN m.effective = {f \in Field : \E i \in 1 .. n : SetIn(c, i, f)}
  /\ DOMAIN m.sourceByField = DOMAIN m.effective
  /\ \A f \in Field, i \in 1 .. n :
       WinsUpTo(c, n, i, f) => m.effective[f] = c[i].constraints[f]
  /\ \A f \in DOMAIN m.sourceByField :
       m.sourceByField[f] = "constitution" <=> \E i \in 1 .. n : SupremeIn(c, i, f)

OneConstitution(c) ==
  \A i, j \in DOMAIN c :
    c[i].layer = "constitution" /\ c[j].layer = "constitution" => i = j

FieldsOnly(c) == \A i \in DOMAIN c : DOMAIN c[i].constraints \subseteq Field

\* A link overwrites what is not locked.
LEMMA LinkMerged ==
  ASSUME NEW m, NEW l
  PROVE  LET r == MergeLink(m, l)
             Free(f) == f \in DOMAIN l.constraints
                          /\ ~IsLocked(m.sourceByField, f, l.layer)
         IN /\ DOMAIN r.effective = DOMAIN m.effective \cup {f \in DOMAIN l.constraints : Free(f)}
            /\ DOMAIN r.sourceByField
                 = DOMAIN m.sourceByField \cup {f \in DOMAIN l.constraints : Free(f)}
            /\ \A f \in DOMAIN r.effective :
                 r.effective[f] = IF Free(f) THEN l.constraints[f] ELSE m.effective[f]
            /\ \A f \in DOMAIN r.sourceByField :
                 r.sourceByField[f] = IF Free(f) THEN l.layer ELSE m.sourceByField[f]
  BY DEF MergeLink

\* One turn of the loop.
LEMMA MergeTurn ==
  ASSUME NEW c, NEW n \in Nat, n + 1 \in DOMAIN c, 1 .. n \subseteq DOMAIN c, NEW m,
         OneConstitution(c), FieldsOnly(c), MergedUpTo(c, n, m)
  PROVE  MergedUpTo(c, n + 1, MergeLink(m, c[n + 1]))
  <1> DEFINE r == MergeLink(m, c[n + 1])
             Free(f) == SetIn(c, n + 1, f)
                          /\ ~IsLocked(m.sourceByField, f, c[n + 1].layer)
  <1>1. /\ DOMAIN r.effective = DOMAIN m.effective \cup {f \in DOMAIN c[n + 1].constraints : Free(f)}
        /\ DOMAIN r.sourceByField
             = DOMAIN m.sourceByField \cup {f \in DOMAIN c[n + 1].constraints : Free(f)}
        /\ \A f \in DOMAIN r.effective :
             r.effective[f] = IF Free(f) THEN c[n + 1].constraints[f] ELSE m.effective[f]
        /\ \A f \in DOMAIN r.sourceByField :
             r.sourceByField[f] = IF Free(f) THEN c[n + 1].layer ELSE m.sourceByField[f]
    BY LinkMerged, Zenon DEF SetIn
  <1> HIDE DEF r
  <1>2. 1 .. n + 1 = 1 .. n \cup {n + 1} /\ n + 1 \notin 1 .. n
    OBVIOUS
  <1>3. \A f : Free(f) => f \in Field /\ f \in DOMAIN c[n + 1].constraints
    BY DEF FieldsOnly, SetIn
  <1>4. \A f : SetIn(c, n + 1, f) /\ ~Free(f) =>
               /\ f \in DOMAIN m.sourceByField
               /\ m.sourceByField[f] = "constitution" /\ c[n + 1].layer # "constitution"
    BY DEF IsLocked
  <1>5. DOMAIN r.effective = {f \in Field : \E i \in 1 .. n + 1 : SetIn(c, i, f)}
    BY <1>1, <1>2, <1>3, <1>4 DEF MergedUpTo
  <1>6. DOMAIN r.sourceByField = DOMAIN r.effective
    BY <1>1 DEF MergedUpTo
  <1>7. \A f : Free(f) /\ c[n + 1].layer # "constitution" =>
          ~\E i \in 1 .. n : SupremeIn(c, i, f)
    <2> SUFFICES ASSUME NEW f, Free(f), c[n + 1].layer # "constitution",
                        NEW i \in 1 .. n, SupremeIn(c, i, f)
                 PROVE  FALSE
      OBVIOUS
    <2>1. f \in Field /\ SetIn(c, i, f)
      BY <1>3 DEF SupremeIn
    <2>2. f \in DOMAIN m.sourceByField
      BY <2>1 DEF MergedUpTo
    <2>3. m.sourceByField[f] = "constitution"
      BY <2>2 DEF MergedUpTo
    <2> QED
      BY <2>2, <2>3 DEF IsLocked
  <1>8. ASSUME NEW f \in Field, NEW i \in 1 .. n + 1, WinsUpTo(c, n + 1, i, f)
        PROVE  r.effective[f] = c[i].constraints[f]
    <2>1. f \in DOMAIN r.effective
      BY <1>5, <1>8 DEF WinsUpTo
    <2>2. CASE i = n + 1
      <3>1. Free(f)
        BY <1>2, <1>4, <1>8, <2>2 DEF MergedUpTo, WinsUpTo, SupremeIn
      <3> QED
        BY <1>1, <2>1, <2>2, <3>1
    <2>3. CASE i \in 1 .. n
      <3>1. WinsUpTo(c, n, i, f)
        BY <1>2, <1>8, Zenon DEF WinsUpTo
      <3>2. ~Free(f)
        BY <1>2, <1>7, <1>8, <2>3 DEF WinsUpTo, SupremeIn, OneConstitution
      <3> QED
        BY <1>1, <2>1, <2>3, <3>1, <3>2 DEF MergedUpTo
    <2> QED
      BY <1>2, <2>2, <2>3
  <1>9. ASSUME NEW f \in DOMAIN r.sourceByField
        PROVE  r.sourceByField[f] = "constitution" <=> \E i \in 1 .. n + 1 : SupremeIn(c, i, f)
    <2>1. CASE Free(f)
      <3>1. r.sourceByField[f] = c[n + 1].layer /\ SetIn(c, n + 1, f)
        BY <1>1, <2>1
      <3> QED
        BY <1>2, <1>7, <2>1, <3>1 DEF SupremeIn
    <2>2. CASE ~Free(f)
      <3>1. r.sourceByField[f] = m.sourceByField[f] /\ f \in DOMAIN m.sourceByField
        BY <1>1, <2>2
      <3>2. ~SupremeIn(c, n + 1, f)
        BY <1>4, <2>2 DEF SupremeIn
      <3> QED
        BY <1>2, <3>1, <3>2 DEF MergedUpTo
    <2> QED
      BY <2>1, <2>2
  <1> QED
    BY <1>5, <1>6, <1>8, <1>9 DEF MergedUpTo, r

LEMMA AllMerged ==
  ASSUME NEW c, Len(c) \in 0 .. 5, DOMAIN c = 1 .. Len(c), OneConstitution(c), FieldsOnly(c)
  PROVE  MergedUpTo(c, Len(c), mergeChain(c))
  <1>1. PICK m : /\ mergeChain(c) = m[Len(c)]
                 /\ m[0] = NothingMerged
                 /\ \A n \in 1 .. Len(c) : m[n] = MergeLink(m[n - 1], c[n])
    BY Loop
  <1>2. MergedUpTo(c, 0, m[0])
    <2>1. 1 .. 0 = {}
      OBVIOUS
    <2>2. DOMAIN NothingMerged.effective = {} /\ DOMAIN NothingMerged.sourceByField = {}
      BY DEF NothingMerged
    <2> QED
      BY <1>1, <2>1, <2>2 DEF MergedUpTo
  <1>3. ASSUME NEW n \in Nat, n + 1 \in 1 .. Len(c), MergedUpTo(c, n, m[n])
        PROVE  MergedUpTo(c, n + 1, m[n + 1])
    <2>1. 1 .. n \subseteq DOMAIN c /\ m[n + 1] = MergeLink(m[n], c[n + 1])
      BY <1>1, <1>3
    <2> QED
      BY <1>3, <2>1, MergeTurn
  <1> DEFINE k == Len(c)
             P(n) == MergedUpTo(c, n, m[n])
  <1>4. \A n \in Nat : n + 1 \in 1 .. k /\ P(n) => P(n + 1)
    BY <1>3
  <1>5. P(0) /\ k \in 0 .. 5
    BY <1>2
  <1> HIDE DEF P, k
  <1>6. /\ 1 <= k => P(1)
        /\ 2 <= k => P(2)
        /\ 3 <= k => P(3)
        /\ 4 <= k => P(4)
        /\ 5 <= k => P(5)
    BY <1>4, <1>5
  <1>7. P(k)
    BY <1>5, <1>6
  <1> QED
    BY <1>1, <1>7 DEF P, k

\* A chain in order has no layer twice, and so five links at most.
Rank(layer) == CHOOSE n \in 1 .. 5 : Layers[n] = layer

LEMMA ChainIsShort ==
  ASSUME NEW c \in Seq(ChainLink), Ordered(c)
  PROVE  Len(c) \in 0 .. 5 /\ OneConstitution(c) /\ FieldsOnly(c)
  <1>1. \A m, n \in 1 .. 5 : Layers[m] = Layers[n] => m = n
    BY LayersAre
  <1>2. \A n \in 1 .. 5 : Rank(Layers[n]) = n
    BY <1>1 DEF Rank
  <1>3. \A i, j \in DOMAIN c : i < j =>
          /\ Rank(c[i].layer) \in 1 .. 5 /\ Rank(c[j].layer) \in 1 .. 5
          /\ Rank(c[i].layer) < Rank(c[j].layer)
    BY <1>2 DEF Ordered
  <1> DEFINE rank(i) == Rank(c[i].layer)
  <1>4. \A i, j \in DOMAIN c : i < j =>
          rank(i) \in 1 .. 5 /\ rank(j) \in 1 .. 5 /\ rank(i) < rank(j)
    BY <1>3
  <1>5. DOMAIN c = 1 .. Len(c) /\ Len(c) \in Nat
    OBVIOUS
  <1>6. Len(c) \in 0 .. 5
    <2> SUFFICES ASSUME 6 <= Len(c) PROVE FALSE
      BY <1>5
    <2> HIDE DEF rank
    <2>1. {1, 2, 3, 4, 5, 6} \subseteq DOMAIN c
      BY <1>5
    <2> QED
      BY <1>4, <2>1
  <1>7. OneConstitution(c)
    BY <1>3, <1>5 DEF OneConstitution
  <1>8. FieldsOnly(c)
    <2> SUFFICES ASSUME NEW i \in DOMAIN c PROVE DOMAIN c[i].constraints \subseteq Field
      BY DEF FieldsOnly
    <2>1. c[i] \in ChainLink
      OBVIOUS
    <2>2. PICK u \in URN : c[i].constraints \in Constraints(u)
      BY <2>1 DEF ChainLink
    <2> QED
      BY <2>2 DEF Constraints
  <1> QED
    BY <1>6, <1>7, <1>8

\* The merge of whatever chain a walk returns, over any graph, any edits and any
\* lost answers: the Constitution's fields are locked, the most specific layer
\* that sets another field wins (mergeChain, statute-cascade.js:174).
THEOREM MergeIsRight == Spec => []EffectiveIsCascade
  <1>1. WalkInv => EffectiveIsCascade
    <2> SUFFICES ASSUME WalkInv PROVE EffectiveIsCascade
      OBVIOUS
    <2> DEFINE k == Len(chain)
               m == mergeChain(chain)
    <2>1. chain \in Seq(ChainLink) /\ Ordered(chain)
      BY DEF WalkInv, TypeOK, InOrder
    <2>2. DOMAIN chain = 1 .. k /\ k \in 0 .. 5
      BY <2>1, ChainIsShort
    <2>3. MergedUpTo(chain, k, m)
      BY <2>1, <2>2, ChainIsShort, AllMerged
    <2> HIDE DEF k, m
    <2>4. DOMAIN m.effective =
            {f \in Field : \E i \in DOMAIN chain : f \in DOMAIN chain[i].constraints}
      BY <2>2, <2>3, Zenon DEF MergedUpTo, SetIn
    <2>5. \A f \in Field, i \in DOMAIN chain :
            WinsUpTo(chain, k, i, f) => m.effective[f] = chain[i].constraints[f]
      BY <2>2, <2>3, Zenon DEF MergedUpTo
    <2>6. constitutionFieldsLocked(m) =
            {f \in Field : \E i \in DOMAIN chain : SupremeIn(chain, i, f)}
      BY <2>2, <2>3 DEF MergedUpTo, constitutionFieldsLocked, SupremeIn
    <2> QED
      BY <2>2, <2>4, <2>5, <2>6, Zenon
         DEF EffectiveIsCascade, WinsUpTo, SupremeIn, SetIn, m
  <1> QED
    BY <1>1, Invariance, PTL

=============================================================================

---------------------------- MODULE StatuteCascade ----------------------------
(***************************************************************************)
(* resolveCascade (src/lib/statute-cascade.js): the walk from a persona up *)
(* to the Constitution, one request of the graph client                    *)
(* (src/lib/graph-client.js) per link, and the merge of what it found.     *)
(*                                                                         *)
(* The graph belongs to everybody: other organs insert concepts and        *)
(* bindings and update concepts between any two requests of the walk.      *)
(* Nothing is ever deleted; the client has no operation for it.            *)
(*                                                                         *)
(* A request is a single step, at the moment the graph answers it: what    *)
(* the walker does with the answer depends on nothing but the answer.      *)
(***************************************************************************)
EXTENDS Naturals, Sequences

CONSTANTS
  Category, Domain, Role,  \* URNs of statutes, by their prefix
  Other,        \* URNs of other things a persona is bound to
  Field,        \* fields of payload.constraints
  Seed,         \* the graphs the walk may find
  MaxEdits      \* bound on the edits during the walk

VARIABLES
  concepts,     \* graph: the constraints of each concept there is
  bindings,     \* graph: pairs <<from_urn, to_urn>>
  edits,        \* history: edits since the walk began
  start,        \* history: the graph as the walk found it
  pc,           \* the request awaited, or how the walk ended
  roleUrn, domainUrn, categoryUrn,
  chain,
  lost          \* history: an answer was taken for an empty one

graphVars == <<concepts, bindings, edits>>
vars == <<graphVars, start, pc, roleUrn, domainUrn, categoryUrn, chain, lost>>

none == "none"
persona == "persona"

\* The builders of governance-urn.js; the persona is fixed.
Statute == Category \cup Domain \cup Role
URN == {"constitution", "overrides"} \cup Statute

\* A value names who wrote it and when, so that no two are the same.
Constraints(u) == UNION {[F -> {<<u, n>> : n \in 0 .. MaxEdits}] : F \in SUBSET Field}

Requests == {"constitution", "persona", "role", "domain", "load_category",
             "load_domain", "load_role", "overrides"}

Graph == [concepts |-> concepts, bindings |-> bindings]

ASSUME GraphAssumption ==
  /\ MaxEdits \in Nat
  /\ Category \cap Domain = {} /\ (Category \cup Domain) \cap Role = {}
  /\ {"constitution", "overrides", none, persona} \cap (Statute \cup Other) = {}
  /\ \A g \in Seed :
       /\ DOMAIN g.concepts \subseteq URN
       /\ g.concepts = [u \in DOMAIN g.concepts |-> g.concepts[u]]
       /\ \A u \in DOMAIN g.concepts : g.concepts[u] \in Constraints(u)
       /\ g.bindings \subseteq (URN \cup {persona}) \X (URN \cup Other)

Init ==
  /\ \E g \in Seed : concepts = g.concepts /\ bindings = g.bindings
  /\ start = Graph
  /\ edits = 0
  /\ pc = "constitution"
  /\ roleUrn = none /\ domainUrn = none /\ categoryUrn = none
  /\ chain = <<>>
  /\ lost = FALSE

-----------------------------------------------------------------------------
(* The other organs.                                                       *)

Edit == pc \in Requests /\ edits < MaxEdits /\ edits' = edits + 1

With(u, constraints) ==
  [v \in DOMAIN concepts \cup {u} |-> IF v = u THEN constraints ELSE concepts[v]]

\* A rejected or unreachable insert leaves the graph alone.
insertConcept(u) ==
  /\ Edit /\ u \notin DOMAIN concepts
  /\ \E F \in SUBSET Field :
       concepts' = With(u, [f \in F |-> <<u, edits'>>])
  /\ UNCHANGED <<bindings, start, pc, roleUrn, domainUrn, categoryUrn, chain, lost>>

\* An unknown URN is answered by 404, and null.
updateConcept(u) ==
  /\ Edit /\ u \in DOMAIN concepts
  /\ \E F \in SUBSET Field :
       concepts' = With(u, [f \in F |-> <<u, edits'>>])
  /\ UNCHANGED <<bindings, start, pc, roleUrn, domainUrn, categoryUrn, chain, lost>>

\* Nothing checks that the ends of a binding exist.
insertBinding(from, to) ==
  /\ Edit /\ <<from, to>> \notin bindings
  /\ bindings' = bindings \cup {<<from, to>>}
  /\ UNCHANGED <<concepts, start, pc, roleUrn, domainUrn, categoryUrn, chain, lost>>

-----------------------------------------------------------------------------
(* The requests.  An answer with status 200 whose body cannot be read is   *)
(* null to readJson: no concept, or no rows.  A timeout, a refusal and any *)
(* other status reject.                                                    *)

Row(u) == IF u \in DOMAIN concepts THEN <<concepts[u]>> ELSE <<>>

Answered(true, answer) == lost' = (lost \/ answer # true)

queryConcept(u, row) == row \in {Row(u), <<>>} /\ Answered(Row(u), row)

\* The far ends of the rows that queryBindings finds for sourceUrn, targetUrn.
Targets(u) == {b[2] : b \in {e \in bindings : e[1] = u}}
Sources(u) == {b[1] : b \in {e \in bindings : e[2] = u}}

queryBindings(rows, ends) == ends \in {rows, {}} /\ Answered(rows, ends)

RequestFails ==
  /\ pc \in Requests
  /\ pc' = "rejected"
  /\ UNCHANGED <<graphVars, start, roleUrn, domainUrn, categoryUrn, chain, lost>>

-----------------------------------------------------------------------------
(* walkCascadeChain.                                                       *)

\* Any of the rows that match may come first: the query has no order.
findBindingEndpoint(ends, Prefix) ==
  IF ends \cap Prefix = {} THEN {none} ELSE ends \cap Prefix

Link(layer, u, row) ==
  [i \in DOMAIN row |-> [layer |-> layer, urn |-> u, constraints |-> row[i]]]

\* mutant: chain.unshift
Unshifted(link) == link \o chain

Pushed(link) == chain \o link

\* A concept that need not be there.
ReadIfPresent(u, at, next) ==
  /\ pc = at /\ pc' = next
  /\ \E row \in {Row(u), <<>>} :
       /\ queryConcept(u, row)
       /\ chain' = Pushed(Link(u, u, row))
  /\ UNCHANGED <<graphVars, start, roleUrn, domainUrn, categoryUrn>>

IsMissing(row) == row = <<>>

loadOrThrow(u, layer, at, next) ==
  /\ pc = at
  /\ \E row \in {Row(u), <<>>} :
       /\ queryConcept(u, row)
       /\ IF IsMissing(row)
          THEN pc' = "integrity" /\ UNCHANGED chain
          ELSE pc' = next /\ chain' = Pushed(Link(layer, u, row))
  /\ UNCHANGED <<graphVars, start, roleUrn, domainUrn, categoryUrn>>

QueryPersona ==
  /\ pc = "persona"
  /\ \E ends \in {Targets(persona), {}} :
       /\ queryBindings(Targets(persona), ends)
       /\ roleUrn' \in findBindingEndpoint(ends, Role)
  /\ pc' = IF roleUrn' = none THEN "overrides" ELSE "role"
  /\ UNCHANGED <<graphVars, start, domainUrn, categoryUrn, chain>>

\* mutant: the bindings of the child instead of those to it
ChildrenOf(u) == Targets(u)

ParentsOf(u) == Sources(u)

QueryRole ==
  /\ pc = "role"
  /\ \E ends \in {ParentsOf(roleUrn), {}} :
       /\ queryBindings(ParentsOf(roleUrn), ends)
       /\ domainUrn' \in findBindingEndpoint(ends, Domain)
  /\ pc' = IF domainUrn' = none THEN "load_role" ELSE "domain"
  /\ UNCHANGED <<graphVars, start, roleUrn, categoryUrn, chain>>

QueryDomain ==
  /\ pc = "domain"
  /\ \E ends \in {ParentsOf(domainUrn), {}} :
       /\ queryBindings(ParentsOf(domainUrn), ends)
       /\ categoryUrn' \in findBindingEndpoint(ends, Category)
  /\ pc' = IF categoryUrn' = none THEN "load_domain" ELSE "load_category"
  /\ UNCHANGED <<graphVars, start, roleUrn, domainUrn, chain>>

Walk ==
  \/ ReadIfPresent("constitution", "constitution", "persona")
  \/ QueryPersona \/ QueryRole \/ QueryDomain
  \/ loadOrThrow(categoryUrn, "category", "load_category", "load_domain")
  \/ loadOrThrow(domainUrn, "domain", "load_domain", "load_role")
  \/ loadOrThrow(roleUrn, "role", "load_role", "overrides")
  \/ ReadIfPresent("overrides", "overrides", "done")
  \/ RequestFails

Next ==
  \/ Walk
  \/ \E u \in URN : insertConcept(u) \/ updateConcept(u)
  \/ \E r \in Role \cup Other : insertBinding(persona, r)
  \/ \E d \in Domain, r \in Role : insertBinding(d, r)
  \/ \E c \in Category, d \in Domain : insertBinding(c, d)

Spec == Init /\ [][Next]_vars

-----------------------------------------------------------------------------
(* mergeChain.                                                             *)

\* mutant: nothing is locked
NeverLocked(source, f, layer) == FALSE

IsLocked(source, f, layer) ==
  f \in DOMAIN source /\ source[f] = "constitution" /\ layer # "constitution"

MergeLink(merged, link) ==
  LET free == {f \in DOMAIN link.constraints :
                 ~IsLocked(merged.sourceByField, f, link.layer)}
      Overwrite(map, value) ==
        [f \in free \cup DOMAIN map |-> IF f \in free THEN value[f] ELSE map[f]]
  IN [effective     |-> Overwrite(merged.effective, link.constraints),
      sourceByField |-> Overwrite(merged.sourceByField, [f \in free |-> link.layer])]

NothingMerged == [effective |-> <<>>, sourceByField |-> <<>>]

\* The loop over the links: merged[n] is what it has made of the first n.
mergeChain(links) ==
  LET merged[n \in 0 .. Len(links)] ==
        IF n = 0 THEN NothingMerged ELSE MergeLink(merged[n - 1], links[n])
  IN merged[Len(links)]

constitutionFieldsLocked(merged) ==
  {f \in DOMAIN merged.sourceByField : merged.sourceByField[f] = "constitution"}

-----------------------------------------------------------------------------
Layers == <<"constitution", "category", "domain", "role", "overrides">>

ChainLink ==
  [layer : {Layers[i] : i \in DOMAIN Layers}, urn : URN,
   constraints : UNION {Constraints(u) : u \in URN}]

TypeOK ==
  /\ DOMAIN concepts \subseteq URN
  /\ \A u \in DOMAIN concepts : concepts[u] \in Constraints(u)
  /\ bindings \subseteq (URN \cup {persona}) \X (URN \cup Other)
  /\ edits \in 0 .. MaxEdits
  /\ pc \in Requests \cup {"done", "integrity", "rejected"}
  /\ roleUrn \in Role \cup {none}
  /\ domainUrn \in Domain \cup {none}
  /\ categoryUrn \in Category \cup {none}
  /\ chain \in Seq(ChainLink)
  /\ lost \in BOOLEAN

\* The merge of any chain a walk returns: what the Constitution sets is
\* locked, everything else is the most specific layer's that sets it ("fields
\* are locked ... Everything else follows more-specific-wins",
\* statute-cascade.js:23), and the locked fields are reported as such.
EffectiveIsCascade ==
  pc = "done" =>
    LET merged == mergeChain(chain)
        Set(i, f) == f \in DOMAIN chain[i].constraints
        Supreme(i, f) == Set(i, f) /\ chain[i].layer = "constitution"
        Wins(i, f) ==
          /\ Set(i, f)
          /\ Supreme(i, f) \/ \A j \in DOMAIN chain :
                                ~Supreme(j, f) /\ (j > i => ~Set(j, f))
    IN /\ DOMAIN merged.effective = {f \in Field : \E i \in DOMAIN chain : Set(i, f)}
       /\ \A f \in Field, i \in DOMAIN chain :
            Wins(i, f) => merged.effective[f] = chain[i].constraints[f]
       /\ constitutionFieldsLocked(merged) =
            {f \in Field : \E i \in DOMAIN chain : Supreme(i, f)}

\* What a walk would find in a graph that stands still.
Paths(g) ==
  LET ends(u, Prefix) == {b[1] : b \in {e \in g.bindings : e[2] = u}} \cap Prefix
      first(S) == IF S = {} THEN {none} ELSE S
      roles == {b[2] : b \in {e \in g.bindings : e[1] = persona}} \cap Role
  IN UNION {UNION {{<<k, d, r>> : k \in first(ends(d, Category))}
                     : d \in first(ends(r, Domain))}
              : r \in first(roles)}

Dangling(g, p) == \E i \in DOMAIN p : p[i] # none /\ p[i] \notin DOMAIN g.concepts

LinkIn(g, layer, u) ==
  Link(layer, u, IF u \in DOMAIN g.concepts THEN <<g.concepts[u]>> ELSE <<>>)

ChainOf(g, p) ==
  LinkIn(g, "constitution", "constitution")
    \o LinkIn(g, "category", p[1]) \o LinkIn(g, "domain", p[2])
    \o LinkIn(g, "role", p[3]) \o LinkIn(g, "overrides", "overrides")

\* The links are read one by one, yet an edit that comes between two of them
\* leaves no mixture: the outcome is that of a walk before it or after it.
OneMoment ==
  edits <= 1 /\ ~lost =>
    /\ pc = "done" =>
         \E g \in {start, Graph} : \E p \in Paths(g) :
           ~Dangling(g, p) /\ chain = ChainOf(g, p)
    /\ pc = "integrity" =>
         \E g \in {start, Graph} : \E p \in Paths(g) : Dangling(g, p)

\* A chain is in general to specific order without repetition, and its statutes
\* are bound to each other and to the persona.
Connected ==
  /\ \A i, j \in DOMAIN chain : i < j =>
       \E m, n \in DOMAIN Layers :
         m < n /\ chain[i].layer = Layers[m] /\ chain[j].layer = Layers[n]
  /\ \A i \in DOMAIN chain : chain[i].layer \in {"category", "domain", "role"} =>
       IF chain[i].layer = "role"
       THEN <<persona, chain[i].urn>> \in bindings
       ELSE i < Len(chain) /\ <<chain[i].urn, chain[i + 1].urn>> \in bindings

\* A binding of the persona's path points at a concept that is missing.
PathBroken ==
  \E b \in bindings : \E u \in {roleUrn, domainUrn, categoryUrn} \cap {b[1], b[2]} :
    u \notin DOMAIN concepts

\* However many edits there are and answers lost, a chain that is returned is
\* connected ("Only layers actually reachable via bindings",
\* statute-cascade.js:91), and GraphIntegrityError is thrown only if the path is
\* broken or an answer was lost.
OutcomeJustified ==
  /\ pc = "done" => Connected
  /\ pc = "integrity" /\ ~lost => PathBroken

=============================================================================

------------------------------ MODULE GraphExpand ------------------------------
(***************************************************************************)
(* SqlGraph.expand (graphs.py): paths of relations from the seeds, hop by  *)
(* hop and walk by walk, one statement for the neighbours of each walk.    *)
(* The tenant's lock keeps writers away, but row security is decided by    *)
(* every statement anew: when the reader's membership of a scope expires   *)
(* the later statements see nothing of it.  Relations join entities of     *)
(* one scope; the revisions that hold at the instant asked about are the   *)
(* graph, which the ids of relations and entities order.                   *)
(***************************************************************************)
EXTENDS Integers, Sequences, FiniteSets, SequencesExt, Outcomes

CONSTANTS
  Entity, Relation,   \* ids, in the order of uuids
  Scope,
  ScopeOf,            \* the scope of each entity
  Queries             \* [seeds, direction, maxHops, maxPaths]

ASSUME GraphAssumption ==
  /\ Entity \subseteq Nat /\ IsFiniteSet(Entity)
  /\ Relation \subseteq Nat /\ IsFiniteSet(Relation)
  /\ ScopeOf \in [Entity -> Scope]
  /\ Queries \subseteq [seeds : SUBSET Entity, direction : {"outgoing", "incoming", "both"},
                        maxHops : 1..2, maxPaths : 1..100]

VARIABLES
  graph,       \* of each relation its source and its target
  granted,     \* the scopes whose membership has not expired
  query,
  frontier,    \* the walks whose neighbours are yet to be read, in this hop
  ahead,       \* the walks found in this hop
  hop,
  paths,       \* those found so far
  truncated,
  answered,    \* the entities of the answer
  expanding    \* "idle", "walking", "answered", "refused"

graphVars == <<graph, granted, query, frontier, ahead, hop, paths, truncated, answered,
               expanding>>

Edge == {e \in [source : Entity, target : Entity] : ScopeOf[e.source] = ScopeOf[e.target]}
Walk == [nodes : Seq(Entity), relations : Seq(Relation)]

\* The types of the graph and of the expansion under way.
GraphTypeOK ==
  /\ graph \in [Relation -> Edge] \cup {None}
  /\ granted \subseteq Scope
  /\ query \in Queries \cup {None}
  /\ frontier \in Seq(Walk) /\ ahead \in Seq(Walk) /\ paths \in Seq(Walk)
  /\ hop \in 1..3
  /\ truncated \in BOOLEAN
  /\ answered \subseteq Entity
  /\ expanding \in {"idle", "walking", "answered", "refused"}

GraphInit ==
  /\ graph = None /\ query = None
  /\ granted = Scope
  /\ frontier = <<>> /\ ahead = <<>> /\ paths = <<>>
  /\ hop = 1
  /\ truncated = FALSE
  /\ answered = {}
  /\ expanding = "idle"

-------------------------------------------------------------------------------
\* visible_entities: what a statement sees of these entities now.
Visible(entities) == {e \in entities : ScopeOf[e] \in granted}

Ascending(ids) ==
  [n \in 1..Cardinality(ids) |->
     CHOOSE i \in ids : Cardinality({j \in ids : j < i}) = n - 1]

\* The end that relation r leads to from entity e, in the direction asked for.
LeadsTo(r, e, f) ==
  \/ /\ query.direction \in {"outgoing", "both"}
     /\ graph[r] = [source |-> e, target |-> f]
  \/ /\ query.direction \in {"incoming", "both"}
     /\ graph[r] = [source |-> f, target |-> e]

Visited(f, w) == f \in ToSet(w.nodes)

\* neighbors: the walks one relation longer, in the order of the relations.
Extensions(w) ==
  LET from == Last(w.nodes)
      To(r) == {f \in Visible(Entity) : LeadsTo(r, from, f) /\ ~Visited(f, w)}
      rows  == {r \in Relation : from \in Visible({from}) /\ To(r) # {}}
      Extend(r) == [nodes |-> Append(w.nodes, CHOOSE f \in To(r) : TRUE),
                    relations |-> Append(w.relations, r)]
      order == Ascending(rows)
  IN [n \in DOMAIN order |-> Extend(order[n])]

Expand(q) ==
  LET seeds == Ascending(Visible(q.seeds)) IN
  /\ expanding = "idle"
  /\ graph' \in [Relation -> Edge]
  /\ query' = q
  /\ frontier' = [n \in DOMAIN seeds |-> [nodes |-> <<seeds[n]>>, relations |-> <<>>]]
  /\ answered' = Visible(q.seeds)
  /\ expanding' = "walking"
  /\ UNCHANGED <<granted, ahead, hop, paths, truncated>>

\* One statement: a row more than there is room for means that the answer is cut.
WalkOn ==
  LET more == Extensions(Head(frontier))
      room == query.maxPaths - Len(paths)
      new  == SubSeq(more, 1, IF Len(more) < room THEN Len(more) ELSE room)
  IN
  /\ expanding = "walking"
  /\ ~truncated
  /\ frontier # <<>>
  /\ frontier' = Tail(frontier)
  /\ paths' = paths \o new
  /\ ahead' = ahead \o new
  /\ answered' = answered \cup {Last(w.nodes) : w \in ToSet(new)}
  /\ truncated' = (Len(more) > room)
  /\ UNCHANGED <<graph, granted, query, hop, expanding>>

NextHop ==
  /\ expanding = "walking"
  /\ ~truncated
  /\ frontier = <<>>
  /\ hop < query.maxHops
  /\ hop' = hop + 1
  /\ frontier' = ahead
  /\ ahead' = <<>>
  /\ UNCHANGED <<graph, granted, query, paths, truncated, answered, expanding>>

RecheckedNever == TRUE                      \* mutant: the entities are not read again
Rechecked == Visible(answered) = answered

\* The entities are read once more: graph_invalidated unless all are still there.
AnswerExpansion ==
  /\ expanding = "walking"
  /\ truncated \/ (frontier = <<>> /\ hop = query.maxHops)
  /\ expanding' = IF Rechecked THEN "answered" ELSE "refused"
  /\ UNCHANGED <<graph, granted, query, frontier, ahead, hop, paths, truncated, answered>>

Lapse(s) ==
  /\ s \in granted
  /\ expanding # "answered"
  /\ granted' = granted \ {s}
  /\ UNCHANGED <<graph, query, frontier, ahead, hop, paths, truncated, answered, expanding>>

GraphNext ==
  \/ \E q \in Queries : Expand(q)
  \/ WalkOn \/ NextHop \/ AnswerExpansion
  \/ \E s \in Scope : Lapse(s)

GraphSpec == GraphInit /\ [][GraphNext]_graphVars

-------------------------------------------------------------------------------
\* The reference: the simple paths of at most maxHops relations from visible seeds.
IsPath(nodes, relations) ==
  /\ nodes[1] \in Visible(query.seeds)
  /\ \A m, n \in DOMAIN nodes : nodes[m] = nodes[n] => m = n
  /\ \A n \in DOMAIN relations : LeadsTo(relations[n], nodes[n], nodes[n + 1])

AllPaths == UNION {
  {w \in [nodes : [1..k + 1 -> Visible(Entity)], relations : [1..k -> Relation]] :
     IsPath(w.nodes, w.relations)} : k \in 1..query.maxHops}

\* Shorter paths first, then by their seeds, then by their relations.
Before(v, w) ==
  \/ Len(v.relations) < Len(w.relations)
  \/ /\ Len(v.relations) = Len(w.relations)
     /\ \/ v.nodes[1] < w.nodes[1]
        \/ /\ v.nodes[1] = w.nodes[1]
           /\ \E n \in DOMAIN v.relations :
                /\ v.relations[n] < w.relations[n]
                /\ \A m \in 1..n - 1 : v.relations[m] = w.relations[m]

\* SqlGraph.expand: a delivered expansion is the first maxPaths of all the simple
\* paths, in their order, and says truncated exactly if there are more, even if the
\* reader's membership of a scope expired on the way; its entities are the seeds and
\* those of its paths.
ExpansionIsReference ==
  expanding = "answered" =>
    LET all == AllPaths IN
    /\ Len(paths) <= query.maxPaths
    /\ \A n \in DOMAIN paths :
         paths[n] \in all /\ Cardinality({w \in all : Before(w, paths[n])}) = n - 1
    /\ IF truncated THEN Cardinality(all) > Len(paths) /\ Len(paths) = query.maxPaths
                    ELSE Cardinality(all) = Len(paths)
    /\ answered = Visible(query.seeds) \cup UNION {ToSet(w.nodes) : w \in ToSet(paths)}
===============================================================================

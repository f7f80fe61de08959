------------------------- MODULE IncrementalMatcher -------------------------
(***************************************************************************)
(* IncrementalMatcher (incremental_matcher.h, incremental_matcher.cpp):    *)
(* what one observer remembers of the pattern it watches, and how little   *)
(* it rematches when the graph changes.  What matching finds and depends   *)
(* on is the matcher's affair and a parameter here.                        *)
(***************************************************************************)
EXTENDS NestedRegistry

CONSTANTS Match(_, _, _, _, _), \* subgraphs of a pattern in a graph from a position,
                                \* given what vertices are known and what is cached
          Deps(_, _, _, _, _),  \* their deps
          Starts(_, _, _),      \* the start positions of a pattern
          StartDeps(_, _)       \* deps that announce further start positions

MatchesFrom(p, g, known, cached, positions) ==
    UNION {Match(p, g, known, cached, sp) : sp \in positions}

DepsFrom(p, g, known, cached, positions) ==
    UNION {Deps(p, g, known, cached, sp) \X {sp} : sp \in positions}

(* The memory of a matcher that is not in use. *)
Blank == [last     |-> {},   \* last_sp_to_sgs_, the subgraphs found from each position
          deps     |-> {},   \* start_to_deps_, as pairs of dep and start position
          triggers |-> {}]   \* dep_to_positions_, as such pairs

(* The keys of dep_to_positions_; the entries that become empty are erased. *)
Watched(m) == {pair[1] : pair \in m.triggers}

Reinitialize(p, g, known, cached) ==
    LET positions == Starts(p, g, known)
        deps      == DepsFrom(p, g, known, cached, positions)
    IN  [last     |-> MatchesFrom(p, g, known, cached, positions),
         deps     |-> deps,
         triggers |-> deps \cup StartDeps(p, known)]

-----------------------------------------------------------------------------
(* What the graph's changes are observed as (collect_observations). *)
Observations(c) ==
    (UNION {{NewVertex, NewVertexOfType(TypeOf[v])} : v \in c.addedVertices})
      \cup {ParticularVertex(v) : v \in c.addedVertices \cup c.removedVertices}
      \cup (UNION {{NewEdge, NewEdgeWithLabel(e[2])} : e \in c.addedEdges})
      \cup (UNION {{EdgeFrom(e[1]), EdgeFromWithLabel(e[1], e[2]),
                    EdgeTo(e[3]), EdgeToWithLabel(e[3], e[2]), ParticularEdge(e)} :
                      e \in c.addedEdges \cup c.removedEdges})

(* The added vertices and edges that come with an observation. *)
AddedVertices(d, c) ==
    {v \in c.addedVertices : d \in {NewVertex, NewVertexOfType(TypeOf[v])}}
AddedEdges(d, c) ==
    {e \in c.addedEdges : d \in {NewEdge, NewEdgeWithLabel(e[2])}}

(* The positions that a start position stands for; an AbsentPosition is    *)
(* not looked at.                                                          *)
PositionsOf(sp, d, c) ==
    CASE sp = EveryAddedVertex -> {Core(v) : v \in AddedVertices(d, c)}
      [] sp = EveryAddedEdge   -> {Orbit(v) : v \in
                                    UNION {{e[1], e[3]} : e \in AddedEdges(d, c)}}
      [] sp[1] = "absent"      -> {}
      [] OTHER                 -> {sp}

(* The first loop of match_incrementally, for the observations it is given. *)
Rematched(m, observed, c) ==
    UNION {PositionsOf(pair[2], pair[1], c) :
             pair \in {q \in m.triggers : q[1] \in observed}}

DepsAt(m, positions) == {pair \in m.deps : pair[2] \in positions}

(* The rest of it: the positions are matched anew, and with resubscribe()  *)
(* depend on what they depend on now and on nothing else.                  *)
MatchIncrementally(m, p, g, known, cached, positions) ==
    LET deps == DepsFrom(p, g, known, cached, positions)
        old  == DepsAt(m, positions)
    IN  [last     |-> {s \in m.last : s.start \notin positions}
                        \cup MatchesFrom(p, g, known, cached, positions),
         deps     |-> (m.deps \ old) \cup deps,
         triggers |-> (m.triggers \ (old \ deps)) \cup deps]

-----------------------------------------------------------------------------
(* A variant that looks at what there is now only. *)
ChangesOfCurrent(last, curr) ==
    IF Cardinality(curr) = 1
      THEN {<<"on_change", s>> : s \in curr \ last}
      ELSE {<<"on_delete", s>> : s \in last \ curr}
             \cup {<<"on_create", s>> : s \in curr \ last}

(* find_subgraph_changes: what is reported of the subgraphs with a start   *)
(* position and refs.  A single one that takes the place of a single one   *)
(* is that one changed, of which the handler is told what it is now.       *)
ChangesOf(last, curr) ==
    IF Cardinality(last) = 1 /\ Cardinality(curr) = 1
      THEN {<<"on_change", s>> : s \in curr \ last}
      ELSE {<<"on_delete", s>> : s \in last \ curr}
             \cup {<<"on_create", s>> : s \in curr \ last}

SubgraphChanges(last, curr, positions) ==
    LET keys == {<<s.start, s.refs>> : s \in last \cup curr}
        at(ss, key) == {s \in ss : <<s.start, s.refs>> = key}
    IN  UNION {ChangesOf(at(last, key), at(curr, key)) :
                 key \in {k \in keys : k[1] \in positions}}
=============================================================================

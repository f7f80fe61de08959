---------------------------- MODULE PathMatching ----------------------------
(***************************************************************************)
(* Matcher and StartPositionFinder (matcher.cpp, start_positions.cpp) for  *)
(* paths, which are vertices and edges one after the other: the subgraphs  *)
(* that a path has in a graph, where to look for them, and the             *)
(* dependencies, which are what may change them.                           *)
(*                                                                         *)
(* A graph is [vertices, edges].  Matching starts at a position with what  *)
(* names mean so far, refs as in Refs; it returns the drafts of subgraphs  *)
(* that it found and their deps.  The context, fixed while a plan is       *)
(* matched from a start position, is                                       *)
(*   graph, ids     the graph, and the vertices that have an ID,           *)
(*   origin         the start position, to which all deps belong,          *)
(*   first          MatchMode::First: one match is enough,                 *)
(*   cached         the subgraphs that the NestedExpressionRegistry has, by *)
(*                  their starts.                                          *)
(* MatchMode::RefsOnly, which spares copies of vertices and edges that are *)
(* not used, makes no difference here.                                     *)
(***************************************************************************)
EXTENDS Expressions, Refs

Context(g, ids, cached, origin) ==
    [graph |-> g, ids |-> ids, cached |-> cached, origin |-> origin, first |-> FALSE]

Draft(at, refs) == [ends |-> {at}, vertices |-> {}, edges |-> {}, refs |-> refs]

Found(drafts, deps) == [found |-> drafts, deps |-> deps]
Nothing             == Found({}, {})

Also(deps, result) == Found(result.found, deps \cup result.deps)

(* What was found after these vertices and edges. *)
With(vertices, edges, result) ==
    Found({[d EXCEPT !.vertices = @ \cup vertices, !.edges = @ \cup edges] : d \in result.found},
          result.deps)

(* Results one after the other, or as many of them as it takes to find     *)
(* something.                                                              *)
InTurn(first, results) ==
    LET sofar[n \in 0..Len(results)] ==
          IF n = 0 THEN Nothing
            ELSE LET before == sofar[n - 1]
                     next   == results[n]
                 IN  IF first /\ before.found # {}
                       THEN before
                       ELSE Found(before.found \cup next.found, before.deps \cup next.deps)
    IN  sofar[Len(results)]

Satisfies(v, test) == test \in {Anything, v, TypeOf[v]}

Labelled(edges, labels) == {e \in edges : labels = Anything \/ e[2] \in labels}

-----------------------------------------------------------------------------
(* The items of a path, in nested loops: what is found from a position on, *)
(* given what the rest of the path finds.                                  *)

(* match_vertex, and the rest from its orbit. *)
VertexThen(c, item, rest) ==
    [at \in Position |-> [refs \in SUBSET Literal |->
        LET v == at[2]
            binding == IF item.ref = Unnamed THEN "already set" ELSE Binding(refs, item.ref, v)
            set == IF binding = "possible" THEN CopyAndSet(refs, item.ref, v) ELSE refs
        IN  IF /\ at = Core(v) /\ v \in c.graph.vertices
               /\ Satisfies(v, item.test) /\ binding # "impossible"
              THEN Also(IF at = c.origin THEN {ParticularVertex(v)} ELSE {},
                        With({v}, {}, rest[Orbit(v)][set]))
              ELSE Nothing]]

(* The edges from and to v by which an edge may be followed. *)
Out(c, edge, v) == {e \in Labelled(c.graph.edges, edge.forward)  : e[1] = v}
Into(c, edge, v) == {e \in Labelled(c.graph.edges, edge.backward) : e[3] = v}

OutDeps(edge, v) == IF edge.forward = Anything THEN {EdgeFrom(v)}
                    ELSE {EdgeFromWithLabel(v, l) : l \in edge.forward}
IntoDeps(edge, v) == IF edge.backward = Anything THEN {EdgeTo(v)}
                     ELSE {EdgeToWithLabel(v, l) : l \in edge.backward}

(* A way to follow an edge from v, its deps and the edges and vertices it  *)
(* leads to; for_each_edge_match tries them in this order.                 *)
Ways(c, edge, v) ==
    LET out  == Out(c, edge, v)
        into == Into(c, edge, v)
        ahead  == [deps |-> OutDeps(edge, v), steps |-> {[edges |-> {e}, to |-> e[3]] : e \in out}]
        behind == [deps |-> IntoDeps(edge, v), steps |-> {[edges |-> {e}, to |-> e[1]] : e \in into}]
        pairs(S) == <<[deps |-> OutDeps(edge, v) \cup IntoDeps(edge, v),
                       steps |-> {[edges |-> {p[1], p[2]}, to |-> p[1][3]] : p \in S}]>>
    IN  CASE edge.direction = "forward"  -> <<ahead>>
          [] edge.direction = "backward" -> <<behind>>
          [] edge.direction = "any"      -> <<ahead, behind>>
          [] edge.direction = "both"     -> pairs({p \in out \X into : p[1][3] = p[2][1]})
          [] edge.direction = "both symmetric" ->
                pairs({p \in out \X into : p[1][3] = p[2][1] /\ p[1][2] = p[2][2]})

(* The steps of a way, and the rest from the cores they lead to. *)
Follow(c, way, refs, rest) ==
    LET steps == SetToSeq(way.steps)
    IN  Also(way.deps,
             InTurn(c.first, [i \in DOMAIN steps |->
                                With({}, steps[i].edges, rest[Core(steps[i].to)][refs])]))

(* for_each_edge_match, from the orbit of a vertex. *)
EdgeThen(c, edge, rest) ==
    [at \in Position |-> [refs \in SUBSET Literal |->
        LET ways == Ways(c, edge, at[2])
        IN  IF at[1] = "orbit"
              THEN InTurn(c.first, [i \in DOMAIN ways |-> Follow(c, ways[i], refs, rest)])
              ELSE Nothing]]

(* add_particular_edge_deps, for an edge from v to w. *)
ParticularEdgeDeps(edge, v, w) ==
    (CASE edge.direction = "backward" -> {}
       [] edge.direction # "backward" /\ edge.forward = Anything -> {EdgeFrom(v)}
       [] edge.direction # "backward" /\ edge.forward # Anything ->
            {ParticularEdge(<<v, l, w>>) : l \in edge.forward})
    \cup
    (CASE edge.direction = "forward" -> {}
       [] edge.direction # "forward" /\ edge.backward = Anything -> {EdgeTo(v)}
       [] edge.direction # "forward" /\ edge.backward # Anything ->
            {ParticularEdge(<<w, l, v>>) : l \in edge.backward})

(* match_edge_to_vertex: for an edge to a known vertex, only the edges     *)
(* between the two are looked at; until a placeholder's value has an ID,   *)
(* there are none.                                                         *)
Between(way, w) == [deps |-> {}, steps |-> {s \in way.steps : s.to = w}]

EdgeToThen(c, item, rest) ==
    [at \in Position |-> [refs \in SUBSET Literal |->
        LET vertex == item.vertex
            ways   == Ways(c, item.edge, at[2])
            after  == VertexThen(c, vertex, rest)
            set    == {l.value : l \in {m \in refs : m.name = vertex.ref /\ ~m.negative}}
            to     == IF vertex.test \in Vertex THEN {vertex.test} ELSE set
        IN  CASE at[1] = "core" -> Nothing
              [] at[1] = "orbit" /\ vertex.test \in Vertex \ c.ids ->
                    Found({}, {ParticularVertex(vertex.test)})
              [] at[1] = "orbit" /\ vertex.test \notin Vertex \ c.ids /\ to = {} ->
                    EdgeThen(c, item.edge, after)[at][refs]
              [] at[1] = "orbit" /\ vertex.test \notin Vertex \ c.ids /\ to # {} ->
                    LET w == CHOOSE x \in to : TRUE
                    IN  Also(ParticularEdgeDeps(item.edge, at[2], w),
                             InTurn(c.first, [i \in DOMAIN ways |->
                                                Follow(c, Between(ways[i], w), refs, after)]))]]

ItemThen(c, item, rest) ==
    CASE item.op = "vertex"  -> VertexThen(c, item, rest)
      [] item.op = "edge"    -> EdgeThen(c, item, rest)
      [] item.op = "edge to" -> EdgeToThen(c, item, rest)

(* What the last n items find. *)
LastItems(c, items) ==
    LET last[n \in 0..Len(items)] ==
          IF n = 0
            THEN [at \in Position |-> [refs \in SUBSET Literal |-> Found({Draft(at, refs)}, {})]]
            ELSE ItemThen(c, items[Len(items) - (n - 1)], last[n - 1])
    IN  last

MatchPath(c, items, at, refs) == LastItems(c, items)[Len(items)][at][refs]

-----------------------------------------------------------------------------
(* match_concatenation_tail: what the last n operands find, given what each *)
(* of them finds from a position on.  Any match of an operand may be the   *)
(* one that is continued.                                                  *)
LastOperands(first, operands) ==
    LET last[n \in 1..Len(operands)] ==
          IF n = 1
            THEN operands[Len(operands)]
            ELSE [at \in Position |-> [refs \in SUBSET Literal |->
                    LET head  == operands[Len(operands) - (n - 1)][at][refs]
                        nexts == SetToSeq({next \in head.found \X UNION {d.ends : d \in head.found} :
                                             next[2] \in next[1].ends})
                        tail(d, end) == With(d.vertices, d.edges, last[n - 1][end][d.refs])
                    IN  Also(head.deps,
                             InTurn(first, [i \in DOMAIN nexts |-> tail(nexts[i][1], nexts[i][2])]))]]
    IN  last

Concatenation(first, operands) == LastOperands(first, operands)[Len(operands)]

-----------------------------------------------------------------------------
(* The whole pattern. *)

(* expand_negatives: a name that is only said not to be some vertices is,  *)
(* in turn, each of the others, whichever there are.  That depends on all  *)
(* that are there (where one of several names has no vertex left, the code *)
(* may record fewer of them, for no match).                                *)
Variants(g, refs) ==
    {RestrictedTo(refs, {l.name : l \in refs} \ ExcludedNames(refs))
       \cup {Is(name, f[name]) : name \in ExcludedNames(refs)} :
         f \in {h \in [ExcludedNames(refs) -> g.vertices] :
                  \A name \in DOMAIN h : h[name] \notin ExcludedValues(refs, name)}}

Narrowed(result) == {d \in result.found : HasNegatives(d.refs)}

Expanded(g, result) ==
    (result.found \ Narrowed(result))
      \cup UNION {{[d EXCEPT !.refs = refs] : refs \in Variants(g, d.refs)} : d \in Narrowed(result)}

ExpandNegatives(g, result) ==
    LET used == {v \in g.vertices :
                   \E d \in Narrowed(result) : \E name \in ExcludedNames(d.refs) :
                      v \notin ExcludedValues(d.refs, name)}
        deps == IF Narrowed(result) = {} THEN {} ELSE {NewVertex} \cup {ParticularVertex(v) : v \in used}
    IN  Found(Expanded(g, result), result.deps \cup deps)

NothingCached == [start \in {} |-> {}]

SubgraphsFrom(position, drafts) ==
    {[start |-> position, ends |-> d.ends, vertices |-> d.vertices,
      edges |-> d.edges, refs |-> d.refs] : d \in drafts}

-----------------------------------------------------------------------------
(* FindStartPositionsVisitor, for the vertex, edge or noop by which a      *)
(* pattern begins.                                                         *)

(* The labels by which starts are found; for a pair of edges, those of one *)
(* of the two, preferably if it has any.                                   *)
StartsBackward(e) ==
    \/ e.direction = "backward"
    \/ /\ e.direction \in {"both", "both symmetric"}
       /\ e.forward = Anything /\ e.backward # Anything
StartLabels(e) == IF StartsBackward(e) THEN e.backward ELSE e.forward

(* A placeholder's value has a position as soon as it has an ID, present   *)
(* or not.                                                                 *)
PositionsAt(e, g, ids) ==
    LET edges == Labelled(g.edges, StartLabels(e))
    IN  CASE e.op = "vertex" /\ e.test \in Vertex -> {Core(v) : v \in {e.test} \cap ids}
          [] e.op = "vertex" /\ e.test \notin Vertex ->
                {Core(v) : v \in {w \in g.vertices : Satisfies(w, e.test)}}
          [] e.op = "noop" -> UNION {{Core(v), Orbit(v)} : v \in g.vertices}
          [] e.op = "edge" /\ StartLabels(e) = Anything -> {Orbit(v) : v \in g.vertices}
          [] e.op = "edge" /\ StartLabels(e) # Anything ->
                {Orbit(f[1]) : f \in {h \in edges : ~StartsBackward(e)}}
                  \cup {Orbit(f[3]) : f \in {h \in edges : StartsBackward(e) \/ e.direction = "any"}}

(* What announces further positions. *)
PositionDepsAt(e, ids) ==
    CASE e.op = "vertex" /\ e.test \in Vertex ->
            {<<ParticularVertex(v), AbsentPosition(v)>> : v \in {e.test} \ ids}
      [] e.op = "vertex" /\ e.test \in TypeName -> {<<NewVertexOfType(e.test), EveryAddedVertex>>}
      [] e.op = "noop" \/ (e.op = "vertex" /\ e.test = Anything) -> {<<NewVertex, EveryAddedVertex>>}
      [] e.op = "edge" /\ StartLabels(e) = Anything -> {<<NewEdge, EveryAddedEdge>>}
      [] e.op = "edge" /\ StartLabels(e) # Anything ->
            {<<NewEdgeWithLabel(l), EveryAddedEdge>> : l \in StartLabels(e)}
=============================================================================

--------------------------- MODULE MatchingSafety ---------------------------
(***************************************************************************)
(* Patterns matched in a graph that changes, as Worker::handleMatch does.  *)
(***************************************************************************)
EXTENDS Matching, PatternMeaning

CONSTANTS Edge,      \* the edges that clients may add
          Patterns   \* the patterns that they match

VARIABLES graph,   \* the vertices and edges that are present
          known    \* vertices that have an ID

vars == <<graph, known>>

TypeOK ==
    /\ graph.vertices \subseteq known /\ known \subseteq Vertex
    /\ graph.edges \subseteq Edge
    /\ \A e \in graph.edges : {e[1], e[3]} \subseteq graph.vertices

Init ==
    /\ graph = [vertices |-> {}, edges |-> {}]
    /\ known = {}

AddVertex(v) ==
    /\ graph' = [graph EXCEPT !.vertices = @ \cup {v}]
    /\ known' = known \cup {v}

(* A variant that leaves the edges. *)
RemoveVertexOnly(v) ==
    /\ graph' = [graph EXCEPT !.vertices = @ \ {v}]
    /\ UNCHANGED known

RemoveVertex(v) ==
    /\ graph' = [vertices |-> graph.vertices \ {v},
                 edges    |-> {e \in graph.edges : v \notin {e[1], e[3]}}]
    /\ UNCHANGED known

AddEdge(e) ==
    /\ {e[1], e[3]} \subseteq graph.vertices
    /\ graph' = [graph EXCEPT !.edges = @ \cup {e}]
    /\ UNCHANGED known

RemoveEdge(e) ==
    /\ graph' = [graph EXCEPT !.edges = @ \ {e}]
    /\ UNCHANGED known

Next ==
    \/ \E v \in Vertex : AddVertex(v) \/ RemoveVertex(v)
    \/ \E e \in Edge : AddEdge(e) \/ RemoveEdge(e)

Spec == Init /\ [][Next]_vars

-----------------------------------------------------------------------------
Fragment(s) == [ends |-> s.ends, vertices |-> s.vertices, edges |-> s.edges]

Agrees(names, refs) == \A l \in refs : ~l.negative /\ names[l.name] = l.value

(* Matching finds what the pattern means, whatever values its names are    *)
(* given and wherever it may begin: regions of refs, cells, exclusions,    *)
(* plans for bound names, the first match being enough, and the choice of  *)
(* start positions are only ways to find the same (Matcher::match, Planner,*)
(* StartPositionFinder).                                                   *)
FindsWhatIsMeant ==
    \A e \in Patterns :
        LET found == Matched(e, graph, known)
        IN  \A names \in [Names(e) -> graph.vertices], v \in Vertex :
                \A at \in {Core(v), Orbit(v)} :
                    {Fragment(s) : s \in {t \in found : t.start = at /\ Agrees(names, t.refs)}}
                      = IF v \in known THEN Meaning(e, e, graph, names, at) ELSE {}
=============================================================================

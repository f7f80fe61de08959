---------------------------- MODULE GraphSafety ----------------------------
(***************************************************************************)
(* What the containers of a graph must keep true together, the layers that *)
(* the undo logs encode, and the loops that read the logs.                 *)
(***************************************************************************)
EXTENDS Graph

Sequence == INSTANCE SequencesExt

(* The states at the last commit and at the last apply, read back from the *)
(* present state and the logs.                                             *)
AppliedVertices   == Undo(present, vlog, vapplied)
AppliedEdges      == Undo(forward, elog, eapplied)
CommittedVertices == Undo(present, vlog, 0)
CommittedEdges    == Undo(forward, elog, 0)

EndsIn(es, vs) == \A e \in es : e[1] \in vs /\ e[3] \in vs

(* Every edge joins two present vertices, and so it was at the last apply  *)
(* and at the last commit: whatever rollback() returns to has no dangling  *)
(* edge, although it restores vertices and edges from two separate logs    *)
(* (Graph::rollback, remove_edges_of_vertex).                              *)
NoDanglingEdges ==
    /\ EndsIn(forward, present)
    /\ EndsIn(AppliedEdges, AppliedVertices)
    /\ EndsIn(CommittedEdges, CommittedVertices)

(* "the forward and inverse trunks are kept in sync" (edges_container.h):  *)
(* incoming and outgoing queries always see the same edges, also after a   *)
(* rollback that replays the log through insert() and erase().             *)
TrunksMirror == inverse = Mirrored(forward)

(* The index by type name holds exactly the present vertices of each type. *)
TypeIndexExact ==
    \A t \in TypeName : byType[t] = {v \in present : TypeOf[v] = t}

(* "Only actual changes are logged, so changes of a particular vertex      *)
(* alternate between adding and removing" (iter_just_changed of both       *)
(* containers), and the last of them agrees with the present state.        *)
LogsAlternate == Alternates(vlog, present) /\ Alternates(elog, forward)

(* The graph behaves as three copies of its vertices and edges would: the  *)
(* changes apply() reports are exactly the difference between the present  *)
(* and the applied copy, commit() keeps what is not applied yet, and       *)
(* rollback() forgets that too.                                            *)
Layers == INSTANCE GraphTransactions WITH
    present   <- [vertices |-> present, edges |-> forward],
    applied   <- [vertices |-> AppliedVertices, edges |-> AppliedEdges],
    committed <- [vertices |-> CommittedVertices, edges |-> CommittedEdges]

Transactions == Layers!Spec

-----------------------------------------------------------------------------
(* The actions state the outcome of the loops over a log in closed form.   *)
(* Here the loops are run, entry by entry: step[entry][state] is what one  *)
(* round makes of the state.                                               *)
Loop(step, start, entries) ==
    LET after[n \in 0..Len(entries)] ==
          IF n = 0 THEN start ELSE step[entries[n]][after[n - 1]]
    IN  after[Len(entries)]

(* set_present(it->vertex, !it->added) *)
UndoVertex ==
    [entry \in Change(Vertex) |->
     [s \in [present : SUBSET Vertex, byType : [TypeName -> SUBSET Vertex]] |->
        LET v == entry.item
            ofType == s.byType[TypeOf[v]]
        IN  IF entry.added
              THEN [present |-> s.present \ {v},
                    byType  |-> [s.byType EXCEPT ![TypeOf[v]] = ofType \ {v}]]
              ELSE [present |-> s.present \cup {v},
                    byType  |-> [s.byType EXCEPT ![TypeOf[v]] = ofType \cup {v}]]]]

(* erase() or insert(), which touch inverse_ only if forward_ changes *)
UndoEdge ==
    [entry \in Change(Edge) |->
     [s \in [forward : SUBSET Edge, inverse : SUBSET Edge] |->
        LET e == entry.item
        IN  CASE entry.added /\ e \in s.forward ->
                   [forward |-> s.forward \ {e}, inverse |-> s.inverse \ {Mirror(e)}]
              [] ~entry.added /\ e \notin s.forward ->
                   [forward |-> s.forward \cup {e}, inverse |-> s.inverse \cup {Mirror(e)}]
              [] OTHER -> s]]

(* rollback() leaves the vertices, their index and both trunks as the      *)
(* loops from the last log entry to the first do, although these loops     *)
(* revisit items and know nothing of first entries.                        *)
RollbackRunsTheLoop ==
    [][ Rollback =>
        /\ [present |-> present', byType |-> byType']
              = Loop(UndoVertex, [present |-> present, byType |-> byType],
                     Sequence!Reverse(vlog))
        /\ [forward |-> forward', inverse |-> inverse']
              = Loop(UndoEdge, [forward |-> forward, inverse |-> inverse],
                     Sequence!Reverse(elog))
      ]_vars

(* The map first_and_last, and what an entry does to it. *)
FlagsOf(Item) == UNION {[seen -> BOOLEAN \X BOOLEAN] : seen \in SUBSET Item}
Scan(Item) ==
    [entry \in Change(Item) |->
     [s \in FlagsOf(Item) |->
        [x \in DOMAIN s \cup {entry.item} |->
            CASE x # entry.item   -> s[x]
              [] x \notin DOMAIN s -> <<entry.added, entry.added>>
              [] OTHER            -> <<s[x][1], entry.added>>]]]
Scanned(Item, log, applied, added) ==
    LET s == Loop(Scan(Item), <<>>, SubSeq(log, applied + 1, Len(log)))
    IN  {x \in DOMAIN s : s[x] = <<added, added>>}

(* apply() reports what iter_just_changed() makes of one pass over the     *)
(* log, in which an item's flags are overwritten as often as it is seen.   *)
ApplyRunsTheLoop ==
    [][ Apply => changes' =
          [addedVertices   |-> Scanned(Vertex, vlog, vapplied, TRUE),
           removedVertices |-> Scanned(Vertex, vlog, vapplied, FALSE),
           addedEdges      |-> Scanned(Edge, elog, eapplied, TRUE),
           removedEdges    |-> Scanned(Edge, elog, eapplied, FALSE)]
      ]_vars
=============================================================================

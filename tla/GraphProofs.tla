----------------------------- MODULE GraphProofs -----------------------------
(***************************************************************************)
(* Proofs about Graph, for any vertices, types and labels and logs of any  *)
(* length: the invariants of GraphSafety and the refinement of             *)
(* GraphTransactions.  Each container is treated on its own first: its     *)
(* invariant is preserved by every operation of the container, and every   *)
(* operation moves the three layers that the log encodes as the abstract   *)
(* specification says.  The graph's part is then about layers only.        *)
(***************************************************************************)
EXTENDS GraphSafety, UndoLogProofs

VerticesInv == VerticesTypeOK /\ TypeIndexExact /\ Alternates(vlog, present)

(* A log of changes of some items is one of more items. *)
LEMMA ChangesOfMore ==
  ASSUME NEW S, NEW T, S \subseteq T, NEW s \in Seq(Change(S))
  PROVE  s \in Seq(Change(T))
<1>1. Change(S) \subseteq Change(T)
  BY DEF Change
<1>2. s \in [1..Len(s) -> Change(S)] /\ Len(s) \in Nat
  BY LenProperties
<1>3. s \in [1..Len(s) -> Change(T)]
  BY <1>1, <1>2
<1>. QED
  BY <1>2, <1>3

(* set_present and the log entry that its callers push. *)
LEMMA SetPresentPreserves ==
  ASSUME VerticesInv, known \subseteq known', known' \subseteq Vertex,
         NEW v \in known', NEW isPresent \in BOOLEAN,
         isPresent <=> v \notin present,
         SetPresent(v, isPresent), vapplied' = vapplied
  PROVE  /\ VerticesInv'
         /\ present' = IF isPresent THEN present \cup {v} ELSE present \ {v}
         /\ AppliedVertices' = AppliedVertices
         /\ CommittedVertices' = CommittedVertices
<1>1. vlog \in Seq(Change(known'))
  BY ChangesOfMore DEF VerticesInv, VerticesTypeOK
<1>2. present' = IF isPresent THEN present \cup {v} ELSE present \ {v}
  BY DEF SetPresent
<1>3. vlog' = Append(vlog, [item |-> v, added |-> isPresent])
  BY DEF SetPresent
<1>4. Logs(known', vlog, present, vlog', present')
  <2>1. Alternates(vlog, present)
    BY DEF VerticesInv
  <2>2. CASE isPresent = TRUE
    <3>1. v \notin present /\ present' = present \cup {v}
      BY <1>2, <2>2
    <3>2. vlog' = Append(vlog, [item |-> v, added |-> TRUE])
      BY <1>3, <2>2
    <3>. QED
      BY <1>1, <2>1, <3>1, <3>2, LoggedAddition
  <2>3. CASE isPresent = FALSE
    <3>1. v \in present /\ present' = present \ {v}
      BY <1>2, <2>3
    <3>2. vlog' = Append(vlog, [item |-> v, added |-> FALSE])
      BY <1>3, <2>3
    <3>. QED
      BY <1>1, <2>1, <3>1, <3>2, LoggedRemoval
  <2>. QED
    BY <2>2, <2>3
<1>5. vapplied \in 0..Len(vlog) /\ Len(vlog) \in Nat /\ Len(vlog') \in Nat
  BY <1>1, <1>4, LenProperties DEF Logs, VerticesInv, VerticesTypeOK
<1>6. VerticesTypeOK'
  <2>1. present' \subseteq known'
    BY <1>2 DEF VerticesInv, VerticesTypeOK
  <2>2. byType' \in [TypeName -> SUBSET Vertex]
    BY DEF SetPresent, VerticesInv, VerticesTypeOK
  <2>3. vapplied' \in 0..Len(vlog')
    BY <1>4, <1>5 DEF Logs
  <2>. QED
    BY <1>4, <2>1, <2>2, <2>3 DEF Logs, VerticesTypeOK
<1>7. TypeIndexExact'
  <2>1. ASSUME NEW t \in TypeName
        PROVE  byType'[t] = {u \in present' : TypeOf[u] = t}
    BY <1>2 DEF SetPresent, VerticesInv, VerticesTypeOK, TypeIndexExact
  <2>. QED
    BY <2>1 DEF TypeIndexExact
<1>8. AppliedVertices' = AppliedVertices /\ CommittedVertices' = CommittedVertices
  BY <1>4, <1>5 DEF Logs, AppliedVertices, CommittedVertices
<1>. QED
  BY <1>2, <1>4, <1>6, <1>7, <1>8 DEF Logs, VerticesInv

(* add_vertex: no two additions of a vertex follow each other in the log. *)
LEMMA VerticesAddPreserves ==
  ASSUME VerticesInv, NEW v \in Vertex, VerticesAdd(v)
  PROVE  /\ VerticesInv'
         /\ present' = present \cup {v}
         /\ AppliedVertices' = AppliedVertices
         /\ CommittedVertices' = CommittedVertices
<1>1. /\ known \subseteq known' /\ known' \subseteq Vertex /\ v \in known'
      /\ vapplied' = vapplied
  BY DEF VerticesAdd, VerticesInv, VerticesTypeOK
<1>2. CASE v \in present /\ UNCHANGED <<present, byType, vlog>>
  <2>1. vlog' \in Seq(Change(known'))
    BY <1>1, <1>2, ChangesOfMore DEF VerticesInv, VerticesTypeOK
  <2>. QED
    BY <1>1, <1>2, <2>1 DEF VerticesInv, VerticesTypeOK, TypeIndexExact,
                            AppliedVertices, CommittedVertices
<1>3. CASE v \notin present /\ SetPresent(v, TRUE)
  BY <1>1, <1>3, SetPresentPreserves
<1>. QED
  BY <1>2, <1>3 DEF VerticesAdd

(* discard_vertex: nor do two removals. *)
LEMMA VerticesDiscardPreserves ==
  ASSUME VerticesInv, NEW v \in Vertex, VerticesDiscard(v)
  PROVE  /\ VerticesInv'
         /\ present' = present \ {v}
         /\ AppliedVertices' = AppliedVertices
         /\ CommittedVertices' = CommittedVertices
<1>1. known' = known /\ known \subseteq Vertex /\ vapplied' = vapplied
  BY DEF VerticesDiscard, VerticesInv, VerticesTypeOK
<1>2. CASE v \notin present /\ UNCHANGED <<present, byType, vlog>>
  BY <1>1, <1>2 DEF VerticesInv, VerticesTypeOK, TypeIndexExact,
                    AppliedVertices, CommittedVertices
<1>3. CASE v \in known /\ v \in present /\ SetPresent(v, FALSE)
  BY <1>1, <1>3, SetPresentPreserves
<1>. QED
  BY <1>2, <1>3 DEF VerticesDiscard

(* apply() makes the present vertices the applied ones. *)
LEMMA VerticesApplyPreserves ==
  ASSUME VerticesInv, VerticesApply
  PROVE  /\ VerticesInv'
         /\ present' = present
         /\ AppliedVertices' = present
         /\ CommittedVertices' = CommittedVertices
<1>1. Len(vlog) \in Nat
  BY LenProperties DEF VerticesInv, VerticesTypeOK
<1>2. Undo(present, vlog, Len(vlog)) = present
  BY <1>1, UndoNothing
<1>. QED
  BY <1>1, <1>2 DEF VerticesApply, VerticesInv, VerticesTypeOK, TypeIndexExact,
                    AppliedVertices, CommittedVertices

(* What apply() reports of the vertices. *)
LEMMA VerticesReported ==
  ASSUME VerticesInv
  PROVE  /\ JustAddedVertices = present \ AppliedVertices
         /\ JustRemovedVertices = AppliedVertices \ present
<1>1. vlog \in Seq(Change(known)) /\ vapplied \in 0..Len(vlog)
      /\ Alternates(vlog, present)
  BY DEF VerticesInv, VerticesTypeOK
<1>2. ReportsNetChange(vlog, vapplied, present)
  BY <1>1, NetChange
<1>. QED
  BY <1>2 DEF ReportsNetChange, JustAddedVertices, JustRemovedVertices, AppliedVertices

(* commit() makes the applied vertices the committed ones, whatever is     *)
(* left in the log still being undone from the present ones.               *)
LEMMA VerticesCommitPreserves ==
  ASSUME VerticesInv, VerticesCommit
  PROVE  /\ VerticesInv'
         /\ present' = present
         /\ AppliedVertices' = AppliedVertices
         /\ CommittedVertices' = AppliedVertices
<1>1. vlog \in Seq(Change(known)) /\ vapplied \in 0..Len(vlog)
      /\ Alternates(vlog, present)
  BY DEF VerticesInv, VerticesTypeOK
<1>2. /\ vlog' \in Seq(Change(known))
      /\ Undo(present, vlog', 0) = Undo(present, vlog, vapplied)
      /\ Alternates(vlog', present)
  BY <1>1, UndoDropped DEF VerticesCommit
<1>3. Len(vlog') \in Nat
  BY <1>2, LenProperties
<1>. QED
  BY <1>2, <1>3 DEF VerticesCommit, VerticesInv, VerticesTypeOK, TypeIndexExact,
                    AppliedVertices, CommittedVertices

(* An empty log: everything is applied and committed. *)
LEMMA EmptyLog ==
  ASSUME NEW Item, NEW current
  PROVE  /\ <<>> \in Seq(Change(Item)) /\ Len(<<>>) = 0
         /\ Alternates(<<>>, current)
         /\ Undo(current, <<>>, 0) = current
<1>1. <<>> \in Seq(Change(Item)) /\ Len(<<>>) = 0
  OBVIOUS
<1>2. Alternates(<<>>, current)
  BY <1>1 DEF Alternates, Agrees
<1>3. Undo(current, <<>>, 0) = current
  BY <1>1, UndoNothing
<1>. QED
  BY <1>1, <1>2, <1>3

(* rollback() makes the committed vertices the present ones, in the index  *)
(* by type name too.                                                       *)
LEMMA VerticesRollbackPreserves ==
  ASSUME VerticesInv, VerticesRollback
  PROVE  /\ VerticesInv'
         /\ present' = CommittedVertices
         /\ AppliedVertices' = CommittedVertices
         /\ CommittedVertices' = CommittedVertices
<1> DEFINE Logged0 == ItemsAfter(vlog, 0)
           First0 == FirstItems(vlog, 0, FALSE)
<1>1. /\ present' = CommittedVertices
      /\ vlog' = <<>> /\ vapplied' = 0 /\ known' = known
  BY DEF VerticesRollback, CommittedVertices
<1>2. Alternates(vlog', present') /\ Undo(present', vlog', 0) = present'
  BY <1>1, EmptyLog
<1>3. Logged0 \subseteq known
  <2>1. \A j \in After(vlog, 0) : vlog[j] \in Change(known)
    BY ElementOfSeq DEF After, VerticesInv, VerticesTypeOK
  <2>2. \A j \in After(vlog, 0) : vlog[j].item \in known
    BY <2>1 DEF Change
  <2>. QED
    BY <2>2 DEF ItemsAfter
<1>4. First0 \subseteq Logged0
  BY DEF FirstItems, ItemsAfter
<1>5. present' \subseteq known
  BY <1>1, <1>3, <1>4 DEF CommittedVertices, Undo, VerticesInv, VerticesTypeOK
<1>6. ASSUME NEW t \in TypeName
      PROVE  /\ byType'[t] = {v \in present' : TypeOf[v] = t}
             /\ byType'[t] \in SUBSET Vertex
  <2>1. byType'[t] = (byType[t] \ Logged0) \cup {v \in First0 : TypeOf[v] = t}
    BY DEF VerticesRollback
  <2>2. byType[t] = {v \in present : TypeOf[v] = t}
    BY DEF VerticesInv, TypeIndexExact
  <2>3. present' = (present \ Logged0) \cup First0
    BY <1>1 DEF CommittedVertices, Undo
  <2>4. byType'[t] = {v \in present' : TypeOf[v] = t}
    BY <2>1, <2>2, <2>3
  <2>. QED
    BY <2>4, <1>5 DEF VerticesInv, VerticesTypeOK
<1>7. byType' \in [TypeName -> SUBSET Vertex]
  BY <1>6 DEF VerticesRollback
<1>8. VerticesTypeOK'
  BY <1>1, <1>5, <1>7, EmptyLog DEF VerticesInv, VerticesTypeOK
<1>. QED
  BY <1>1, <1>2, <1>6, <1>8 DEF VerticesInv, TypeIndexExact,
                                AppliedVertices, CommittedVertices

-----------------------------------------------------------------------------
(* The edges' container.                                                   *)

EdgesInv == EdgesTypeOK /\ TrunksMirror /\ Alternates(elog, forward)

(* There are finitely many edges, so a bulk removal has an order. *)
LEMMA FinitelyManyEdges == IsFiniteSet(Edge)
<1> DEFINE Nested == (Vertex \X Label) \X Vertex
           flatten == [p \in Nested |-> <<p[1][1], p[1][2], p[2]>>]
<1>1. IsFiniteSet(Nested)
  BY VertexAssumption, EdgeAssumption, FS_Product
<1>2. flatten \in [Nested -> Edge]
  BY DEF Edge
<1>3. ASSUME NEW e \in Edge PROVE \E p \in Nested : flatten[p] = e
  <2>1. PICK v \in Vertex, l \in Label, w \in Vertex : e = <<v, l, w>>
    BY DEF Edge
  <2>2. <<<<v, l>>, w>> \in Nested /\ flatten[<<<<v, l>>, w>>] = e
    BY <2>1
  <2>. QED
    BY <2>2
<1>4. flatten \in Surjection(Nested, Edge)
  BY <1>2, <1>3 DEF Surjection
<1>. QED
  BY <1>1, <1>4, FS_Surjection

(* Mirroring the edges of a set is one-to-one, so it commutes with the set *)
(* operations.                                                             *)
LEMMA MirrorTwice ==
  ASSUME NEW e \in Edge
  PROVE  Mirror(e) \in Edge /\ Mirror(Mirror(e)) = e
BY DEF Edge, Mirror

(* An edge is in one trunk exactly if its mirror image is in the other. *)
LEMMA MirroredMembers ==
  ASSUME NEW A \in SUBSET Edge
  PROVE  /\ Mirrored(A) \in SUBSET Edge
         /\ \A e \in Edge : e \in Mirrored(A) <=> Mirror(e) \in A
<1>1. Mirrored(A) \in SUBSET Edge
  BY MirrorTwice DEF Mirrored
<1>2. ASSUME NEW e \in Edge PROVE e \in Mirrored(A) <=> Mirror(e) \in A
  BY MirrorTwice DEF Mirrored
<1>. QED
  BY <1>1, <1>2

(* The same set removed from or added to both trunks keeps them mirrored. *)
LEMMA MirroredUpdates ==
  ASSUME NEW A \in SUBSET Edge, NEW B \in SUBSET Edge
  PROVE  /\ Mirrored(A \ B) = Mirrored(A) \ Mirrored(B)
         /\ Mirrored(A \cup B) = Mirrored(A) \cup Mirrored(B)
<1>1. /\ A \ B \in SUBSET Edge /\ A \cup B \in SUBSET Edge
      /\ Mirrored(A) \in SUBSET Edge /\ Mirrored(B) \in SUBSET Edge
      /\ Mirrored(A \ B) \in SUBSET Edge /\ Mirrored(A \cup B) \in SUBSET Edge
  BY MirroredMembers
<1>2. \A e \in Edge :
         /\ e \in Mirrored(A) <=> Mirror(e) \in A
         /\ e \in Mirrored(B) <=> Mirror(e) \in B
         /\ e \in Mirrored(A \ B) <=> Mirror(e) \in A \ B
         /\ e \in Mirrored(A \cup B) <=> Mirror(e) \in A \cup B
  BY <1>1, MirroredMembers
<1>. QED
  BY <1>1, <1>2

(* Every update comes down to this: the log takes the changes of forward_, *)
(* and inverse_ follows.                                                   *)
LEMMA EdgesLogged ==
  ASSUME EdgesInv, Logs(Edge, elog, forward, elog', forward'),
         forward' \in SUBSET Edge, inverse' = Mirrored(forward'),
         eapplied' = eapplied
  PROVE  /\ EdgesInv'
         /\ AppliedEdges' = AppliedEdges
         /\ CommittedEdges' = CommittedEdges
<1>1. /\ elog \in Seq(Change(Edge)) /\ elog' \in Seq(Change(Edge))
      /\ Len(elog) <= Len(elog') /\ Alternates(elog', forward')
      /\ \A k \in 0..Len(elog) : Undo(forward', elog', k) = Undo(forward, elog, k)
  BY DEF Logs, EdgesInv, EdgesTypeOK
<1>2. eapplied \in 0..Len(elog) /\ Len(elog) \in Nat /\ Len(elog') \in Nat
  BY <1>1, LenProperties DEF EdgesInv, EdgesTypeOK
<1>3. EdgesTypeOK'
  BY <1>1, <1>2, MirroredMembers DEF EdgesTypeOK
<1>4. AppliedEdges' = AppliedEdges /\ CommittedEdges' = CommittedEdges
  BY <1>1, <1>2 DEF AppliedEdges, CommittedEdges
<1>. QED
  BY <1>1, <1>3, <1>4 DEF EdgesInv, TrunksMirror

(* What leaves the container alone leaves what it stands for alone. *)
LEMMA EdgesUnchanged ==
  ASSUME EdgesInv, UNCHANGED edgesVars
  PROVE  /\ EdgesInv' /\ forward' = forward
         /\ AppliedEdges' = AppliedEdges
         /\ CommittedEdges' = CommittedEdges
BY DEF edgesVars, EdgesInv, EdgesTypeOK, TrunksMirror, AppliedEdges, CommittedEdges

(* add_edge keeps the trunks and the log consistent. *)
LEMMA EdgesAddPreserves ==
  ASSUME EdgesInv, NEW e \in Edge, EdgesAdd(e)
  PROVE  /\ EdgesInv' /\ forward' = forward \cup {e}
         /\ AppliedEdges' = AppliedEdges
         /\ CommittedEdges' = CommittedEdges
<1>1. CASE e \in forward /\ UNCHANGED <<forward, inverse, elog>>
  BY <1>1, EdgesUnchanged DEF EdgesAdd, edgesVars
<1>2. CASE /\ e \notin forward
           /\ forward' = forward \cup {e}
           /\ inverse' = inverse \cup {Mirror(e)}
           /\ elog' = Append(elog, [item |-> e, added |-> TRUE])
  <2>1. elog \in Seq(Change(Edge)) /\ Alternates(elog, forward)
    BY DEF EdgesInv, EdgesTypeOK
  <2>2. Logs(Edge, elog, forward, elog', forward')
    BY <1>2, <2>1, LoggedAddition
  <2>3. forward \in SUBSET Edge /\ forward' \in SUBSET Edge /\ {e} \in SUBSET Edge
    BY <1>2 DEF EdgesInv, EdgesTypeOK
  <2>4. Mirrored(forward \cup {e}) = Mirrored(forward) \cup Mirrored({e})
    BY <2>3, MirroredUpdates
  <2>5. inverse' = Mirrored(forward')
    BY <1>2, <2>4 DEF Mirrored, EdgesInv, TrunksMirror
  <2>. QED
    BY <1>2, <2>2, <2>3, <2>5, EdgesLogged DEF EdgesAdd
<1>. QED
  BY <1>1, <1>2 DEF EdgesAdd

(* So does remove_edge. *)
LEMMA EdgesRemovePreserves ==
  ASSUME EdgesInv, NEW e \in Edge, EdgesRemove(e)
  PROVE  /\ EdgesInv' /\ forward' = forward \ {e}
         /\ AppliedEdges' = AppliedEdges
         /\ CommittedEdges' = CommittedEdges
<1>1. CASE e \notin forward /\ UNCHANGED <<forward, inverse, elog>>
  BY <1>1, EdgesUnchanged DEF EdgesRemove, edgesVars
<1>2. CASE /\ e \in forward
           /\ forward' = forward \ {e}
           /\ inverse' = inverse \ {Mirror(e)}
           /\ elog' = Append(elog, [item |-> e, added |-> FALSE])
  <2>1. elog \in Seq(Change(Edge)) /\ Alternates(elog, forward)
    BY DEF EdgesInv, EdgesTypeOK
  <2>2. Logs(Edge, elog, forward, elog', forward')
    BY <1>2, <2>1, LoggedRemoval
  <2>3. forward \in SUBSET Edge /\ forward' \in SUBSET Edge /\ {e} \in SUBSET Edge
    BY <1>2 DEF EdgesInv, EdgesTypeOK
  <2>4. Mirrored(forward \ {e}) = Mirrored(forward) \ Mirrored({e})
    BY <2>3, MirroredUpdates
  <2>5. inverse' = Mirrored(forward')
    BY <1>2, <2>4 DEF Mirrored, EdgesInv, TrunksMirror
  <2>. QED
    BY <1>2, <2>2, <2>3, <2>5, EdgesLogged DEF EdgesRemove
<1>. QED
  BY <1>1, <1>2 DEF EdgesRemove

(* The removal of a set of edges in any order, by way of the trunks.       *)
LEMMA RemovalsLogged ==
  ASSUME NEW es \in SUBSET Edge, NEW log \in Seq(Change(Edge)), Alternates(log, es),
         NEW removed \in SUBSET es, NEW order \in Orders(removed)
  PROVE  Logs(Edge, log, es, log \o Removals(order), es \ removed)
<1>1. IsFiniteSet(removed) /\ removed \in SUBSET Edge /\ removed \subseteq es
  BY FinitelyManyEdges, FS_Subset
<1>2. order \in Bijection(1..Cardinality(removed), removed)
  BY DEF Orders
<1>. QED
  BY <1>1, <1>2, LoggedRemovals

(* So does remove_edges_from_via_label, in whatever order it meets the     *)
(* edges.                                                                  *)
LEMMA EdgesRemoveViaPreserves ==
  ASSUME EdgesInv, NEW v \in Vertex, NEW l \in Label, EdgesRemoveVia(v, l)
  PROVE  /\ EdgesInv' /\ forward' = {e \in forward : e[1] # v \/ e[2] # l}
         /\ AppliedEdges' = AppliedEdges
         /\ CommittedEdges' = CommittedEdges
<1> DEFINE removed == Leaf(forward, v, l)
<1>1. /\ forward' = forward \ removed
      /\ inverse' = inverse \ Mirrored(removed)
      /\ \E order \in Orders(removed) : elog' = elog \o Removals(order)
      /\ eapplied' = eapplied
  BY DEF EdgesRemoveVia
<1>2. /\ forward \in SUBSET Edge /\ removed \in SUBSET forward
      /\ removed \in SUBSET Edge /\ forward' \in SUBSET Edge
      /\ elog \in Seq(Change(Edge)) /\ Alternates(elog, forward)
  BY <1>1 DEF EdgesInv, EdgesTypeOK, Leaf
<1>3. forward' = {e \in forward : e[1] # v \/ e[2] # l}
  BY <1>1 DEF Leaf
<1> HIDE DEF removed
<1>4. Logs(Edge, elog, forward, elog', forward')
  <2>1. PICK order \in Orders(removed) : elog' = elog \o Removals(order)
    BY <1>1
  <2>2. Logs(Edge, elog, forward, elog \o Removals(order), forward \ removed)
    BY <1>2, RemovalsLogged
  <2>. QED
    BY <1>1, <2>1, <2>2
<1>5. inverse' = Mirrored(forward')
  <2>1. inverse = Mirrored(forward)
    BY DEF EdgesInv, TrunksMirror
  <2>2. Mirrored(forward \ removed) = Mirrored(forward) \ Mirrored(removed)
    BY <1>2, MirroredUpdates
  <2>. QED
    BY <1>1, <2>1, <2>2
<1>. QED
  BY <1>1, <1>2, <1>3, <1>4, <1>5, EdgesLogged

(* Two runs of logging, one after the other. *)
LEMMA LogsTwice ==
  ASSUME NEW Item, NEW log \in Seq(Change(Item)), NEW current,
         NEW mid, NEW then, Logs(Item, log, current, mid, then),
         NEW new, NEW now, Logs(Item, mid, then, new, now)
  PROVE  Logs(Item, log, current, new, now)
<1>1. mid \in Seq(Change(Item)) /\ new \in Seq(Change(Item))
  BY DEF Logs
<1>2. /\ Len(log) \in Nat /\ Len(mid) \in Nat /\ Len(new) \in Nat
      /\ Len(log) <= Len(mid) /\ Len(mid) <= Len(new)
  BY <1>1, LenProperties DEF Logs
<1>3. ASSUME NEW k \in 0..Len(log) PROVE Undo(now, new, k) = Undo(current, log, k)
  <2>1. k \in 0..Len(mid)
    BY <1>2
  <2>. QED
    BY <2>1 DEF Logs
<1>4. Len(log) <= Len(new)
  BY <1>2
<1>. QED
  BY <1>1, <1>3, <1>4 DEF Logs

(* So does remove_edges_of_vertex: the incoming edges it meets second are  *)
(* other edges than the outgoing ones, as loops are gone by then.          *)
LEMMA EdgesRemoveOfPreserves ==
  ASSUME EdgesInv, NEW v \in Vertex, EdgesRemoveOf(v)
  PROVE  /\ EdgesInv' /\ forward' = {e \in forward : e[1] # v /\ e[3] # v}
         /\ AppliedEdges' = AppliedEdges
         /\ CommittedEdges' = CommittedEdges
<1> DEFINE outgoing == Branch(forward, v)
           rest == forward \ outgoing
           incoming == Mirrored(Branch(inverse \ Mirrored(outgoing), v))
<1>1. /\ forward' = rest \ incoming
      /\ inverse' = (inverse \ Mirrored(outgoing)) \ Mirrored(incoming)
      /\ \E first \in Orders(outgoing), second \in Orders(incoming) :
            elog' = (elog \o Removals(first)) \o Removals(second)
      /\ eapplied' = eapplied
  BY DEF EdgesRemoveOf
<1>2. /\ forward \in SUBSET Edge /\ outgoing \in SUBSET forward
      /\ outgoing \in SUBSET Edge /\ rest \in SUBSET Edge
      /\ elog \in Seq(Change(Edge)) /\ Alternates(elog, forward)
  BY DEF EdgesInv, EdgesTypeOK, Branch
<1>3. inverse \ Mirrored(outgoing) = Mirrored(rest)
  <2>1. inverse = Mirrored(forward)
    BY DEF EdgesInv, TrunksMirror
  <2>. QED
    BY <1>2, <2>1, MirroredUpdates
(* What the inverse branch still lists is the edges into v that are left. *)
<1>4. incoming = {e \in rest : e[3] = v}
  <2>1. Mirrored(rest) \in SUBSET Edge
    BY <1>2, MirroredMembers
  <2>2. Branch(Mirrored(rest), v) \in SUBSET Edge
    BY <2>1 DEF Branch
  <2>3. /\ incoming = Mirrored(Branch(Mirrored(rest), v))
        /\ incoming \in SUBSET Edge
    BY <1>3, <2>2, MirroredMembers
  <2>4. ASSUME NEW e \in Edge PROVE e \in incoming <=> e \in rest /\ e[3] = v
    <3>1. Mirror(e) \in Edge /\ Mirror(Mirror(e)) = e /\ Mirror(e)[1] = e[3]
      BY MirrorTwice DEF Mirror
    <3>2. e \in incoming <=> Mirror(e) \in Branch(Mirrored(rest), v)
      BY <2>2, <2>3, MirroredMembers
    <3>3. Mirror(e) \in Mirrored(rest) <=> e \in rest
      BY <1>2, <3>1, MirroredMembers
    <3>. QED
      BY <3>1, <3>2, <3>3 DEF Branch
  <2>. QED
    BY <1>2, <2>3, <2>4
<1>5. incoming \in SUBSET rest /\ incoming \in SUBSET Edge /\ forward' \in SUBSET Edge
  BY <1>1, <1>2, <1>4
<1>6. forward' = {e \in forward : e[1] # v /\ e[3] # v}
  BY <1>1, <1>4 DEF Branch
<1>7. inverse' = Mirrored(forward')
  <2>1. inverse' = Mirrored(rest) \ Mirrored(incoming)
    BY <1>1, <1>3
  <2>. QED
    BY <1>1, <1>2, <1>5, <2>1, MirroredUpdates
<1> HIDE DEF outgoing, incoming, rest
<1>8. Logs(Edge, elog, forward, elog', forward')
  <2>1. PICK first \in Orders(outgoing), second \in Orders(incoming) :
           elog' = (elog \o Removals(first)) \o Removals(second)
    BY <1>1
  <2>2. Logs(Edge, elog, forward, elog \o Removals(first), rest)
    BY <1>2, RemovalsLogged DEF rest
  <2>3. elog \o Removals(first) \in Seq(Change(Edge))
        /\ Alternates(elog \o Removals(first), rest)
    BY <2>2 DEF Logs
  <2>4. Logs(Edge, elog \o Removals(first), rest, elog', forward')
    BY <1>1, <1>2, <1>5, <2>1, <2>3, RemovalsLogged
  <2>. QED
    BY <1>2, <2>2, <2>4, LogsTwice
<1>. QED
  BY <1>1, <1>5, <1>6, <1>7, <1>8, EdgesLogged

(* apply() makes the present edges the applied ones. *)
LEMMA EdgesApplyPreserves ==
  ASSUME EdgesInv, EdgesApply
  PROVE  /\ EdgesInv'
         /\ forward' = forward
         /\ AppliedEdges' = forward
         /\ CommittedEdges' = CommittedEdges
<1>1. Len(elog) \in Nat
  BY LenProperties DEF EdgesInv, EdgesTypeOK
<1>2. Undo(forward, elog, Len(elog)) = forward
  BY <1>1, UndoNothing
<1>. QED
  BY <1>1, <1>2 DEF EdgesApply, EdgesInv, EdgesTypeOK, TrunksMirror,
                    AppliedEdges, CommittedEdges

(* What apply() reports of the edges. *)
LEMMA EdgesReported ==
  ASSUME EdgesInv
  PROVE  /\ JustAddedEdges = forward \ AppliedEdges
         /\ JustRemovedEdges = AppliedEdges \ forward
<1>1. elog \in Seq(Change(Edge)) /\ eapplied \in 0..Len(elog)
      /\ Alternates(elog, forward)
  BY DEF EdgesInv, EdgesTypeOK
<1>2. ReportsNetChange(elog, eapplied, forward)
  BY <1>1, NetChange
<1>. QED
  BY <1>2 DEF ReportsNetChange, JustAddedEdges, JustRemovedEdges, AppliedEdges

(* commit() makes the applied edges the committed ones. *)
LEMMA EdgesCommitPreserves ==
  ASSUME EdgesInv, EdgesCommit
  PROVE  /\ EdgesInv'
         /\ forward' = forward
         /\ AppliedEdges' = AppliedEdges
         /\ CommittedEdges' = AppliedEdges
<1>1. elog \in Seq(Change(Edge)) /\ eapplied \in 0..Len(elog)
      /\ Alternates(elog, forward)
  BY DEF EdgesInv, EdgesTypeOK
<1>2. /\ elog' \in Seq(Change(Edge))
      /\ Undo(forward, elog', 0) = Undo(forward, elog, eapplied)
      /\ Alternates(elog', forward)
  BY <1>1, UndoDropped DEF EdgesCommit
<1>3. Len(elog') \in Nat
  BY <1>2, LenProperties
<1>. QED
  BY <1>2, <1>3 DEF EdgesCommit, EdgesInv, EdgesTypeOK, TrunksMirror,
                    AppliedEdges, CommittedEdges

(* The undo loop toggles every edge in which forward_ and the committed    *)
(* edges differ, so the inverse trunk follows the forward one.             *)
LEMMA ToggledCoversTheDifference ==
  ASSUME EdgesInv, NEW e, e \notin Toggled
  PROVE  e \in forward <=> e \in Undo(forward, elog, 0)
<1>1. elog \in Seq(Change(Edge)) /\ Len(elog) \in Nat /\ Agrees(elog, forward)
  BY LenProperties DEF EdgesInv, EdgesTypeOK, Alternates
<1>2. CASE e \notin ItemsAfter(elog, 0)
  <2>1. e \notin FirstItems(elog, 0, FALSE)
    BY <1>2 DEF FirstItems, ItemsAfter
  <2>. QED
    BY <1>2, <2>1 DEF Undo
<1>3. CASE e \in ItemsAfter(elog, 0)
  <2>1. 0 \in 0..Len(elog)
    BY <1>1
  <2>2. PICK j \in After(elog, 0) : elog[j].item = e /\ IsLast(elog, j)
    BY <1>1, <1>3, <2>1, FirstAndLast
  <2>3. j \in 1..Len(elog)
    BY <1>1, <2>2 DEF After
  <2>4. elog[j] \in Change(Edge)
    BY <1>1, <2>3, ElementOfSeq
  <2>5. elog[j].added \in BOOLEAN
    BY <2>4 DEF Change
  <2>6. elog[j].added <=> elog[j].item \in forward
    BY <1>1, <2>2, <2>3 DEF Agrees
  <2>7. elog[j].added = (elog[j].item \in forward)
    BY <2>5, <2>6
  <2>8. e \in Toggled
    BY <2>2, <2>3, <2>7, Zenon DEF Toggled
  <2>. QED
    BY <2>8
<1>. QED
  BY <1>2, <1>3

(* Only logged edges can differ from the committed ones. *)
LEMMA LoggedEdges ==
  ASSUME EdgesInv
  PROVE  /\ Toggled \in SUBSET Edge
         /\ CommittedEdges \in SUBSET Edge
<1>1. \A j \in 1..Len(elog) : elog[j] \in Change(Edge)
  BY ElementOfSeq DEF EdgesInv, EdgesTypeOK
<1>2. \A j \in 1..Len(elog) : elog[j].item \in Edge
  BY <1>1 DEF Change
<1>3. Toggled \in SUBSET Edge
  BY <1>2 DEF Toggled
<1>4. FirstItems(elog, 0, FALSE) \in SUBSET Edge
  BY <1>2 DEF FirstItems, After
<1>. QED
  BY <1>3, <1>4 DEF CommittedEdges, Undo, EdgesInv, EdgesTypeOK

(* rollback() makes the committed edges the present ones, in both trunks. *)
LEMMA EdgesRollbackPreserves ==
  ASSUME EdgesInv, EdgesRollback
  PROVE  /\ EdgesInv'
         /\ forward' = CommittedEdges
         /\ AppliedEdges' = CommittedEdges
         /\ CommittedEdges' = CommittedEdges
<1>1. /\ forward' = CommittedEdges
      /\ inverse' = (inverse \ Mirrored(Toggled))
                      \cup Mirrored(Toggled \cap CommittedEdges)
      /\ elog' = <<>> /\ eapplied' = 0
  BY DEF EdgesRollback, CommittedEdges
<1>2. /\ elog' \in Seq(Change(Edge)) /\ Len(elog') = 0
      /\ Alternates(elog', forward') /\ Undo(forward', elog', 0) = forward'
  BY <1>1, EmptyLog
<1>3. /\ forward \in SUBSET Edge /\ Toggled \in SUBSET Edge
      /\ CommittedEdges \in SUBSET Edge
      /\ Toggled \cap CommittedEdges \in SUBSET Edge /\ forward \ Toggled \in SUBSET Edge
  BY LoggedEdges DEF EdgesInv, EdgesTypeOK
<1>4. (forward \ Toggled) \cup (Toggled \cap CommittedEdges) = CommittedEdges
  BY ToggledCoversTheDifference DEF CommittedEdges
<1>5. inverse' = Mirrored(forward')
  <2>1. inverse = Mirrored(forward)
    BY DEF EdgesInv, TrunksMirror
  <2>2. Mirrored(forward) \ Mirrored(Toggled) = Mirrored(forward \ Toggled)
    BY <1>3, MirroredUpdates
  <2>3. Mirrored(forward \ Toggled) \cup Mirrored(Toggled \cap CommittedEdges)
          = Mirrored((forward \ Toggled) \cup (Toggled \cap CommittedEdges))
    BY <1>3, MirroredUpdates
  <2>. QED
    BY <1>1, <1>4, <2>1, <2>2, <2>3
<1>6. EdgesTypeOK'
  BY <1>1, <1>2, <1>3, <1>5, MirroredMembers DEF EdgesTypeOK
<1>. QED
  BY <1>1, <1>2, <1>5, <1>6 DEF EdgesInv, TrunksMirror, AppliedEdges, CommittedEdges

-----------------------------------------------------------------------------
(* The graph: the containers' invariants and the one that relates them.    *)

GraphInv == /\ VerticesInv
            /\ EdgesInv
            /\ NoDanglingEdges
            /\ changes \in GraphChanges

(* An update of edges leaves everything about vertices alone. *)
LEMMA VerticesUnchanged ==
  ASSUME VerticesInv, UNCHANGED verticesVars
  PROVE  /\ VerticesInv' /\ present' = present
         /\ AppliedVertices' = AppliedVertices
         /\ CommittedVertices' = CommittedVertices
BY DEF verticesVars, VerticesInv, VerticesTypeOK, TypeIndexExact,
       AppliedVertices, CommittedVertices

(* An answer without changes is an answer. *)
LEMMA NoChangesType == NoChanges \in GraphChanges
BY DEF NoChanges, GraphChanges

(* The empty graph satisfies the invariant and is where the layers start. *)
LEMMA InitInv == Init => GraphInv /\ Layers!Init
<1>. SUFFICES ASSUME Init PROVE GraphInv /\ Layers!Init
  OBVIOUS
<1>1. /\ known = {} /\ present = {} /\ byType = [t \in TypeName |-> {}]
      /\ vlog = <<>> /\ vapplied = 0
      /\ forward = {} /\ inverse = {} /\ elog = <<>> /\ eapplied = 0
      /\ changes = NoChanges
  BY DEF Init, VerticesInit, EdgesInit
<1>2. /\ AppliedVertices = {} /\ CommittedVertices = {}
      /\ AppliedEdges = {} /\ CommittedEdges = {}
  BY <1>1, EmptyLog DEF AppliedVertices, CommittedVertices, AppliedEdges, CommittedEdges
<1>3. VerticesInv
  BY <1>1, EmptyLog DEF VerticesInv, VerticesTypeOK, TypeIndexExact
<1>4. EdgesInv
  BY <1>1, EmptyLog DEF EdgesInv, EdgesTypeOK, TrunksMirror, Mirrored
<1>5. NoDanglingEdges
  BY <1>1, <1>2 DEF NoDanglingEdges, EndsIn
<1>6. Layers!Init
  BY <1>1, <1>2 DEF Layers!Init, Layers!Empty, Layers!Nothing, NoChanges
<1>. QED
  BY <1>1, <1>3, <1>4, <1>5, <1>6, NoChangesType DEF GraphInv

(* Each action keeps the inductive invariant and is a step of the layers.  *)
(* First, add_vertex: a new vertex cannot make an edge dangle.             *)
LEMMA AddVertexStep ==
  ASSUME GraphInv, NEW v \in Vertex, AddVertex(v)
  PROVE  GraphInv' /\ Layers!AddVertex(v)
<1>1. /\ VerticesInv' /\ present' = present \cup {v}
      /\ AppliedVertices' = AppliedVertices /\ CommittedVertices' = CommittedVertices
  BY VerticesAddPreserves DEF AddVertex, GraphInv
<1>2. /\ EdgesInv' /\ forward' = forward
      /\ AppliedEdges' = AppliedEdges /\ CommittedEdges' = CommittedEdges
  BY EdgesUnchanged DEF AddVertex, GraphInv
<1>3. NoDanglingEdges'
  BY <1>1, <1>2 DEF GraphInv, NoDanglingEdges, EndsIn
<1>4. Layers!AddVertex(v)
  BY <1>1, <1>2 DEF AddVertex, Layers!AddVertex, Layers!Becomes, Layers!Nothing, NoChanges
<1>. QED
  BY <1>1, <1>2, <1>3, <1>4, NoChangesType DEF GraphInv, AddVertex

(* remove_vertex takes all edges of the vertex along. *)
LEMMA RemoveVertexStep ==
  ASSUME GraphInv, NEW v \in Vertex, RemoveVertex(v)
  PROVE  GraphInv' /\ Layers!RemoveVertex(v)
<1>1. /\ VerticesInv' /\ present' = present \ {v}
      /\ AppliedVertices' = AppliedVertices /\ CommittedVertices' = CommittedVertices
  BY VerticesDiscardPreserves DEF RemoveVertex, GraphInv
<1>2. /\ EdgesInv' /\ forward' = {e \in forward : e[1] # v /\ e[3] # v}
      /\ AppliedEdges' = AppliedEdges /\ CommittedEdges' = CommittedEdges
  BY EdgesRemoveOfPreserves DEF RemoveVertex, GraphInv
<1>3. NoDanglingEdges'
  BY <1>1, <1>2 DEF GraphInv, NoDanglingEdges, EndsIn
<1>4. Layers!RemoveVertex(v)
  BY <1>1, <1>2 DEF RemoveVertex, Layers!RemoveVertex, Layers!Becomes, Layers!Nothing, NoChanges
<1>. QED
  BY <1>1, <1>2, <1>3, <1>4, NoChangesType DEF GraphInv, RemoveVertex

(* add_edge asks whether both ends are present. *)
LEMMA AddEdgeStep ==
  ASSUME GraphInv, NEW v \in Vertex, NEW w \in Vertex, NEW l \in Label, AddEdge(v, l, w)
  PROVE  GraphInv' /\ Layers!AddEdge(v, l, w)
<1>1. /\ VerticesInv' /\ present' = present
      /\ AppliedVertices' = AppliedVertices /\ CommittedVertices' = CommittedVertices
  BY VerticesUnchanged DEF AddEdge, GraphInv
<1>2. /\ EdgesInv' /\ forward' = forward \cup {<<v, l, w>>}
      /\ AppliedEdges' = AppliedEdges /\ CommittedEdges' = CommittedEdges
  <2>1. <<v, l, w>> \in Edge
    BY DEF Edge
  <2>. QED
    BY <2>1, EdgesAddPreserves DEF AddEdge, GraphInv
<1>3. {v, w} \subseteq present
  BY DEF AddEdge
<1>4. NoDanglingEdges'
  BY <1>1, <1>2, <1>3 DEF GraphInv, NoDanglingEdges, EndsIn
<1>5. Layers!AddEdge(v, l, w)
  BY <1>1, <1>2, <1>3 DEF AddEdge, Layers!AddEdge, Layers!Becomes, Layers!Nothing, NoChanges
<1>. QED
  BY <1>1, <1>2, <1>4, <1>5, NoChangesType DEF GraphInv, AddEdge

(* remove_edge: also of an edge that is not there, or whose ends are gone. *)
LEMMA RemoveEdgeStep ==
  ASSUME GraphInv, NEW v \in Vertex, NEW w \in Vertex, NEW l \in Label, RemoveEdge(v, l, w)
  PROVE  GraphInv' /\ Layers!RemoveEdge(v, l, w)
<1>1. /\ VerticesInv' /\ present' = present
      /\ AppliedVertices' = AppliedVertices /\ CommittedVertices' = CommittedVertices
  BY VerticesUnchanged DEF RemoveEdge, GraphInv
<1>2. /\ EdgesInv' /\ forward' = forward \ {<<v, l, w>>}
      /\ AppliedEdges' = AppliedEdges /\ CommittedEdges' = CommittedEdges
  <2>1. <<v, l, w>> \in Edge
    BY DEF Edge
  <2>. QED
    BY <2>1, EdgesRemovePreserves DEF RemoveEdge, GraphInv
<1>3. NoDanglingEdges'
  BY <1>1, <1>2 DEF GraphInv, NoDanglingEdges, EndsIn
<1>4. Layers!RemoveEdge(v, l, w)
  BY <1>1, <1>2 DEF RemoveEdge, Layers!RemoveEdge, Layers!Becomes, Layers!Nothing, NoChanges
<1>. QED
  BY <1>1, <1>2, <1>3, <1>4, NoChangesType DEF GraphInv, RemoveEdge

(* remove_edges_to_all is the removal of all edges with a source and       *)
(* label.                                                                  *)
LEMMA RemoveEdgesToAllStep ==
  ASSUME GraphInv, NEW v \in Vertex, NEW l \in Label, RemoveEdgesToAll(v, l)
  PROVE  GraphInv' /\ Layers!RemoveEdgesToAll(v, l)
<1>1. /\ VerticesInv' /\ present' = present
      /\ AppliedVertices' = AppliedVertices /\ CommittedVertices' = CommittedVertices
  BY VerticesUnchanged DEF RemoveEdgesToAll, GraphInv
<1>2. /\ EdgesInv' /\ forward' = {e \in forward : e[1] # v \/ e[2] # l}
      /\ AppliedEdges' = AppliedEdges /\ CommittedEdges' = CommittedEdges
  BY EdgesRemoveViaPreserves DEF RemoveEdgesToAll, GraphInv
<1>3. NoDanglingEdges'
  BY <1>1, <1>2 DEF GraphInv, NoDanglingEdges, EndsIn
<1>4. Layers!RemoveEdgesToAll(v, l)
  BY <1>1, <1>2 DEF RemoveEdgesToAll, Layers!RemoveEdgesToAll, Layers!Becomes, Layers!Nothing, NoChanges
<1>. QED
  BY <1>1, <1>2, <1>3, <1>4, NoChangesType DEF GraphInv, RemoveEdgesToAll

(* apply() reports vertices and edges, nothing else. *)
LEMMA JustChangedItems ==
  ASSUME NEW Item, NEW log \in Seq(Change(Item)), NEW k \in 0..Len(log), NEW added
  PROVE  JustChanged(log, k, added) \in SUBSET Item
<1>1. \A j \in After(log, k) : log[j] \in Change(Item)
  BY ElementOfSeq, LenProperties DEF After
<1>2. \A j \in After(log, k) : log[j].item \in Item
  BY <1>1 DEF Change
<1>. QED
  BY <1>2 DEF JustChanged, FirstItems

(* What apply() reports is well-formed. *)
LEMMA ReportedChanges ==
  ASSUME GraphInv
  PROVE  [addedVertices   |-> JustAddedVertices,
          removedVertices |-> JustRemovedVertices,
          addedEdges      |-> JustAddedEdges,
          removedEdges    |-> JustRemovedEdges] \in GraphChanges
<1>1. /\ vlog \in Seq(Change(known)) /\ vapplied \in 0..Len(vlog)
      /\ elog \in Seq(Change(Edge)) /\ eapplied \in 0..Len(elog)
      /\ known \subseteq Vertex
  BY DEF GraphInv, VerticesInv, VerticesTypeOK, EdgesInv, EdgesTypeOK
<1>2. JustAddedVertices \in SUBSET known
  BY <1>1, JustChangedItems DEF JustAddedVertices
<1>3. JustRemovedVertices \in SUBSET known
  BY <1>1, JustChangedItems DEF JustRemovedVertices
<1>4. JustAddedEdges \in SUBSET Edge
  BY <1>1, JustChangedItems DEF JustAddedEdges
<1>5. JustRemovedEdges \in SUBSET Edge
  BY <1>1, JustChangedItems DEF JustRemovedEdges
<1>. QED
  BY <1>1, <1>2, <1>3, <1>4, <1>5 DEF GraphChanges

(* apply(), and its early return, report the net change in both cases. *)
LEMMA ApplyStep ==
  ASSUME GraphInv, Apply
  PROVE  GraphInv' /\ Layers!Apply
<1>1. /\ JustAddedVertices = present \ AppliedVertices
      /\ JustRemovedVertices = AppliedVertices \ present
      /\ JustAddedEdges = forward \ AppliedEdges
      /\ JustRemovedEdges = AppliedEdges \ forward
  BY VerticesReported, EdgesReported DEF GraphInv
<1>2. CASE /\ changes' = [addedVertices   |-> JustAddedVertices,
                          removedVertices |-> JustRemovedVertices,
                          addedEdges      |-> JustAddedEdges,
                          removedEdges    |-> JustRemovedEdges]
           /\ VerticesApply /\ EdgesApply
  <2>1. /\ VerticesInv' /\ present' = present
        /\ AppliedVertices' = present /\ CommittedVertices' = CommittedVertices
    BY <1>2, VerticesApplyPreserves DEF GraphInv
  <2>2. /\ EdgesInv' /\ forward' = forward
        /\ AppliedEdges' = forward /\ CommittedEdges' = CommittedEdges
    BY <1>2, EdgesApplyPreserves DEF GraphInv
  <2>3. NoDanglingEdges'
    BY <2>1, <2>2 DEF GraphInv, NoDanglingEdges, EndsIn
  <2>4. Layers!Apply
    BY <1>1, <1>2, <2>1, <2>2 DEF Layers!Apply
  <2>5. changes' \in GraphChanges
    BY <1>2, ReportedChanges
  <2>. QED
    BY <2>1, <2>2, <2>3, <2>4, <2>5 DEF GraphInv
(* The early return: with nothing to report the layers are equal already.  *)
<1>3. CASE /\ ~VerticesUnapplied /\ ~EdgesUnapplied
           /\ changes' = NoChanges
           /\ UNCHANGED <<verticesVars, edgesVars>>
  <2>1. vapplied = Len(vlog) /\ eapplied = Len(elog)
    <3>1. Len(vlog) \in Nat /\ Len(elog) \in Nat
      BY LenProperties DEF GraphInv, VerticesInv, VerticesTypeOK, EdgesInv, EdgesTypeOK
    <3>. QED
      BY <1>3, <3>1 DEF VerticesUnapplied, EdgesUnapplied, GraphInv, VerticesInv,
                        VerticesTypeOK, EdgesInv, EdgesTypeOK
  <2>2. Len(vlog) \in Nat /\ Len(elog) \in Nat
    BY LenProperties DEF GraphInv, VerticesInv, VerticesTypeOK, EdgesInv, EdgesTypeOK
  <2>3. AppliedVertices = present /\ AppliedEdges = forward
    BY <2>1, <2>2, UndoNothing DEF AppliedVertices, AppliedEdges
  <2>4. /\ VerticesInv' /\ present' = present
        /\ AppliedVertices' = AppliedVertices /\ CommittedVertices' = CommittedVertices
    BY <1>3, VerticesUnchanged DEF GraphInv
  <2>5. /\ EdgesInv' /\ forward' = forward
        /\ AppliedEdges' = AppliedEdges /\ CommittedEdges' = CommittedEdges
    BY <1>3, EdgesUnchanged DEF GraphInv
  <2>6. NoDanglingEdges'
    BY <2>4, <2>5 DEF GraphInv, NoDanglingEdges, EndsIn
  <2>7. Layers!Apply
    BY <1>3, <2>3, <2>4, <2>5 DEF Layers!Apply, NoChanges
  <2>. QED
    BY <1>3, <2>4, <2>5, <2>6, <2>7, NoChangesType DEF GraphInv
<1>. QED
  BY <1>2, <1>3 DEF Apply

(* commit() forgets only what has been applied. *)
LEMMA CommitStep ==
  ASSUME GraphInv, Commit
  PROVE  GraphInv' /\ Layers!Commit
<1>1. /\ VerticesInv' /\ present' = present
      /\ AppliedVertices' = AppliedVertices /\ CommittedVertices' = AppliedVertices
  BY VerticesCommitPreserves DEF Commit, GraphInv
<1>2. /\ EdgesInv' /\ forward' = forward
      /\ AppliedEdges' = AppliedEdges /\ CommittedEdges' = AppliedEdges
  BY EdgesCommitPreserves DEF Commit, GraphInv
<1>3. NoDanglingEdges'
  BY <1>1, <1>2 DEF GraphInv, NoDanglingEdges, EndsIn
<1>4. Layers!Commit
  BY <1>1, <1>2 DEF Commit, Layers!Commit, Layers!Nothing, NoChanges
<1>. QED
  BY <1>1, <1>2, <1>3, <1>4, NoChangesType DEF GraphInv, Commit

(* rollback() of both logs returns to one and the same transaction         *)
(* boundary.                                                               *)
LEMMA RollbackStep ==
  ASSUME GraphInv, Rollback
  PROVE  GraphInv' /\ Layers!Rollback
<1>1. /\ VerticesInv' /\ present' = CommittedVertices
      /\ AppliedVertices' = CommittedVertices /\ CommittedVertices' = CommittedVertices
  BY VerticesRollbackPreserves DEF Rollback, GraphInv
<1>2. /\ EdgesInv' /\ forward' = CommittedEdges
      /\ AppliedEdges' = CommittedEdges /\ CommittedEdges' = CommittedEdges
  BY EdgesRollbackPreserves DEF Rollback, GraphInv
<1>3. NoDanglingEdges'
  BY <1>1, <1>2 DEF GraphInv, NoDanglingEdges, EndsIn
<1>4. Layers!Rollback
  BY <1>1, <1>2 DEF Rollback, Layers!Rollback, Layers!Nothing, NoChanges
<1>. QED
  BY <1>1, <1>2, <1>3, <1>4, NoChangesType DEF GraphInv, Rollback

(* Nothing happens. *)
LEMMA StutterStep ==
  ASSUME GraphInv, UNCHANGED vars
  PROVE  GraphInv' /\ UNCHANGED Layers!abstractVars
<1>1. /\ VerticesInv' /\ present' = present
      /\ AppliedVertices' = AppliedVertices /\ CommittedVertices' = CommittedVertices
  BY VerticesUnchanged DEF vars, verticesVars, GraphInv
<1>2. /\ EdgesInv' /\ forward' = forward
      /\ AppliedEdges' = AppliedEdges /\ CommittedEdges' = CommittedEdges
  BY EdgesUnchanged DEF vars, edgesVars, GraphInv
<1>3. NoDanglingEdges'
  BY <1>1, <1>2 DEF GraphInv, NoDanglingEdges, EndsIn
<1>. QED
  BY <1>1, <1>2, <1>3 DEF vars, GraphInv, Layers!abstractVars

(* Hence every step keeps the invariant and is a step of the layers or     *)
(* none.                                                                   *)
LEMMA NextStep ==
  GraphInv /\ [Next]_vars => GraphInv' /\ [Layers!Next]_Layers!abstractVars
<1>. SUFFICES ASSUME GraphInv, [Next]_vars
              PROVE  GraphInv' /\ [Layers!Next]_Layers!abstractVars
  OBVIOUS
<1>1. ASSUME NEW v \in Vertex, AddVertex(v)
      PROVE  GraphInv' /\ Layers!Next
  BY <1>1, AddVertexStep DEF Layers!Next
<1>2. ASSUME NEW v \in Vertex, RemoveVertex(v)
      PROVE  GraphInv' /\ Layers!Next
  BY <1>2, RemoveVertexStep DEF Layers!Next
<1>3. ASSUME NEW v \in Vertex, NEW w \in Vertex, NEW l \in Label, AddEdge(v, l, w)
      PROVE  GraphInv' /\ Layers!Next
  BY <1>3, AddEdgeStep DEF Layers!Next
<1>4. ASSUME NEW v \in Vertex, NEW w \in Vertex, NEW l \in Label, RemoveEdge(v, l, w)
      PROVE  GraphInv' /\ Layers!Next
  BY <1>4, RemoveEdgeStep DEF Layers!Next
<1>5. ASSUME NEW v \in Vertex, NEW l \in Label, RemoveEdgesToAll(v, l)
      PROVE  GraphInv' /\ Layers!Next
  BY <1>5, RemoveEdgesToAllStep DEF Layers!Next
<1>6. CASE Apply
  BY <1>6, ApplyStep DEF Layers!Next
<1>7. CASE Commit
  BY <1>7, CommitStep DEF Layers!Next
<1>8. CASE Rollback
  BY <1>8, RollbackStep DEF Layers!Next
<1>9. CASE UNCHANGED vars
  BY <1>9, StutterStep
<1>. QED
  BY <1>1, <1>2, <1>3, <1>4, <1>5, <1>6, <1>7, <1>8, <1>9 DEF Next

-----------------------------------------------------------------------------
(* The loops over the logs. *)

(* A loop runs through the states that follow one another by its step. *)
LEMMA LoopRuns ==
  ASSUME NEW step, NEW start, NEW entries, Len(entries) \in Nat, NEW at,
         at[0] = start,
         \A n \in 0..(Len(entries) - 1) : at[n + 1] = step[entries[n + 1]][at[n]]
  PROVE  Loop(step, start, entries) = at[Len(entries)]
<1> DEFINE L == Len(entries)
           Obeys(f) == f = [n \in 0..L |-> IF n = 0 THEN start
                                                     ELSE step[entries[n]][f[n - 1]]]
           run == [n \in 0..L |-> at[n]]
<1>1. Obeys(run)
  <2>1. ASSUME NEW n \in 0..L
        PROVE  at[n] = IF n = 0 THEN start ELSE step[entries[n]][run[n - 1]]
    <3>1. CASE n # 0
      <4>1. n - 1 \in 0..(L - 1) /\ n - 1 \in 0..L /\ n - 1 + 1 = n
        BY <3>1
      <4>2. run[n - 1] = at[n - 1]
        BY <4>1
      <4> HIDE DEF run
      <4>. QED
        BY <3>1, <4>1, <4>2
    <3>. QED
      BY <3>1
  <2>. QED
    BY <2>1
<1>2. ASSUME NEW f, Obeys(f) PROVE f[L] = at[L]
  <2> DEFINE Differ == {n \in 1..L : f[n] # at[n]}
  <2>1. f[0] = at[0]
    BY <1>2
  <2>2. ASSUME Differ # {} PROVE FALSE
    <3>1. PICK x \in Differ : \A y \in Differ : x <= y
      <4>1. Differ \in SUBSET (1..L)
        OBVIOUS
      <4> HIDE DEF Differ
      <4>. QED
        BY <2>2, <4>1, LeastIndex
    <3>2. /\ x \in 1..L /\ x # 0 /\ x \in 0..L /\ x - 1 \in 0..(L - 1) /\ x - 1 + 1 = x
          /\ x - 1 \notin Differ /\ (x - 1 = 0 \/ x - 1 \in 1..L)
      BY <3>1
    <3>3. f[x - 1] = at[x - 1]
      BY <2>1, <3>2
    <3>4. f[x] = step[entries[x]][f[x - 1]]
      BY <1>2, <3>2
    <3>5. at[x] = step[entries[x]][at[x - 1]]
      BY <3>2
    <3>. QED
      BY <3>1, <3>3, <3>4, <3>5
  <2>. QED
    BY <2>1, <2>2
<1>3. Loop(step, start, entries) = (CHOOSE f : Obeys(f))[L]
  BY DEF Loop
<1>4. Obeys(CHOOSE f : Obeys(f))
  <2> HIDE DEF Obeys
  <2>. QED
    BY <1>1
<1> HIDE DEF Obeys
<1>. QED
  BY <1>2, <1>3, <1>4

(* A loop over a reversed log runs through the log's positions from the    *)
(* last to the first: at[k] is the state in which log_[k:] has been undone. *)
LEMMA LoopRunsBack ==
  ASSUME NEW step, NEW Item, NEW log \in Seq(Item), NEW at,
         \A k \in 1..Len(log) : at[k - 1] = step[log[k]][at[k]]
  PROVE  Loop(step, at[Len(log)], Sequence!Reverse(log)) = at[0]
<1> DEFINE L == Len(log)
           entries == Sequence!Reverse(log)
           back == [n \in 0..L |-> at[L - n]]
<1>1. L \in Nat
  OBVIOUS
<1>2. entries = [i \in 1..L |-> log[L - i + 1]]
  BY DEF Sequence!Reverse
<1>3. Len(entries) = L
  <2>1. \A i \in 1..L : log[L - i + 1] \in Item
    <3>1. \A i \in 1..L : L - i + 1 \in 1..L
      BY <1>1
    <3>. QED
      BY <3>1, ElementOfSeq
  <2>2. entries \in [1..L -> Item]
    BY <1>2, <2>1
  <2> HIDE DEF entries
  <2>. QED
    BY <1>1, <2>2
<1> HIDE DEF entries
<1>4. back[0] = at[L] /\ back[L] = at[0]
  BY <1>1
<1>5. ASSUME NEW n \in 0..(L - 1)
      PROVE  back[n + 1] = step[entries[n + 1]][back[n]]
  <2>1. /\ n \in 0..L /\ n + 1 \in 0..L /\ n + 1 \in 1..L /\ L - n \in 1..L
        /\ L - (n + 1) = (L - n) - 1 /\ L - (n + 1) + 1 = L - n
    BY <1>1
  <2>2. back[n + 1] = at[(L - n) - 1] /\ back[n] = at[L - n]
    BY <2>1
  <2>3. entries[n + 1] = log[L - n]
    BY <1>2, <2>1
  <2>4. at[(L - n) - 1] = step[log[L - n]][at[L - n]]
    BY <2>1
  <2> HIDE DEF back
  <2>. QED
    BY <2>2, <2>3, <2>4
<1> HIDE DEF back, L
<1>6. Loop(step, back[0], entries) = back[Len(entries)]
  BY <1>1, <1>3, <1>5, LoopRuns
<1>. QED
  BY <1>3, <1>4, <1>6 DEF L, entries

(* Undoing some of the vertices' log. *)
VertexStates == [present : SUBSET Vertex, byType : [TypeName -> SUBSET Vertex]]
Indexed(vs) == [present |-> vs, byType |-> [t \in TypeName |-> {v \in vs : TypeOf[v] = t}]]

LEMMA UndoVertexIs ==
  ASSUME NEW vs \in SUBSET Vertex, NEW entry \in Change(Vertex)
  PROVE  UndoVertex[entry][Indexed(vs)]
           = Indexed(IF entry.added THEN vs \ {entry.item} ELSE vs \cup {entry.item})
<1> DEFINE v == entry.item
           s == Indexed(vs)
           gone == vs \ {v}
           back == vs \cup {v}
<1>1. v \in Vertex /\ entry.added \in BOOLEAN /\ TypeOf[v] \in TypeName
  BY VertexAssumption DEF Change
<1>2. s \in VertexStates
  BY DEF Indexed, VertexStates
<1>3. s.present = vs /\ s.byType = [t \in TypeName |-> {w \in vs : TypeOf[w] = t}]
  BY DEF Indexed
<1>4. UndoVertex[entry][s]
        = IF entry.added
            THEN [present |-> s.present \ {v},
                  byType  |-> [s.byType EXCEPT ![TypeOf[v]] = s.byType[TypeOf[v]] \ {v}]]
            ELSE [present |-> s.present \cup {v},
                  byType  |-> [s.byType EXCEPT ![TypeOf[v]] = s.byType[TypeOf[v]] \cup {v}]]
  BY <1>2 DEF UndoVertex, VertexStates
<1>5. [s.byType EXCEPT ![TypeOf[v]] = s.byType[TypeOf[v]] \ {v}]
        = [t \in TypeName |-> {w \in gone : TypeOf[w] = t}]
  <2> DEFINE index == [s.byType EXCEPT ![TypeOf[v]] = s.byType[TypeOf[v]] \ {v}]
  <2>1. ASSUME NEW t \in TypeName PROVE index[t] = {w \in gone : TypeOf[w] = t}
    <3>1. CASE t = TypeOf[v]
      <4>1. index[t] = {w \in vs : TypeOf[w] = t} \ {v}
        BY <1>1, <1>3, <3>1
      <4> HIDE DEF index
      <4>. QED
        BY <3>1, <4>1
    <3>2. CASE t # TypeOf[v]
      <4>1. index[t] = {w \in vs : TypeOf[w] = t}
        BY <1>1, <1>3, <3>2
      <4> HIDE DEF index
      <4>. QED
        BY <3>2, <4>1
    <3>. QED
      BY <3>1, <3>2
  <2>2. index = [t \in TypeName |-> index[t]]
    BY <1>1, <1>3
  <2> HIDE DEF index
  <2>3. [t \in TypeName |-> index[t]] = [t \in TypeName |-> {w \in gone : TypeOf[w] = t}]
    BY <2>1
  <2>. QED
    BY <2>2, <2>3 DEF index
<1>6. [s.byType EXCEPT ![TypeOf[v]] = s.byType[TypeOf[v]] \cup {v}]
        = [t \in TypeName |-> {w \in back : TypeOf[w] = t}]
  <2> DEFINE index == [s.byType EXCEPT ![TypeOf[v]] = s.byType[TypeOf[v]] \cup {v}]
  <2>1. ASSUME NEW t \in TypeName PROVE index[t] = {w \in back : TypeOf[w] = t}
    <3>1. CASE t = TypeOf[v]
      <4>1. index[t] = {w \in vs : TypeOf[w] = t} \cup {v}
        BY <1>1, <1>3, <3>1
      <4> HIDE DEF index
      <4>. QED
        BY <3>1, <4>1
    <3>2. CASE t # TypeOf[v]
      <4>1. index[t] = {w \in vs : TypeOf[w] = t}
        BY <1>1, <1>3, <3>2
      <4> HIDE DEF index
      <4>. QED
        BY <3>2, <4>1
    <3>. QED
      BY <3>1, <3>2
  <2>2. index = [t \in TypeName |-> index[t]]
    BY <1>1, <1>3
  <2> HIDE DEF index
  <2>3. [t \in TypeName |-> index[t]] = [t \in TypeName |-> {w \in back : TypeOf[w] = t}]
    BY <2>1
  <2>. QED
    BY <2>2, <2>3 DEF index
<1>7. CASE entry.added
  <2>1. UndoVertex[entry][s] = [present |-> gone, byType |-> [t \in TypeName |-> {w \in gone : TypeOf[w] = t}]]
    BY <1>3, <1>4, <1>5, <1>7
  <2>. QED
    BY <1>7, <2>1 DEF Indexed
<1>8. CASE ~entry.added
  <2>1. UndoVertex[entry][s] = [present |-> back, byType |-> [t \in TypeName |-> {w \in back : TypeOf[w] = t}]]
    BY <1>3, <1>4, <1>6, <1>8
  <2>. QED
    BY <1>8, <2>1 DEF Indexed
<1>. QED
  BY <1>7, <1>8

(* Undoing some of the edges' log. *)
EdgeStates == [forward : SUBSET Edge, inverse : SUBSET Edge]
InSync(es) == [forward |-> es, inverse |-> Mirrored(es)]

LEMMA UndoEdgeIs ==
  ASSUME NEW es \in SUBSET Edge, NEW entry \in Change(Edge)
  PROVE  UndoEdge[entry][InSync(es)]
           = InSync(IF entry.added THEN es \ {entry.item} ELSE es \cup {entry.item})
<1> DEFINE e == entry.item
           s == InSync(es)
<1>1. e \in Edge /\ entry.added \in BOOLEAN
  BY DEF Change
<1>2. s \in EdgeStates /\ s.forward = es /\ s.inverse = Mirrored(es)
  BY MirroredMembers DEF InSync, EdgeStates
<1>3. UndoEdge[entry][s]
        = CASE entry.added /\ e \in es ->
                 [forward |-> es \ {e}, inverse |-> Mirrored(es) \ {Mirror(e)}]
            [] ~entry.added /\ e \notin es ->
                 [forward |-> es \cup {e}, inverse |-> Mirrored(es) \cup {Mirror(e)}]
            [] OTHER -> s
  BY <1>2 DEF UndoEdge, EdgeStates
<1>4. Mirrored({e}) = {Mirror(e)} /\ {e} \in SUBSET Edge
  BY <1>1 DEF Mirrored
<1>5. /\ Mirrored(es \ {e}) = Mirrored(es) \ {Mirror(e)}
      /\ Mirrored(es \cup {e}) = Mirrored(es) \cup {Mirror(e)}
  BY <1>4, MirroredUpdates
<1>6. CASE entry.added /\ e \in es
  BY <1>3, <1>5, <1>6 DEF InSync
<1>7. CASE ~entry.added /\ e \notin es
  BY <1>3, <1>5, <1>7 DEF InSync
<1>8. CASE entry.added /\ e \notin es
  <2>1. es \ {e} = es
    BY <1>8
  <2>. QED
    BY <1>3, <1>8, <2>1
<1>9. CASE ~entry.added /\ e \in es
  <2>1. es \cup {e} = es
    BY <1>9
  <2>. QED
    BY <1>3, <1>9, <2>1
<1>. QED
  BY <1>1, <1>6, <1>7, <1>8, <1>9

(* What a log leads back to consists of items. *)
LEMMA UndoType ==
  ASSUME NEW Item, NEW log \in Seq(Change(Item)), NEW k \in 0..Len(log),
         NEW current \in SUBSET Item
  PROVE  Undo(current, log, k) \in SUBSET Item
<1>1. \A j \in 1..Len(log) : log[j].item \in Item
  <2>1. \A j \in 1..Len(log) : log[j] \in Change(Item)
    BY ElementOfSeq
  <2>. QED
    BY <2>1 DEF Change
<1>2. FirstItems(log, k, FALSE) \subseteq Item
  BY <1>1 DEF FirstItems, After
<1>. QED
  BY <1>2 DEF Undo

(* rollback() runs its loops. *)
LEMMA RollbackLoops ==
  ASSUME GraphInv, Rollback
  PROVE  /\ [present |-> present', byType |-> byType']
              = Loop(UndoVertex, [present |-> present, byType |-> byType],
                     Sequence!Reverse(vlog))
         /\ [forward |-> forward', inverse |-> inverse']
              = Loop(UndoEdge, [forward |-> forward, inverse |-> inverse],
                     Sequence!Reverse(elog))
<1>1. /\ VerticesInv /\ VerticesInv' /\ EdgesInv /\ EdgesInv'
      /\ present' = Undo(present, vlog, 0) /\ forward' = Undo(forward, elog, 0)
  BY VerticesRollbackPreserves, EdgesRollbackPreserves
     DEF GraphInv, Rollback, CommittedVertices, CommittedEdges
<1>2. /\ present \in SUBSET Vertex /\ vlog \in Seq(Change(Vertex)) /\ Len(vlog) \in Nat
      /\ forward \in SUBSET Edge /\ elog \in Seq(Change(Edge)) /\ Len(elog) \in Nat
  BY <1>1, ChangesOfMore, LenProperties
     DEF VerticesInv, VerticesTypeOK, EdgesInv, EdgesTypeOK
<1>3. /\ [present |-> present, byType |-> byType] = Indexed(present)
      /\ [present |-> present', byType |-> byType'] = Indexed(present')
  <2>1. /\ byType = [t \in TypeName |-> {v \in present : TypeOf[v] = t}]
        /\ byType' = [t \in TypeName |-> {v \in present' : TypeOf[v] = t}]
    BY <1>1 DEF VerticesInv, VerticesTypeOK, TypeIndexExact
  <2>. QED
    BY <2>1 DEF Indexed
<1>4. /\ [forward |-> forward, inverse |-> inverse] = InSync(forward)
      /\ [forward |-> forward', inverse |-> inverse'] = InSync(forward')
  BY <1>1 DEF EdgesInv, TrunksMirror, InSync
<1>5. Indexed(present') = Loop(UndoVertex, Indexed(present), Sequence!Reverse(vlog))
  <2> DEFINE at == [k \in 0..Len(vlog) |-> Indexed(Undo(present, vlog, k))]
  <2>1. ASSUME NEW k \in 1..Len(vlog) PROVE at[k - 1] = UndoVertex[vlog[k]][at[k]]
    <3>1. k - 1 \in 0..Len(vlog) /\ k \in 0..Len(vlog)
      BY <1>2
    <3>2. vlog[k] \in Change(Vertex) /\ Undo(present, vlog, k) \in SUBSET Vertex
      BY <1>2, <3>1, ElementOfSeq, UndoType
    <3>3. UndoVertex[vlog[k]][Indexed(Undo(present, vlog, k))]
            = Indexed(Undo(present, vlog, k - 1))
      <4>1. Undo(present, vlog, k - 1)
              = IF vlog[k].added THEN Undo(present, vlog, k) \ {vlog[k].item}
                               ELSE Undo(present, vlog, k) \cup {vlog[k].item}
        BY <1>2, UndoOneMore
      <4>. QED
        BY <3>2, <4>1, UndoVertexIs
    <3>. QED
      BY <3>1, <3>3
  <2>2. at[Len(vlog)] = Indexed(present) /\ at[0] = Indexed(present')
    BY <1>1, <1>2, UndoNothing
  <2> HIDE DEF at
  <2>3. Loop(UndoVertex, at[Len(vlog)], Sequence!Reverse(vlog)) = at[0]
    BY <1>2, <2>1, LoopRunsBack
  <2>. QED
    BY <2>2, <2>3
<1>6. InSync(forward') = Loop(UndoEdge, InSync(forward), Sequence!Reverse(elog))
  <2> DEFINE at == [k \in 0..Len(elog) |-> InSync(Undo(forward, elog, k))]
  <2>1. ASSUME NEW k \in 1..Len(elog) PROVE at[k - 1] = UndoEdge[elog[k]][at[k]]
    <3>1. k - 1 \in 0..Len(elog) /\ k \in 0..Len(elog)
      BY <1>2
    <3>2. elog[k] \in Change(Edge) /\ Undo(forward, elog, k) \in SUBSET Edge
      BY <1>2, <3>1, ElementOfSeq, UndoType
    <3>3. UndoEdge[elog[k]][InSync(Undo(forward, elog, k))]
            = InSync(Undo(forward, elog, k - 1))
      <4>1. Undo(forward, elog, k - 1)
              = IF elog[k].added THEN Undo(forward, elog, k) \ {elog[k].item}
                               ELSE Undo(forward, elog, k) \cup {elog[k].item}
        BY <1>2, UndoOneMore
      <4>. QED
        BY <3>2, <4>1, UndoEdgeIs
    <3>. QED
      BY <3>1, <3>3
  <2>2. at[Len(elog)] = InSync(forward) /\ at[0] = InSync(forward')
    BY <1>1, <1>2, UndoNothing
  <2> HIDE DEF at
  <2>3. Loop(UndoEdge, at[Len(elog)], Sequence!Reverse(elog)) = at[0]
    BY <1>2, <2>1, LoopRunsBack
  <2>. QED
    BY <2>2, <2>3
<1>. QED
  BY <1>3, <1>4, <1>5, <1>6

(* The flags of the items among the first n entries. *)
FlagsUpTo(entries, n) ==
    [x \in ItemsUpTo(entries, n) |-> <<IF FirstAdds(entries, n, x) THEN TRUE ELSE FALSE,
                                  IF LastAdds(entries, n, x) THEN TRUE ELSE FALSE>>]

LEMMA ScanIs ==
  ASSUME NEW Item, NEW entries \in Seq(Change(Item)), NEW n \in 0..(Len(entries) - 1)
  PROVE  Scan(Item)[entries[n + 1]][FlagsUpTo(entries, n)] = FlagsUpTo(entries, n + 1)
<1> DEFINE s == FlagsUpTo(entries, n)
           t == FlagsUpTo(entries, n + 1)
           entry == entries[n + 1]
           seen == ItemsUpTo(entries, n)
           scanned == Scan(Item)[entry][s]
<1>1. /\ entry \in Change(Item) /\ entry.item \in Item /\ entry.added \in BOOLEAN
      /\ \A j \in 1..n : entries[j].item \in Item
  <2>1. \A j \in 1..Len(entries) : entries[j] \in Change(Item)
    BY ElementOfSeq
  <2>2. n + 1 \in 1..Len(entries) /\ 1..n \subseteq 1..Len(entries)
    OBVIOUS
  <2>. QED
    BY <2>1, <2>2 DEF Change
<1>2. seen \in SUBSET Item
  BY <1>1 DEF ItemsUpTo
<1>3. s \in [seen -> BOOLEAN \X BOOLEAN] /\ DOMAIN s = seen
  BY DEF FlagsUpTo
<1>4. s \in FlagsOf(Item)
  BY <1>2, <1>3 DEF FlagsOf
<1>5. /\ DOMAIN scanned = seen \cup {entry.item}
      /\ scanned = [x \in seen \cup {entry.item} |-> scanned[x]]
      /\ \A x \in seen \cup {entry.item} : scanned[x] =
            CASE x # entry.item -> s[x]
              [] x \notin seen  -> <<entry.added, entry.added>>
              [] OTHER          -> <<s[x][1], entry.added>>
  <2> DEFINE result == [x \in seen \cup {entry.item} |->
                          CASE x # entry.item -> s[x]
                            [] x \notin seen  -> <<entry.added, entry.added>>
                            [] OTHER          -> <<s[x][1], entry.added>>]
  <2>1. scanned = result
    BY <1>1, <1>3, <1>4 DEF Scan
  <2> HIDE DEF scanned
  <2>. QED
    BY <2>1
<1>6. ItemsUpTo(entries, n + 1) = seen \cup {entry.item}
  BY OneMoreEntry
<1>7. ASSUME NEW x \in seen \cup {entry.item} PROVE scanned[x] = t[x]
  <2> DEFINE first == FirstAdds(entries, n, x)
             last == LastAdds(entries, n, x)
             first1 == FirstAdds(entries, n + 1, x)
             last1 == LastAdds(entries, n + 1, x)
  <2>1. /\ x # entry.item => (first1 <=> first) /\ (last1 <=> last)
        /\ x = entry.item => (last1 <=> entry.added)
        /\ x = entry.item /\ x \notin seen => (first1 <=> entry.added)
        /\ x = entry.item /\ x \in seen => (first1 <=> first)
    BY OneMoreEntry, Zenon
  <2>2. t[x] = <<IF first1 THEN TRUE ELSE FALSE, IF last1 THEN TRUE ELSE FALSE>>
    BY <1>6 DEF FlagsUpTo
  <2>3. x \in seen => s[x] = <<IF first THEN TRUE ELSE FALSE, IF last THEN TRUE ELSE FALSE>>
    BY DEF FlagsUpTo
  <2> HIDE DEF first, last, first1, last1, seen, s, t, scanned, entry
  <2>4. entry.added = IF entry.added THEN TRUE ELSE FALSE
    BY <1>1
  <2>5. CASE x # entry.item
    <3>1. x \in seen /\ scanned[x] = s[x]
      BY <1>5, <2>5
    <3>. QED
      BY <2>1, <2>2, <2>3, <2>5, <3>1
  <2>6. CASE x = entry.item /\ x \notin seen
    <3>1. scanned[x] = <<entry.added, entry.added>>
      BY <1>5, <2>6
    <3>2. (IF first1 THEN TRUE ELSE FALSE) = entry.added
      BY <2>1, <2>4, <2>6
    <3>3. (IF last1 THEN TRUE ELSE FALSE) = entry.added
      BY <2>1, <2>4, <2>6
    <3>. QED
      BY <2>2, <3>1, <3>2, <3>3
  <2>7. CASE x = entry.item /\ x \in seen
    <3>1. scanned[x] = <<s[x][1], entry.added>>
      BY <1>5, <2>7
    <3>2. s[x][1] = IF first THEN TRUE ELSE FALSE
      <4> DEFINE a == IF first THEN TRUE ELSE FALSE
                 b == IF last THEN TRUE ELSE FALSE
      <4>1. s[x] = <<a, b>>
        BY <2>3, <2>7
      <4> HIDE DEF a, b
      <4>2. s[x][1] = a
        BY <4>1
      <4>. QED
        BY <4>2 DEF a
    <3>3. (IF first1 THEN TRUE ELSE FALSE) = s[x][1]
      BY <2>1, <2>7, <3>2
    <3>4. (IF last1 THEN TRUE ELSE FALSE) = entry.added
      BY <2>1, <2>4, <2>7
    <3>. QED
      BY <2>2, <3>1, <3>3, <3>4
  <2>. QED
    BY <2>5, <2>6, <2>7
<1>8. t = [x \in seen \cup {entry.item} |-> t[x]]
  BY <1>6 DEF FlagsUpTo
<1> HIDE DEF scanned, t, seen, entry
<1>9. scanned = t
  BY <1>5, <1>7, <1>8
<1>. QED
  BY <1>9 DEF scanned, t, s, entry

(* The pass of iter_just_changed() finds what its closed form says. *)
LEMMA ScanFinds ==
  ASSUME NEW Item, NEW log \in Seq(Change(Item)), NEW k \in 0..Len(log),
         NEW current, Alternates(log, current), NEW added \in BOOLEAN
  PROVE  Scanned(Item, log, k, added) = JustChanged(log, k, added)
<1> DEFINE entries == DropApplied(log, k)
           s == Loop(Scan(Item), <<>>, entries)
           L == Len(entries)
<1>1. /\ entries \in Seq(Change(Item))
      /\ Undo(current, entries, 0) = Undo(current, log, k)
      /\ Alternates(entries, current)
  BY UndoDropped
<1> HIDE DEF entries
<1>2. L \in Nat /\ 0 \in 0..L
  BY <1>1
<1>3. JustChanged(log, k, added) = JustChanged(entries, 0, added)
  <2>1. ReportsNetChange(log, k, current) /\ ReportsNetChange(entries, 0, current)
    BY <1>1, <1>2, NetChange
  <2>. QED
    BY <1>1, <2>1 DEF ReportsNetChange
<1>4. s = FlagsUpTo(entries, L)
  <2> DEFINE at == [n \in 0..L |-> FlagsUpTo(entries, n)]
  <2>1. at[0] = <<>>
    <3>1. ItemsUpTo(entries, 0) = {}
      BY DEF ItemsUpTo
    <3>2. at[0] = FlagsUpTo(entries, 0)
      BY <1>2
    <3>. QED
      BY <3>1, <3>2 DEF FlagsUpTo
  <2>2. ASSUME NEW n \in 0..(L - 1) PROVE at[n + 1] = Scan(Item)[entries[n + 1]][at[n]]
    <3>1. n \in 0..L /\ n + 1 \in 0..L
      BY <1>2
    <3>2. at[n] = FlagsUpTo(entries, n) /\ at[n + 1] = FlagsUpTo(entries, n + 1)
      BY <3>1
    <3> HIDE DEF at
    <3>. QED
      BY <1>1, <3>2, ScanIs
  <2>3. at[L] = FlagsUpTo(entries, L)
    BY <1>2
  <2> HIDE DEF at
  <2>4. Loop(Scan(Item), <<>>, entries) = at[L]
    BY <1>2, <2>1, <2>2, LoopRuns
  <2>. QED
    BY <2>3, <2>4
<1>5. Scanned(Item, log, k, added) = {x \in DOMAIN s : s[x] = <<added, added>>}
  BY DEF Scanned, DropApplied, entries
<1> HIDE DEF s, L
<1>6. ASSUME NEW x \in ItemsUpTo(entries, L)
      PROVE  s[x] = <<added, added>> <=> (FirstAdds(entries, L, x) <=> added)
                                          /\ (LastAdds(entries, L, x) <=> added)
  <2> DEFINE a == IF FirstAdds(entries, L, x) THEN TRUE ELSE FALSE
             b == IF LastAdds(entries, L, x) THEN TRUE ELSE FALSE
  <2>1. s[x] = <<a, b>>
    BY <1>4, <1>6 DEF FlagsUpTo
  <2>2. /\ a = added <=> (FirstAdds(entries, L, x) <=> added)
        /\ b = added <=> (LastAdds(entries, L, x) <=> added)
    OBVIOUS
  <2> HIDE DEF a, b
  <2>3. s[x] = <<added, added>> <=> a = added /\ b = added
    BY <2>1
  <2>. QED
    BY <2>2, <2>3, Zenon
<1>7. DOMAIN s = ItemsUpTo(entries, L)
  BY <1>4 DEF FlagsUpTo
<1>8. ASSUME NEW x
      PROVE  x \in JustChanged(entries, 0, added)
               <=> x \in ItemsUpTo(entries, L) /\ s[x] = <<added, added>>
  BY <1>1, <1>6, SeenToTheEnd DEF L
<1>. QED
  BY <1>3, <1>5, <1>7, <1>8

(* apply() reports what its passes over the two logs find. *)
LEMMA ApplyLoops ==
  ASSUME GraphInv, Apply
  PROVE  changes' =
          [addedVertices   |-> Scanned(Vertex, vlog, vapplied, TRUE),
           removedVertices |-> Scanned(Vertex, vlog, vapplied, FALSE),
           addedEdges      |-> Scanned(Edge, elog, eapplied, TRUE),
           removedEdges    |-> Scanned(Edge, elog, eapplied, FALSE)]
<1>1. /\ vlog \in Seq(Change(Vertex)) /\ vapplied \in 0..Len(vlog) /\ Alternates(vlog, present)
      /\ elog \in Seq(Change(Edge)) /\ eapplied \in 0..Len(elog) /\ Alternates(elog, forward)
  BY ChangesOfMore DEF GraphInv, VerticesInv, VerticesTypeOK, EdgesInv, EdgesTypeOK
<1>2. /\ \A added \in BOOLEAN : Scanned(Vertex, vlog, vapplied, added) = JustChanged(vlog, vapplied, added)
      /\ \A added \in BOOLEAN : Scanned(Edge, elog, eapplied, added) = JustChanged(elog, eapplied, added)
  BY <1>1, ScanFinds
<1>3. changes' = [addedVertices   |-> JustAddedVertices,
                  removedVertices |-> JustRemovedVertices,
                  addedEdges      |-> JustAddedEdges,
                  removedEdges    |-> JustRemovedEdges]
  <2>1. CASE VerticesUnapplied \/ EdgesUnapplied
    BY <2>1 DEF Apply
  <2>2. CASE ~VerticesUnapplied /\ ~EdgesUnapplied
    <3>1. vapplied = Len(vlog) /\ eapplied = Len(elog)
      BY <1>1, <2>2 DEF VerticesUnapplied, EdgesUnapplied
    <3>2. After(vlog, vapplied) = {} /\ After(elog, eapplied) = {}
      BY <1>1, <3>1 DEF After
    <3>3. /\ JustAddedVertices = {} /\ JustRemovedVertices = {}
          /\ JustAddedEdges = {} /\ JustRemovedEdges = {}
      BY <3>2 DEF JustAddedVertices, JustRemovedVertices, JustAddedEdges, JustRemovedEdges,
                  JustChanged, FirstItems
    <3>. QED
      BY <2>2, <3>3 DEF Apply, NoChanges
  <2>. QED
    BY <2>1, <2>2
<1>. QED
  BY <1>2, <1>3 DEF JustAddedVertices, JustRemovedVertices, JustAddedEdges, JustRemovedEdges

-----------------------------------------------------------------------------
(* The theorems.                                                           *)

(* The inductive invariant holds in every reachable state. *)
THEOREM Invariance == Spec => []GraphInv
<1>1. Init => GraphInv
  BY InitInv
<1>2. GraphInv /\ [Next]_vars => GraphInv'
  BY NextStep
<1>. QED
  BY <1>1, <1>2, PTL DEF Spec

(* Every variable of both containers keeps its type. *)
THEOREM TypeCorrect == Spec => []TypeOK
<1>1. GraphInv => TypeOK
  BY DEF GraphInv, VerticesInv, EdgesInv, TypeOK
<1>. QED
  BY <1>1, Invariance, PTL

(* No edge dangles: not now, not in what apply() has reported, and not in  *)
(* what a rollback() would return to.                                      *)
THEOREM NothingDangles == Spec => []NoDanglingEdges
<1>1. GraphInv => NoDanglingEdges
  BY DEF GraphInv
<1>. QED
  BY <1>1, Invariance, PTL

(* The two trunks hold the same edges, after rollbacks too. *)
THEOREM TrunksInSync == Spec => []TrunksMirror
<1>1. GraphInv => TrunksMirror
  BY DEF GraphInv, EdgesInv
<1>. QED
  BY <1>1, Invariance, PTL

(* The index by type name is exact, after rollbacks too. *)
THEOREM TypeIndexInSync == Spec => []TypeIndexExact
<1>1. GraphInv => TypeIndexExact
  BY DEF GraphInv, VerticesInv
<1>. QED
  BY <1>1, Invariance, PTL

(* Additions and removals of an item alternate in the logs, whatever the   *)
(* updates, applies and commits in between.                                *)
THEOREM LogsStayAlternating == Spec => []LogsAlternate
<1>1. GraphInv => LogsAlternate
  BY DEF GraphInv, VerticesInv, EdgesInv, LogsAlternate
<1>. QED
  BY <1>1, Invariance, PTL

(* The graph with its logs and indexes implements three copies of vertices *)
(* and edges: what apply() reports is exactly what changed since the last  *)
(* one, commit() keeps unapplied changes, rollback() restores the last     *)
(* commit.                                                                 *)
THEOREM GraphIsTransactional == Spec => Transactions
<1>1. Init => Layers!Init
  BY InitInv
<1>2. GraphInv /\ [Next]_vars => [Layers!Next]_Layers!abstractVars
  BY NextStep
<1>. QED
  BY <1>1, <1>2, Invariance, PTL DEF Spec, Transactions, Layers!Spec

(* What rollback() leaves behind, in closed form, is what its two loops    *)
(* from the last entry of a log to the first leave, whatever was logged.   *)
THEOREM RollbackIsTheLoop == Spec => RollbackRunsTheLoop
<1>1. GraphInv /\ [Next]_vars =>
        [ Rollback =>
          /\ [present |-> present', byType |-> byType']
                = Loop(UndoVertex, [present |-> present, byType |-> byType],
                       Sequence!Reverse(vlog))
          /\ [forward |-> forward', inverse |-> inverse']
                = Loop(UndoEdge, [forward |-> forward, inverse |-> inverse],
                       Sequence!Reverse(elog)) ]_vars
  BY RollbackLoops
<1>. QED
  BY <1>1, Invariance, PTL DEF Spec, RollbackRunsTheLoop

(* What apply() reports, in closed form, is what one pass over each log    *)
(* finds.                                                                  *)
THEOREM ApplyIsTheLoop == Spec => ApplyRunsTheLoop
<1>1. GraphInv /\ [Next]_vars =>
        [ Apply => changes' =
            [addedVertices   |-> Scanned(Vertex, vlog, vapplied, TRUE),
             removedVertices |-> Scanned(Vertex, vlog, vapplied, FALSE),
             addedEdges      |-> Scanned(Edge, elog, eapplied, TRUE),
             removedEdges    |-> Scanned(Edge, elog, eapplied, FALSE)] ]_vars
  BY ApplyLoops
<1>. QED
  BY <1>1, Invariance, PTL DEF Spec, ApplyRunsTheLoop
=============================================================================

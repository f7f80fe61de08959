-------------------------------- MODULE Refs --------------------------------
(***************************************************************************)
(* Refs (refs.h, refs.cpp): what a match says of the names in a pattern, a *)
(* set of literals `name is vertex' and `name is not vertex'.  It stands   *)
(* for a region, all the ways to give every name a vertex that agree with  *)
(* it; the operators below are the algebra of such regions.                *)
(*                                                                         *)
(* The code keeps literals, and the regions whose union it means, in       *)
(* sorted lists; here they are sets.  An optional result is a set with at  *)
(* most one element.                                                       *)
(***************************************************************************)
EXTENDS VertexData, SequencesExt

CONSTANT RefName   \* the names in patterns

Literal == [name : RefName, negative : BOOLEAN, value : Vertex]

Is(name, v)    == [name |-> name, negative |-> FALSE, value |-> v]
IsNot(name, v) == [name |-> name, negative |-> TRUE,  value |-> v]
Negated(l)     == [l EXCEPT !.negative = ~@]

Contradict(l, m) ==
    /\ l.name = m.name
    /\ ~l.negative
    /\ m.negative = (m.value = l.value)

(* What a name is not follows from what it is, and is dropped. *)
Normalized(literals) ==
    IF \E l, m \in literals : Contradict(l, m)
      THEN {}
      ELSE {{l \in literals :
                l.negative => \A m \in literals : m.name = l.name => m.negative}}

Binding(refs, name, v) ==
    CASE Is(name, v) \in refs                                       -> "already set"
      [] IsNot(name, v) \in refs                                    -> "impossible"
      [] \E l \in refs : l.name = name /\ ~l.negative /\ l.value # v -> "impossible"
      [] OTHER                                                      -> "possible"

CopyAndSet(refs, name, v) == {l \in refs : l.name # name} \cup {Is(name, v)}

IntersectWith(refs, other) == Normalized(refs \cup other)

Implies(refs, other) ==
    \A required \in other :
        \E l \in refs :
            /\ l.name = required.name
            /\ IF required.negative THEN l.negative = (l.value = required.value)
                                    ELSE l = required

RestrictedTo(refs, names) == {l \in refs : l.name \in names}

(* Regions without those contained in another one. *)
SimplifyUnion(terms) == {r \in terms : \A s \in terms \ {r} : ~Implies(r, s)}

(* A variant that gives up a region for any overlap. *)
SubtractOutright(refs, other) == IF IntersectWith(refs, other) = {} THEN {refs} ELSE {}

Subtract(refs, other) ==
    IF IntersectWith(refs, other) = {}
      THEN {refs}
      ELSE SimplifyUnion(UNION {IntersectWith(refs, {Negated(l)}) : l \in other})

SubtractFromUnion(terms, refs) == SimplifyUnion(UNION {Subtract(t, refs) : t \in terms})

(* What is left of a union when n regions were subtracted, and all of them. *)
Remainders(terms, regions) ==
    LET after[n \in 0..Len(regions)] ==
          IF n = 0 THEN terms ELSE SubtractFromUnion(after[n - 1], regions[n])
    IN  after
SubtractAll(terms, regions) == Remainders(terms, regions)[Len(regions)]

HasNegatives(refs) == \E l \in refs : l.negative

(* The names that are only said not to be some vertices, and those.        *)
ExcludedValues(refs, name) == {l.value : l \in {m \in refs : m.negative /\ m.name = name}}
ExcludedNames(refs)        == {l.name : l \in {m \in refs : m.negative}}

-----------------------------------------------------------------------------
(* A cell of the arrangement of some regions is where just its members     *)
(* overlap, a union of terms.                                              *)

(* What a cell and the next region r have in common, and the rest of it. *)
SplitCell(cell, r) ==
    LET common == UNION {IntersectWith(t, r) : t \in cell.terms}
        inside  == [terms |-> SimplifyUnion(common), members |-> cell.members \cup {r}]
        outside == [terms |-> SubtractFromUnion(cell.terms, r), members |-> cell.members]
    IN  IF common = {} THEN {cell} ELSE {inside} \cup {c \in {outside} : c.terms # {}}

(* One round of arrange(): cells are split by the next region r, and there *)
(* is a cell for what is fresh, in no region before it.                    *)
ArrangeNext(cells, r, fresh) ==
    (UNION {SplitCell(cell, r) : cell \in cells})
      \cup {c \in {[terms |-> fresh, members |-> {r}]} : c.terms # {}}

Arrangements(regions) ==
    LET after[i \in 0..Len(regions)] ==
          IF i = 0 THEN {}
            ELSE ArrangeNext(after[i - 1], regions[i], Remainders({regions[i]}, regions)[i - 1])
    IN  after

(* Regions that set the same names, and exclude nothing, cannot overlap.   *)
PositiveNames(refs) == {l.name : l \in {m \in refs : ~m.negative}}
Disjoint(regions) ==
    \A i \in DOMAIN regions :
        ~HasNegatives(regions[i]) /\ PositiveNames(regions[i]) = PositiveNames(regions[1])

Cell(r) == [terms |-> {r}, members |-> {r}]

Arrange(regions) == IF Disjoint(regions) THEN {Cell(r) : r \in ToSet(regions)}
                                         ELSE Arrangements(regions)[Len(regions)]
=============================================================================

------------------------- MODULE EnvironmentProofs -------------------------
(***************************************************************************)
(* Proofs about Environment, for any vertices, observers, limit and bound  *)
(* on the buffer: the invariants of EnvironmentSafety, and that apply()    *)
(* and commit() are atomic.                                                *)
(***************************************************************************)
EXTENDS EnvironmentSafety, UndoLogProofs

-----------------------------------------------------------------------------
(* There are finitely many observations of a change, so their answers are  *)
(* sequences.                                                              *)
LEMMA ObservedFinite ==
  ASSUME NEW added, NEW removed
  PROVE  IsFiniteSet(Observed(added, removed))
<1> DEFINE T == (Observer \X Vertex) \X BOOLEAN
           f == [t \in T |-> [observer |-> t[1][1], vertex |-> t[1][2], created |-> t[2]]]
<1>1. IsFiniteSet(BOOLEAN)
  <2>1. BOOLEAN = ({} \cup {TRUE}) \cup {FALSE}
    OBVIOUS
  <2>2. IsFiniteSet({} \cup {TRUE})
    BY FS_EmptySet, FS_AddElement
  <2>3. IsFiniteSet(({} \cup {TRUE}) \cup {FALSE})
    BY <2>2, FS_AddElement
  <2>. QED
    BY <2>1, <2>3
<1>2. IsFiniteSet(T)
  <2>1. IsFiniteSet(Observer \X Vertex)
    BY EnvironmentAssumption, FS_Product
  <2>. QED
    BY <1>1, <2>1, FS_Product
<1>3. f \in Surjection(T, Observation)
  <2>1. f \in [T -> Observation]
    BY DEF Observation
  <2>2. ASSUME NEW ob \in Observation
        PROVE  \E t \in T : f[t] = ob
    <3>1. /\ ob.observer \in Observer /\ ob.vertex \in Vertex /\ ob.created \in BOOLEAN
          /\ ob = [observer |-> ob.observer, vertex |-> ob.vertex, created |-> ob.created]
      BY DEF Observation
    <3>2. <<<<ob.observer, ob.vertex>>, ob.created>> \in T
      BY <3>1
    <3>3. f[<<<<ob.observer, ob.vertex>>, ob.created>>] = ob
      BY <3>1, <3>2
    <3>. QED
      BY <3>2, <3>3
  <2>. QED
    BY <2>1, <2>2 DEF Surjection
<1>4. IsFiniteSet(Observation)
  BY <1>2, <1>3, FS_Surjection
<1>5. Observed(added, removed) \in SUBSET Observation
  BY DEF Observed
<1>. QED
  BY <1>4, <1>5, FS_Subset

LEMMA AnswersAreSequences ==
  ASSUME NEW added, NEW removed, NEW order \in Answers(Observed(added, removed))
  PROVE  /\ order \in Seq(Observation)
         /\ \A i \in 1..Len(order) : order[i] \in Observed(added, removed)
         /\ \A ob \in Observed(added, removed) : \E i \in 1..Len(order) : order[i] = ob
<1> DEFINE obs == Observed(added, removed)
           n == Cardinality(obs)
<1>1. n \in Nat
  BY ObservedFinite, FS_CardinalityType
<1>2. /\ order \in [1..n -> obs]
      /\ \A ob \in obs : \E i \in 1..n : order[i] = ob
  BY DEF Answers, Bijection, Injection, Surjection
<1>3. obs \subseteq Observation
  BY DEF Observed
<1>4. order \in Seq(obs) /\ Len(order) = n
  BY <1>1, <1>2
<1>5. order \in Seq(Observation)
  BY <1>1, <1>2, <1>3
<1>. QED
  BY <1>2, <1>4, <1>5

-----------------------------------------------------------------------------
(* What a sequence of observations has to say to an observer of the        *)
(* vertices that were created, or removed.                                 *)
Says(obs, o, created) ==
    {obs[i].vertex : i \in {j \in DOMAIN obs : obs[j].observer = o /\ obs[j].created = created}}

(* What an observer can see of some vertices.                              *)
Seen(o, vs) == vs \cap Watches[o]

LEMMA NothingToSay ==
  ASSUME NEW o, NEW created
  PROVE  Says(<<>>, o, created) = {}
  BY DEF Says

(* An answer of the adapter tells a follower of the whole net change.      *)
LEMMA AnswersSayWhatChanged ==
  ASSUME NEW added \in SUBSET Vertex, NEW removed \in SUBSET Vertex, NEW o \in Follower,
         NEW order \in Answers(Observed(added, removed))
  PROVE  Says(order, o, TRUE) = Seen(o, added) /\ Says(order, o, FALSE) = Seen(o, removed)
<1>1. /\ DOMAIN order = 1..Len(order)
      /\ \A i \in 1..Len(order) : order[i] \in Observed(added, removed)
      /\ \A ob \in Observed(added, removed) : \E i \in 1..Len(order) : order[i] = ob
  BY AnswersAreSequences
<1>2. o \in Observer /\ <<o, TRUE>> \in Handles /\ <<o, FALSE>> \in Handles
  BY DEF Follower
<1>3. ASSUME NEW created \in BOOLEAN, NEW v \in Vertex
      PROVE  [observer |-> o, vertex |-> v, created |-> created] \in Observed(added, removed)
               <=> v \in Watches[o] /\ v \in IF created THEN added ELSE removed
  <2>. DEFINE ob == [observer |-> o, vertex |-> v, created |-> created]
  <2>1. ob \in Observation /\ ob.observer = o /\ ob.vertex = v /\ ob.created = created
    BY <1>2 DEF Observation
  <2>2. <<ob.observer, ob.created>> \in Handles
    BY <1>2, <2>1
  <2>. QED
    BY <2>1, <2>2 DEF Observed
<1>4. ASSUME NEW created \in BOOLEAN, NEW v
      PROVE  v \in Says(order, o, created)
               <=> v \in Vertex /\ [observer |-> o, vertex |-> v, created |-> created]
                                      \in Observed(added, removed)
  <2>1. ASSUME v \in Says(order, o, created)
        PROVE  v \in Vertex /\ [observer |-> o, vertex |-> v, created |-> created]
                                  \in Observed(added, removed)
    <3>1. PICK i \in 1..Len(order) :
             order[i].observer = o /\ order[i].created = created /\ order[i].vertex = v
      BY <1>1, <2>1 DEF Says
    <3>2. order[i] \in Observed(added, removed) /\ order[i] \in Observation
      BY <1>1 DEF Observed
    <3>3. v \in Vertex /\ order[i] = [observer |-> o, vertex |-> v, created |-> created]
      BY <3>1, <3>2 DEF Observation
    <3>. QED
      BY <3>2, <3>3
  <2>2. ASSUME [observer |-> o, vertex |-> v, created |-> created] \in Observed(added, removed)
        PROVE  v \in Says(order, o, created)
    <3>1. PICK i \in 1..Len(order) :
             order[i] = [observer |-> o, vertex |-> v, created |-> created]
      BY <1>1, <2>2
    <3>2. order[i].observer = o /\ order[i].created = created /\ order[i].vertex = v
      BY <3>1
    <3>. QED
      BY <1>1, <3>2 DEF Says
  <2>. QED
    BY <2>1, <2>2
<1>. QED
  BY <1>3, <1>4 DEF Seen

(* The first observation is what its rest has not to say any more.         *)
LEMMA FirstAndRest ==
  ASSUME NEW obs \in Seq(Observation), obs # <<>>, NEW o, NEW created
  PROVE  Says(obs, o, created) =
           Says(Tail(obs), o, created)
             \cup IF Head(obs).observer = o /\ Head(obs).created = created
                    THEN {Head(obs).vertex} ELSE {}
<1> DEFINE L == Len(obs)
           rest == Tail(obs)
<1>1. /\ L \in Nat /\ L >= 1 /\ Head(obs) = obs[1]
      /\ DOMAIN obs = 1..L /\ DOMAIN rest = 1..(L - 1)
      /\ \A i \in 1..(L - 1) : rest[i] = obs[i + 1]
  OBVIOUS
<1>2. ASSUME NEW v
      PROVE  v \in Says(obs, o, created)
               <=> \/ v \in Says(rest, o, created)
                   \/ v = obs[1].vertex /\ obs[1].observer = o /\ obs[1].created = created
  <2>1. v \in Says(obs, o, created)
          <=> \E i \in 1..L : obs[i].observer = o /\ obs[i].created = created /\ obs[i].vertex = v
    BY <1>1 DEF Says
  <2>2. v \in Says(rest, o, created)
          <=> \E i \in 1..(L - 1) :
                rest[i].observer = o /\ rest[i].created = created /\ rest[i].vertex = v
    BY <1>1 DEF Says
  <2>3. /\ 1 \in 1..L
        /\ \A i \in 1..(L - 1) : i + 1 \in 1..L
        /\ \A i \in 1..L : i = 1 \/ (i - 1 \in 1..(L - 1) /\ (i - 1) + 1 = i)
    BY <1>1
  <2>. QED
    BY <1>1, <2>1, <2>2, <2>3
<1>. QED
  BY <1>1, <1>2

-----------------------------------------------------------------------------
(* The inductive invariant.  A loop that goes on has not used up its       *)
(* limit, and no follower is about to be told both that a vertex was       *)
(* created and that it was removed.                                        *)
WithinLimit == at # "client" => iterations <= Limit
Consistent  ==
    \A o \in Follower : Says(observations, o, TRUE) \cap Says(observations, o, FALSE) = {}
ToldOf(os) ==
    \A o \in Follower :
        (told[o] \ Says(os, o, FALSE)) \cup Says(os, o, TRUE) = applied \cap Watches[o]

EnvironmentInv ==
    /\ TypeOK
    /\ WithinLimit
    /\ EntitiesInSync
    /\ Consistent
    /\ ~astray => ToldOf(observations)

(* Where rollback() ends: everything is as it was at the last commit.      *)
LEMMA RestoreStep ==
  ASSUME EnvironmentInv, Restore
  PROVE  /\ {present', applied', committed', entities'} \subseteq SUBSET Vertex
         /\ pending' = <<>> /\ committed' = committed
         /\ entities' = Working' /\ Working' = committed'
         /\ told' \in [Follower -> SUBSET Vertex]
         /\ \A o \in Follower : told'[o] = applied' \cap Watches[o]
<1>1. committed \in SUBSET Vertex
  BY DEF EnvironmentInv, TypeOK
<1>2. /\ present' = committed /\ applied' = committed /\ entities' = committed
      /\ committed' = committed /\ pending' = <<>>
      /\ told' = [o \in Follower |-> committed \cap Watches[o]]
  BY DEF Restore
<1>3. Working' = committed
  BY <1>2, UpdatedByNothing DEF Working
<1>. QED
  BY <1>1, <1>2, <1>3

LEMMA EditStep ==
  ASSUME EnvironmentInv, NEW v \in Vertex, Add(v) \/ Remove(v)
  PROVE  EnvironmentInv' /\ Promise!Edit(v)
<1>1. /\ pending \in Seq(Change(Vertex)) /\ present \in SUBSET Vertex
      /\ entities \in SUBSET Vertex /\ entities = Working
  BY DEF EnvironmentInv, TypeOK, EntitiesInSync
<1>2. UNCHANGED <<layers, loop, history>>
  BY DEF Add, Remove
<1>3. /\ pending' \in Seq(Change(Vertex)) /\ entities' \in SUBSET Vertex
      /\ entities' = Working'
      /\ Working' \in {Working \cup {v}, Working \ {v}}
  <2>1. CASE Add(v)
    <3> DEFINE change == [item |-> v, added |-> TRUE]
    <3>1. change \in Change(Vertex) /\ change.added = TRUE /\ change.item = v
      BY DEF Change
    <3>2. /\ pending' = Append(pending, change)
          /\ entities' = entities \cup {v} /\ present' = present
      BY <2>1 DEF Add, layers
    <3>. HIDE DEF change
    <3>3. Updated(present, Append(pending, change)) = UpdatedOnce(Updated(present, pending), change)
      BY <1>1, <3>1, UpdatedByOneMore
    <3>4. Working' = Working \cup {v}
      BY <3>1, <3>2, <3>3 DEF Working, UpdatedOnce
    <3>. QED
      BY <1>1, <3>1, <3>2, <3>4
  <2>2. CASE Remove(v)
    <3> DEFINE change == [item |-> v, added |-> FALSE]
    <3>1. change \in Change(Vertex) /\ change.added = FALSE /\ change.item = v
      BY DEF Change
    <3>2. /\ pending' = Append(pending, change)
          /\ entities' = entities \ {v} /\ present' = present
      BY <2>2 DEF Remove, layers
    <3>. HIDE DEF change
    <3>3. Updated(present, Append(pending, change)) = UpdatedOnce(Updated(present, pending), change)
      BY <1>1, <3>1, UpdatedByOneMore
    <3>4. Working' = Working \ {v}
      BY <3>1, <3>2, <3>3 DEF Working, UpdatedOnce
    <3>. QED
      BY <1>1, <3>1, <3>2, <3>4
  <2>. QED
    BY <2>1, <2>2
<1>4. TypeOK'
  BY <1>2, <1>3 DEF EnvironmentInv, TypeOK, layers, loop, history
<1>5. WithinLimit' /\ Consistent' /\ (~astray => ToldOf(observations))'
  BY <1>2 DEF EnvironmentInv, WithinLimit, Consistent, ToldOf, layers, loop, history
<1>6. EnvironmentInv'
  BY <1>3, <1>4, <1>5 DEF EnvironmentInv, EntitiesInSync
<1>. QED
  BY <1>2, <1>3, <1>6 DEF Promise!Edit, layers, loop

LEMMA QueryStep ==
  ASSUME EnvironmentInv, Query
  PROVE  EnvironmentInv' /\ UNCHANGED Promise!promiseVars
<1>1. /\ pending \in Seq(Change(Vertex)) /\ present \in SUBSET Vertex
  BY DEF EnvironmentInv, TypeOK
<1>2. Working \in SUBSET Vertex
  BY <1>1, UpdatedType DEF Working
<1>3. Working' = Working
  BY UpdatedByNothing DEF Working, Query
<1>4. EnvironmentInv'
  <2>1. TypeOK'
    BY <1>2 DEF Query, EnvironmentInv, TypeOK, loop, history
  <2>2. EntitiesInSync'
    BY <1>3 DEF Query, EnvironmentInv, EntitiesInSync
  <2>3. WithinLimit' /\ Consistent' /\ (~astray => ToldOf(observations))'
    BY DEF Query, EnvironmentInv, WithinLimit, Consistent, ToldOf, loop, history
  <2>. QED
    BY <2>1, <2>2, <2>3 DEF EnvironmentInv
<1>. QED
  BY <1>3, <1>4 DEF Query, loop, Promise!promiseVars

LEMMA RollBackStep ==
  ASSUME EnvironmentInv, RollBack
  PROVE  EnvironmentInv' /\ Promise!Abandon
<1>1. EnvironmentInv'
  <2>1. TypeOK' /\ WithinLimit' /\ EntitiesInSync'
    <3>1. UNCHANGED loop /\ astray' \in BOOLEAN
      BY DEF RollBack
    <3>2. pending' \in Seq(Change(Vertex))
      BY RestoreStep DEF RollBack
    <3>. QED
      BY <3>1, <3>2, RestoreStep
      DEF RollBack, EnvironmentInv, TypeOK, WithinLimit, EntitiesInSync, loop
  <2>2. Consistent'
    BY DEF RollBack, loop, EnvironmentInv, Consistent
  <2>3. ASSUME ~astray' PROVE ToldOf(observations)'
    <3>1. at = "client" /\ observations' = <<>>
      BY <2>3 DEF RollBack, UserCode, loop, EnvironmentInv, TypeOK
    <3>. QED
      BY <3>1, RestoreStep, NothingToSay DEF RollBack, ToldOf
  <2>. QED
    BY <2>1, <2>2, <2>3 DEF EnvironmentInv
<1>2. Promise!Abandon
  BY RestoreStep DEF RollBack, loop, Promise!Abandon
<1>. QED
  BY <1>1, <1>2

LEMMA BeginStep ==
  ASSUME EnvironmentInv, NEW kind \in {"apply", "commit"}, Begin(kind)
  PROVE  EnvironmentInv' /\ Promise!Begin(kind)
<1>1. Working' = Working
  BY DEF Begin, layers, Working
<1>2. Limit \in Nat
  BY EnvironmentAssumption
<1>3. EnvironmentInv'
  <2>1. observations = <<>>
    BY DEF Begin, EnvironmentInv, TypeOK
  <2>2. TypeOK'
    <3>1. (committing = (call # "none"))'
      BY DEF Begin
    <3>. QED
      BY <1>2, <2>1, <3>1 DEF Begin, layers, history, EnvironmentInv, TypeOK
  <2>3. WithinLimit' /\ EntitiesInSync'
    BY <1>1, <1>2 DEF Begin, EnvironmentInv, WithinLimit, EntitiesInSync
  <2>4. Consistent' /\ (~astray => ToldOf(observations))'
    BY DEF Begin, EnvironmentInv, Consistent, ToldOf, layers, history
  <2>. QED
    BY <2>2, <2>3, <2>4 DEF EnvironmentInv
<1>. QED
  BY <1>1, <1>3 DEF Begin, layers, EnvironmentInv, TypeOK, Promise!Begin

-----------------------------------------------------------------------------
(* The adapter reports a net change: what is to be told is what is new.    *)
LEMMA AdapterObservesStep ==
  ASSUME EnvironmentInv, AdapterObserves
  PROVE  EnvironmentInv' /\ UNCHANGED Promise!promiseVars
<1> DEFINE added   == Working \ applied
           removed == applied \ Working
<1>1. /\ pending \in Seq(Change(Vertex)) /\ present \in SUBSET Vertex /\ applied \in SUBSET Vertex
      /\ at = "adapter" /\ observations = <<>>
  BY DEF EnvironmentInv, TypeOK, AdapterObserves
<1>2. Working \in SUBSET Vertex /\ added \in SUBSET Vertex /\ removed \in SUBSET Vertex
  BY <1>1, UpdatedType DEF Working
<1>3. Working' = Working
  BY UpdatedByNothing DEF Working, AdapterObserves
<1>4. observations' \in Answers(Observed(added, removed))
  BY DEF AdapterObserves
<1>5. observations' \in Seq(Observation)
  BY <1>4, AnswersAreSequences
<1>6. \A o \in Follower : /\ Says(observations', o, TRUE) = Seen(o, added)
                          /\ Says(observations', o, FALSE) = Seen(o, removed)
  <2>. HIDE DEF added, removed
  <2>. QED
    BY <1>2, <1>4, AnswersSayWhatChanged
<1>7. Consistent'
  BY <1>6 DEF Consistent, Seen
<1>8. ASSUME ~astray' PROVE ToldOf(observations)'
  <2>1. \A o \in Follower : told[o] = applied \cap Watches[o]
    BY <1>1, <1>8, NothingToSay DEF EnvironmentInv, ToldOf, AdapterObserves, history
  <2>2. told' = told /\ applied' = Working
    BY DEF AdapterObserves, history
  <2>. QED
    BY <1>6, <2>1, <2>2 DEF ToldOf, Seen
<1>9. EnvironmentInv'
  BY <1>2, <1>3, <1>5, <1>7, <1>8
  DEF AdapterObserves, EnvironmentInv, TypeOK, WithinLimit, EntitiesInSync, history
<1>. QED
  BY <1>3, <1>9 DEF AdapterObserves, Promise!promiseVars

(* It has nothing to report: what followers watch has not changed.         *)
LEMMA AdapterObservesNothingStep ==
  ASSUME EnvironmentInv, AdapterObservesNothing
  PROVE  EnvironmentInv' /\ Promise!Return
<1> DEFINE added   == Working \ applied
           removed == applied \ Working
<1>1. /\ pending \in Seq(Change(Vertex)) /\ present \in SUBSET Vertex /\ applied \in SUBSET Vertex
      /\ committed \in SUBSET Vertex /\ at = "adapter" /\ observations = <<>>
      /\ iterations \in 0..(Limit + 1) /\ iterations <= Limit
  BY DEF EnvironmentInv, TypeOK, WithinLimit, AdapterObservesNothing
<1>2. Working \in SUBSET Vertex
  BY <1>1, UpdatedType DEF Working
<1>3. /\ Working' = Working /\ observations' = <<>>
      /\ iterations' \in 0..(Limit + 1)
  BY <1>1, EnvironmentAssumption, UpdatedByNothing DEF Working, AdapterObservesNothing, End
<1>4. ASSUME ~astray' PROVE ToldOf(observations)'
  <2>. SUFFICES ASSUME NEW o \in Follower
                PROVE  told[o] = Working \cap Watches[o]
    BY <1>3, NothingToSay DEF ToldOf, AdapterObservesNothing, history
  <2>1. told[o] = applied \cap Watches[o]
    BY <1>1, <1>4, NothingToSay DEF EnvironmentInv, ToldOf, AdapterObservesNothing, history
  <2>2. ASSUME NEW v \in Watches[o] \cap (added \cup removed)
        PROVE  FALSE
    <3>1. o \in Observer /\ <<o, TRUE>> \in Handles /\ <<o, FALSE>> \in Handles /\ v \in Vertex
      BY <1>1, <1>2 DEF Follower
    <3>2. PICK created \in BOOLEAN : v \in IF created THEN added ELSE removed
      BY <2>2
    <3>3. [observer |-> o, vertex |-> v, created |-> created] \in Observed(added, removed)
      <4>. DEFINE ob == [observer |-> o, vertex |-> v, created |-> created]
      <4>1. ob \in Observation /\ ob.observer = o /\ ob.vertex = v /\ ob.created = created
        BY <3>1 DEF Observation
      <4>2. <<ob.observer, ob.created>> \in Handles
        BY <3>1, <4>1
      <4>. QED
        BY <2>2, <3>2, <4>1, <4>2 DEF Observed
    <3>. QED
      BY <3>3 DEF AdapterObservesNothing
  <2>. QED
    BY <1>1, <1>2, <2>1, <2>2
<1>5. Consistent'
  BY <1>3, NothingToSay DEF Consistent
<1>6. TypeOK'
  <2>1. (committing = (call # "none"))'
    BY DEF AdapterObservesNothing, End
  <2>. QED
    BY <1>1, <1>2, <1>3, <2>1
    DEF AdapterObservesNothing, End, EnvironmentInv, TypeOK, history
<1>7. EnvironmentInv'
  BY <1>1, <1>3, <1>4, <1>5, <1>6
  DEF AdapterObservesNothing, End, EnvironmentInv, WithinLimit, EntitiesInSync
<1>8. Promise!Return
  BY <1>1, <1>3 DEF AdapterObservesNothing, End, EnvironmentInv, TypeOK, Promise!Return
<1>. QED
  BY <1>7, <1>8

LEMMA FailedStep ==
  ASSUME EnvironmentInv, at # "client", Failed, iterations' \in 0..(Limit + 1)
  PROVE  EnvironmentInv' /\ Promise!Raise
<1>1. TypeOK' /\ WithinLimit' /\ EntitiesInSync'
  <2>1. pending' \in Seq(Change(Vertex)) /\ observations' \in Seq(Observation)
    BY RestoreStep DEF Failed, End
  <2>. QED
    BY <2>1, RestoreStep DEF Failed, End, EnvironmentInv, TypeOK, WithinLimit, EntitiesInSync
<1>2. Consistent' /\ ToldOf(observations)'
  BY RestoreStep, NothingToSay DEF Failed, End, Consistent, ToldOf
<1>3. Promise!Raise
  BY RestoreStep DEF Failed, End, EnvironmentInv, TypeOK, Promise!Raise
<1>. QED
  BY <1>1, <1>2, <1>3 DEF EnvironmentInv

LEMMA RaisingStep ==
  ASSUME EnvironmentInv, AdapterRaises \/ HandlerRaises \/ Stuck
  PROVE  EnvironmentInv' /\ Promise!Raise
<1>1. at # "client" /\ Failed
  BY DEF AdapterRaises, HandlerRaises, Stuck
<1>2. iterations' \in 0..(Limit + 1)
  BY EnvironmentAssumption
  DEF AdapterRaises, HandlerRaises, Stuck, EnvironmentInv, TypeOK, WithinLimit
<1>. QED
  BY <1>1, <1>2, FailedStep

(* A handler is told of one observation, and all the others remain.        *)
LEMMA HandlerReturnsStep ==
  ASSUME EnvironmentInv, HandlerReturns
  PROVE  EnvironmentInv' /\ UNCHANGED Promise!promiseVars
<1> DEFINE ob == Head(observations)
           rest == Tail(observations)
<1>1. /\ observations \in Seq(Observation) /\ observations # <<>>
      /\ told \in [Follower -> SUBSET Vertex] /\ at = "handlers"
  BY DEF EnvironmentInv, TypeOK, HandlerReturns
<1>2. ob \in Observation /\ rest \in Seq(Observation)
  BY <1>1
<1>3. ob.vertex \in Vertex /\ ob.created \in BOOLEAN
  BY <1>2 DEF Observation
<1>4. /\ observations' = rest
      /\ told' = [o \in Follower |->
                    CASE o # ob.observer -> told[o]
                      [] o = ob.observer /\ ob.created  -> told[o] \cup {ob.vertex}
                      [] o = ob.observer /\ ~ob.created -> told[o] \ {ob.vertex}]
      /\ UNCHANGED <<layers, pending, entities, committing, call, at, iterations, outcome, astray>>
  BY DEF HandlerReturns
<1>5. /\ told' \in [Follower -> SUBSET Vertex]
      /\ \A o \in Follower :
            told'[o] = IF o # ob.observer THEN told[o]
                       ELSE IF ob.created THEN told[o] \cup {ob.vertex} ELSE told[o] \ {ob.vertex}
  BY <1>1, <1>3, <1>4
<1>6. \A o \in Follower, created \in BOOLEAN :
        Says(observations, o, created) =
          Says(rest, o, created)
            \cup IF ob.observer = o /\ ob.created = created THEN {ob.vertex} ELSE {}
  BY <1>1, FirstAndRest
<1>7. Consistent'
  BY <1>4, <1>6 DEF EnvironmentInv, Consistent
<1>8. ASSUME ~astray' PROVE ToldOf(observations)'
  <2>. SUFFICES ASSUME NEW o \in Follower
                PROVE  (told'[o] \ Says(rest, o, FALSE)) \cup Says(rest, o, TRUE)
                         = applied \cap Watches[o]
    BY <1>4 DEF ToldOf, layers
  <2>1. /\ (told[o] \ Says(observations, o, FALSE)) \cup Says(observations, o, TRUE)
             = applied \cap Watches[o]
        /\ Says(observations, o, TRUE) \cap Says(observations, o, FALSE) = {}
    BY <1>4, <1>8 DEF EnvironmentInv, ToldOf, Consistent
  <2>2. CASE o # ob.observer
    BY <1>5, <1>6, <2>1, <2>2
  <2>3. CASE o = ob.observer /\ ob.created = TRUE
    <3>1. /\ Says(observations, o, TRUE) = Says(rest, o, TRUE) \cup {ob.vertex}
          /\ Says(observations, o, FALSE) = Says(rest, o, FALSE)
          /\ told'[o] = told[o] \cup {ob.vertex}
      <4>1. ~(o # ob.observer) /\ ob.created /\ TRUE \in BOOLEAN /\ FALSE \in BOOLEAN
        BY <2>3
      <4>2. told'[o] = told[o] \cup {ob.vertex}
        BY <1>5, <4>1
      <4>3. /\ Says(observations, o, TRUE) = Says(rest, o, TRUE) \cup {ob.vertex}
            /\ Says(observations, o, FALSE) = Says(rest, o, FALSE) \cup {}
        BY <1>6, <2>3, <4>1, Zenon
      <4>. QED
        BY <4>2, <4>3
    <3>. QED
      BY <2>1, <3>1
  <2>4. CASE o = ob.observer /\ ob.created = FALSE
    <3>1. /\ Says(observations, o, TRUE) = Says(rest, o, TRUE)
          /\ Says(observations, o, FALSE) = Says(rest, o, FALSE) \cup {ob.vertex}
          /\ told'[o] = told[o] \ {ob.vertex}
      BY <1>5, <1>6, <2>4
    <3>. QED
      BY <2>1, <3>1
  <2>. QED
    BY <1>3, <2>2, <2>3, <2>4
<1>9. Working' = Working
  BY <1>4 DEF Working, layers
<1>10. EnvironmentInv'
  BY <1>1, <1>2, <1>4, <1>5, <1>7, <1>8, <1>9
  DEF EnvironmentInv, TypeOK, WithinLimit, EntitiesInSync, layers
<1>. QED
  BY <1>4, <1>9, <1>10 DEF layers, Promise!promiseVars

LEMMA IterateStep ==
  ASSUME EnvironmentInv, Iterate
  PROVE  EnvironmentInv' /\ UNCHANGED Promise!promiseVars
<1>1. Working' = Working
  BY DEF Iterate, layers, Working
<1>2. iterations' \in 0..(Limit + 1) /\ iterations' <= Limit
  BY EnvironmentAssumption DEF Iterate, EnvironmentInv, TypeOK
<1>3. EnvironmentInv'
  BY <1>1, <1>2
  DEF Iterate, layers, history, EnvironmentInv, TypeOK, WithinLimit, EntitiesInSync,
      Consistent, ToldOf
<1>. QED
  BY <1>1, <1>3 DEF Iterate, layers, Promise!promiseVars

-----------------------------------------------------------------------------
LEMMA InitHolds ==
  ASSUME Init
  PROVE  EnvironmentInv /\ Promise!Init
<1>1. Working = {}
  BY UpdatedByNothing DEF Init, Working
<1>2. TypeOK
  <2>1. pending \in Seq(Change(Vertex)) /\ observations \in Seq(Observation)
    BY DEF Init
  <2>2. committing = (call # "none") /\ (at = "client") = (call = "none")
    BY DEF Init
  <2>3. iterations \in 0..(Limit + 1) /\ told \in [Follower -> SUBSET Vertex]
    BY EnvironmentAssumption DEF Init
  <2>. QED
    BY <2>1, <2>2, <2>3 DEF Init, TypeOK
<1>3. WithinLimit /\ EntitiesInSync /\ Consistent /\ ToldOf(observations)
  BY <1>1, NothingToSay DEF Init, WithinLimit, EntitiesInSync, Consistent, ToldOf
<1>4. EnvironmentInv
  BY <1>2, <1>3 DEF EnvironmentInv
<1>. QED
  BY <1>1, <1>4 DEF Init, Promise!Init

LEMMA NextStep ==
  ASSUME EnvironmentInv, [Next]_vars
  PROVE  EnvironmentInv' /\ [Promise!Next]_(Promise!promiseVars)
<1>1. ASSUME NEW v \in Vertex, Add(v) \/ Remove(v)
      PROVE  EnvironmentInv' /\ [Promise!Next]_(Promise!promiseVars)
  BY <1>1, EditStep DEF Promise!Next
<1>2. ASSUME NEW kind \in {"apply", "commit"}, Begin(kind)
      PROVE  EnvironmentInv' /\ [Promise!Next]_(Promise!promiseVars)
  BY <1>2, BeginStep DEF Promise!Next
<1>3. CASE Query
  BY <1>3, QueryStep
<1>4. CASE RollBack
  BY <1>4, RollBackStep DEF Promise!Next
<1>5. CASE AdapterObserves
  BY <1>5, AdapterObservesStep
<1>6. CASE AdapterObservesNothing
  BY <1>6, AdapterObservesNothingStep DEF Promise!Next
<1>7. CASE AdapterRaises \/ HandlerRaises \/ Stuck
  BY <1>7, RaisingStep DEF Promise!Next
<1>8. CASE HandlerReturns
  BY <1>8, HandlerReturnsStep
<1>9. CASE Iterate
  BY <1>9, IterateStep
<1>10. CASE UNCHANGED vars
  BY <1>10
  DEF vars, EnvironmentInv, TypeOK, WithinLimit, EntitiesInSync, Consistent, ToldOf,
      Working, Promise!promiseVars
<1>. QED
  BY <1>1, <1>2, <1>3, <1>4, <1>5, <1>6, <1>7, <1>8, <1>9, <1>10 DEF Next, LoopStep

(* The invariant, and with it what the users of an environment rely on:    *)
(* for any number of vertices and observers, any patterns and any limit,   *)
(* whatever handlers do in the middle of apply() and commit().             *)
THEOREM Invariance == Spec => []EnvironmentInv
<1>1. Init => EnvironmentInv
  BY InitHolds
<1>2. EnvironmentInv /\ [Next]_vars => EnvironmentInv'
  BY NextStep
<1>. QED
  BY <1>1, <1>2, PTL DEF Spec

(* The types of the environment's state, its loop's place and count.       *)
THEOREM TypeCorrect == Spec => []TypeOK
<1>1. EnvironmentInv => TypeOK
  BY DEF EnvironmentInv
<1>. QED
  BY <1>1, Invariance, PTL

(* The living entities are the vertices that a query would find (add,      *)
(* remove, sync).                                                          *)
THEOREM EntitiesStayInSync == Spec => []EntitiesInSync
<1>1. EnvironmentInv => EntitiesInSync
  BY DEF EnvironmentInv
<1>. QED
  BY <1>1, Invariance, PTL

(* Handlers are told of just the vertices that their pattern matches, with *)
(* what they still have to be told (_do_commit, collect_observations).     *)
THEOREM HandlersKnowWhatChanged == Spec => []ToldWhatChanged
<1>1. EnvironmentInv => ToldWhatChanged
  <2>1. \A o, created : Left(o, created) = Says(observations, o, created)
    BY DEF Left, Says
  <2>. QED
    BY <2>1 DEF EnvironmentInv, ToldOf, ToldWhatChanged
<1>. QED
  BY <1>1, Invariance, PTL

(* apply() and commit() are atomic, handlers and buffer included.          *)
THEOREM CallsAreAtomic == Spec => Atomic
<1>1. Init => Promise!Init
  BY InitHolds
<1>2. EnvironmentInv /\ [Next]_vars => [Promise!Next]_(Promise!promiseVars)
  BY NextStep
<1>. QED
  BY <1>1, <1>2, Invariance, PTL DEF Spec, Atomic, Promise!Spec
=============================================================================

------------------------- MODULE ObserverContainer -------------------------
(***************************************************************************)
(* ObserverContainer (observer_container.h, observer_container.cpp) on top *)
(* of a graph, called as the adapter and the worker call it: changes that  *)
(* apply() returns are routed to the observers subscribed to them, which   *)
(* rematch and adjust their subscriptions.  The graph is what Graph is     *)
(* shown to implement, GraphTransactions; updates reach it one by one.     *)
(***************************************************************************)
EXTENDS IncrementalMatcher

CONSTANTS Label, Edge,      \* labels, and the edges that clients may add
          Observer,         \* IDs of the observers
          PatternOf,        \* the pattern that each of them watches
          EventsOf,         \* "on_create", "on_change", "on_delete": its handlers
          RegisterAnytime   \* may observers be registered amid a transaction?

ASSUME ObserverAssumption ==
    /\ Edge \subseteq Vertex \X Label \X Vertex /\ IsFiniteSet(Edge)
    /\ EventsOf \in [Observer -> SUBSET {"on_create", "on_change", "on_delete"}]
    /\ RegisterAnytime \in BOOLEAN

VARIABLES present, applied, committed,   \* the graph, at three times
          changes,        \* the answer of the graph's latest call
          known,          \* vertices that have an ID
          registered,     \* observers_
          matcher,        \* the IncrementalMatcher of each observer
          subscriptions,  \* subscriptions_, as pairs of observable and observer
          nested,         \* nested_registry_
          events          \* the observations returned by the latest call

vars == <<present, applied, committed, changes, known,
          registered, matcher, subscriptions, nested, events>>

G == INSTANCE GraphTransactions

GraphState == {g \in [vertices : SUBSET Vertex, edges : SUBSET Edge] :
                 \A e \in g.edges : {e[1], e[3]} \subseteq g.vertices}

(* StartPositionFinder yields positions, and with its deps what stands for *)
(* positions that are not there yet.                                       *)
ASSUME StartsAssumption ==
    \A o \in Observer, ids \in SUBSET Vertex :
        /\ \A g \in GraphState : Starts(PatternOf[o], g, ids) \subseteq Position
        /\ \A pair \in StartDeps(PatternOf[o], ids) :
              /\ pair = <<pair[1], pair[2]>> /\ pair[1][1] # "NestedExpressionSubgraph"
              /\ pair[2] \in {EveryAddedVertex, EveryAddedEdge} \cup {AbsentPosition(v) : v \in Vertex}

TypeOK ==
    /\ {present, applied, committed} \subseteq GraphState
    /\ known \in SUBSET Vertex
    /\ present.vertices \cup applied.vertices \cup committed.vertices \subseteq known
    /\ registered \in SUBSET Observer
    /\ DOMAIN matcher = Observer
    /\ \A o \in Observer \ registered : matcher[o] = Blank
    /\ \A pair \in subscriptions : pair[2] \in registered
    /\ DOMAIN nested = DOMAIN EmptyRegistry
    /\ {pair[2] : pair \in nested.deps} \subseteq DOMAIN nested.cached
    /\ \A e \in events : e[1] \in registered /\ e[2] \in EventsOf[e[1]]

Init ==
    /\ G!Init
    /\ known = {}
    /\ registered = {}
    /\ matcher = [o \in Observer |-> Blank]
    /\ subscriptions = {}
    /\ nested = EmptyRegistry
    /\ events = {}

-----------------------------------------------------------------------------
(* A flush of updates. *)
Update ==
    /\ \/ \E v \in Vertex : G!AddVertex(v) \/ G!RemoveVertex(v)
       \/ \E e \in Edge : G!AddEdge(e[1], e[2], e[3]) \/ G!RemoveEdge(e[1], e[2], e[3])
    /\ known' = known \cup present'.vertices
    /\ events' = {}
    /\ UNCHANGED <<registered, matcher, subscriptions, nested>>

(* Nested expressions that were looked up, given pairs of deps and start   *)
(* positions.                                                              *)
NestedIn(pairs) == StartsIn({pair[1] : pair \in pairs})

(* register_ and register_native: the observer matches the graph as it is  *)
(* and subscribes.  An ID that is taken is refused.                        *)
Register(o) ==
    /\ RegisterAnytime \/ present = applied
    /\ o \notin registered
    /\ LET m == Reinitialize(PatternOf[o], present, known, nested.cached)
       IN  /\ matcher' = [matcher EXCEPT ![o] = m]
           /\ nested' = LookedUp(nested, present, known, NestedIn(m.deps))
           /\ subscriptions' = subscriptions \cup (Watched(m) \X {o})
    /\ registered' = registered \cup {o}
    /\ events' = {}
    /\ changes' = G!Nothing
    /\ UNCHANGED <<present, applied, committed, known>>

(* What the graph's apply() is about to return. *)
Difference(g, h) ==
    [addedVertices |-> h.vertices \ g.vertices, removedVertices |-> g.vertices \ h.vertices,
     addedEdges    |-> h.edges \ g.edges,       removedEdges    |-> g.edges \ h.edges]

(* A variant that only adds subscriptions. *)
ApplySubscriptionsAdded(next) ==
    subscriptions' = subscriptions \cup UNION {Watched(next[o]) \X {o} : o \in registered}

(* apply_subscription_changes, after observers have rematched. *)
ApplySubscriptionChanges(next) ==
    LET added   == UNION {(Watched(next[o]) \ Watched(matcher[o])) \X {o} : o \in registered}
        removed == UNION {(Watched(matcher[o]) \ Watched(next[o])) \X {o} : o \in registered}
    IN  subscriptions' = (subscriptions \cup added) \ removed

(* What observers do not wait for anymore. *)
Dropped(next) == UNION {Watched(matcher[o]) \ Watched(next[o]) : o \in registered}

(* A variant that reports whatever is found. *)
AllReported(o, found) == {<<o, e[1], e[2]>> : e \in found}

(* Observer::observe_proto and observe_native: what has a handler is       *)
(* reported.                                                               *)
Reported(o, found) == {<<o, e[1], e[2]>> : e \in {f \in found : f[1] \in EventsOf[o]}}

(* observe_proto and observe_native: route_observations updates the        *)
(* registry and gives observer o the observations it is subscribed to;     *)
(* when observers have rematched, what is not used anymore is evicted.     *)
ObserveChanges(c) ==
    LET updated == RegistryUpdate(nested, present, known, Observations(c))
        cached  == updated.registry.cached
        observed(o)  == {d \in updated.observed : <<d, o>> \in subscriptions}
        positions(o) == Rematched(matcher[o], observed(o), c)
        found(o) == SubgraphChanges(matcher[o].last, matcher'[o].last, positions(o))
        anew     == UNION {DepsAt(matcher'[o], positions(o)) : o \in registered}
        looked   == LookedUp(updated.registry, present, known, NestedIn(anew))
    IN  /\ matcher' = [o \in Observer |->
                         MatchIncrementally(matcher[o], PatternOf[o], present, known, cached, positions(o))]
        /\ ApplySubscriptionChanges(matcher')
        /\ nested' = EvictUnused(MarkMaybeUnused(looked, Dropped(matcher')),
                                 {pair[1] : pair \in subscriptions'})
        /\ events' = UNION {Reported(o, found(o)) : o \in registered}

(* apply() and commit() return at once if the graph has not changed. *)
Observe(c) ==
    \/ /\ c # G!Nothing
       /\ ObserveChanges(c)
    \/ /\ c = G!Nothing
       /\ events' = {}
       /\ UNCHANGED <<matcher, subscriptions, nested>>

(* apply() of the adapter, Apply of the worker. *)
Apply ==
    /\ G!Apply
    /\ Observe(Difference(applied, present))
    /\ UNCHANGED <<known, registered>>

(* commit() of the adapter, Commit of the worker: applies, and commits if  *)
(* that left nothing to be handled.                                        *)
Commit ==
    /\ Observe(Difference(applied, present))
    /\ changes' = Difference(applied, present)
    /\ applied' = present
    /\ committed' = IF events' = {} THEN present ELSE committed
    /\ UNCHANGED <<present, known, registered>>

(* A variant that leaves the observers alone. *)
RollbackGraphOnly ==
    /\ G!Rollback
    /\ events' = {}
    /\ UNCHANGED <<known, registered, matcher, subscriptions, nested>>

(* rollback(), which ends in reinitialize_all(). *)
Rollback ==
    /\ G!Rollback
    /\ matcher' = [o \in Observer |->
                     IF o \in registered
                       THEN Reinitialize(PatternOf[o], committed, known, EmptyRegistry.cached)
                       ELSE Blank]
    /\ nested' = LookedUp(EmptyRegistry, committed, known, NestedIn(UNION {matcher'[o].deps : o \in registered}))
    /\ subscriptions' = UNION {Watched(matcher'[o]) \X {o} : o \in registered}
    /\ events' = {}
    /\ UNCHANGED <<known, registered>>

Next ==
    \/ Update
    \/ \E o \in Observer : Register(o)
    \/ Apply \/ Commit \/ Rollback

Spec == Init /\ [][Next]_vars
=============================================================================

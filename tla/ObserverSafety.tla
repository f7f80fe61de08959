--------------------------- MODULE ObserverSafety ---------------------------
(***************************************************************************)
(* Incremental matching finds what matching everything would have found.   *)
(***************************************************************************)
EXTENDS ObserverContainer

CONSTANT Query(_, _, _)   \* what a query for the pattern finds from a position

(* What the pattern of an observer matches in a graph, from any vertex.    *)
Finds(o, g) ==
    UNION {Query(PatternOf[o], g, at) : at \in {p \in Position : p[2] \in g.vertices}}

(* An observer remembers just what its pattern matches in the graph of the *)
(* last apply, although it only ever rematches from the positions that its *)
(* subscriptions lead to, and whichever applies, commits and rollbacks lie *)
(* in between (match_incrementally, reinitialize).                         *)
InSync ==
    \A o \in registered : matcher[o].last = Finds(o, applied)

(* The three records of what depends on what never part: the positions'    *)
(* deps and the positions by dep mirror each other, and the container has  *)
(* a subscription for each observable some observer waits for, and no      *)
(* other one (subscribe, unsubscribe, apply_subscription_changes).         *)
SubscriptionsExact ==
    /\ \A o \in registered :
          matcher[o].deps = {pair \in matcher[o].triggers : pair[2][1] \in {"core", "orbit"}}
    /\ subscriptions = UNION {Watched(matcher[o]) \X {o} : o \in registered}

(* The cache shared by all observers is never stale: it holds what its     *)
(* expressions match in the graph of the last apply, although each entry   *)
(* is matched anew only if a dep of the last time is observed, and reads   *)
(* other entries when it is (update).                                      *)
CacheCurrent ==
    \A start \in DOMAIN nested.cached :
        nested.cached[start] = NestedMatch(applied, known, EmptyRegistry.cached, start).found

(* Nothing that an observer or a cached expression reads is evicted, and   *)
(* what nobody reads is about to be (evict_unused, mark_maybe_unused).     *)
CacheInUse ==
    LET used == StartsIn(DependedOn(nested) \cup {pair[1] : pair \in subscriptions})
    IN  /\ used \subseteq DOMAIN nested.cached
        /\ DOMAIN nested.cached \ used \subseteq nested.unused

(* What apply() and commit() return, and when commit() commits, is as if   *)
(* every pattern were matched in the whole graph before and after.         *)
Promise == INSTANCE Rematching WITH Found <- Finds

AsIfRematched == Promise!Spec

(* "on_create is called when the corresponding pattern matches a new       *)
(* subgraph, which was not there until recent graph updates"               *)
(* (docs/usage_observers.md): a subgraph with a start position and refs    *)
(* that nothing had at the last apply is reported to the observers os.     *)
ReportsNewTo(os) ==
    Apply \/ Commit =>
        \A o \in {p \in os : "on_create" \in EventsOf[p]} :
            \A s \in Finds(o, applied') :
                \/ \E t \in Finds(o, applied) : t.start = s.start /\ t.refs = s.refs
                \/ <<o, "on_create", s>> \in events'

NewSubgraphsReported == [][ReportsNewTo(registered)]_vars
=============================================================================

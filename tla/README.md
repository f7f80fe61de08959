# Saengra in TLA+

Saengra is a graph of *vertices* (type name and value) joined by labelled edges,
with transactions, a pattern language, and *observers*: patterns whose matches are
kept up to date incrementally, and whose handlers are called while a transaction
commits. The engine is C++ (`src/saengra-server`), used either in the process of a
Python program (`src/src/adapter.cpp`) or as a server behind a Unix socket
(`worker.cpp`, `src/saengra/client.py`); the Python package `src/saengra` puts entities,
observers and the commit cycle on top.

This directory holds TLA+ modules for the parts whose correctness depends on
sequences of calls rather than on single ones, the TLC runs that check them on small
instances, and TLAPS proofs about the core. Paths in this file are relative to the
repository, unless they name a module.

## Inventory

| Component | State | Operations | What makes it correct |
|---|---|---|---|
| `MutableVerticesContainer` | IDs by data, present set, index by type, undo log, `applied_` | add, discard, apply, commit, rollback, just added/removed | the log alternates; the index follows the set; three layers |
| `MutableEdgesContainer` | forward and inverse trunk, undo log, `applied_` | add, remove, two bulk removals, apply, commit, rollback | the trunks mirror each other; as above |
| `Graph` | the two containers | five updates, apply, commit, rollback | no dangling edge in any layer; apply() reports the net change |
| `Environment` (Python) | living and temporary entities, `_currently_committing`, observers by ID | add, remove, update, apply, commit, rollback, sync, queries, register_observers | commit is atomic, ends, and keeps entities in step with the graph |
| `DirectAdapter` / `SocketAdapter` | buffer of pending updates (and graph, observers or a connection) | update, flush, apply, commit, rollback, queries, observe | nothing buffered is lost or comes back |
| `ObserverContainer`, `Observer` | observers, subscriptions by observable | register, observe, reinitialize_all | each observer is told of every change of its matches, once |
| `IncrementalMatcher` | subgraphs by start position, deps by start position and inversely | reinitialize, match_incrementally | incremental matches = full matches |
| `NestedExpressionRegistry` | cached subgraphs and their deps | get, update, evict_unused, clear | the cache = matching anew |
| `Matcher`, `StartPositionFinder`, refs | none (recursive descent over a plan) | match | matches = semantics of patterns; deps are sound |
| Parser, planner | none | parse, plan | a plan means what its expression means |
| Entities | objects with caches of relations and inverse relations | properties, containers, create, remove | the caches mirror the edges; one object per primitive |
| `Worker`, `UnixSocketServer`, `SaengraClient` | one connection and environment per forked process | nine requests | every request is answered; a client finds its server |

They interact by calls only. There is one thread per environment and "no concurrency is
supported" (`docs/index.md`), but handlers are user code called in the middle of
`Environment.commit()`, which may call the environment back; in server mode, client and
worker are two processes that exchange messages.

The hard behaviours are therefore: long sequences of legal updates with partial commits
and rollbacks over *two* logs; derived state (index, inverse trunk, entities,
subscriptions, nested caches) that has to follow on every path, rollback included;
re-entrance and exceptions in the middle of a commit; termination of the commit cycle;
and dependencies recorded at one match that decide whether the next one happens.

`PROJECT.json` lists the hazards at their lines with the properties that cover them,
and those still without one.

## Modules

| Module | What it models |
|---|---|
| `UndoLog` | the log both containers keep (`log_`, `applied_`): what `iter_just_changed()`, `commit()` and `rollback()` compute from it, in closed form |
| `VertexData` | the vertices a graph is about, and their types |
| `VerticesContainer` | `vertices_container.cpp`, one operator per method |
| `EdgesContainer` | `edges_container.cpp`, one operator per method |
| `Graph` | `graph.cpp`: an action per update and per transaction command, composing the two |
| `GraphSafety` | the safety properties of a graph, the layers its logs encode, and the loops that read the logs |
| `GraphTransactions` | what a graph promises: three plain copies, after `ReferenceGraph` of `tests/test_transactions.cpp` |
| `UndoLogProofs`, `GraphProofs` | the theorems about a graph |
| `Environment` | `environment.py` on an adapter: buffer, entities, the loops of `apply()` and `commit()`, handlers |
| `EnvironmentSafety` | what its users rely on |
| `AtomicCommit` | what `apply()` and `commit()` promise |
| `EnvironmentProofs` | the theorems about an environment |
| `Entities` | `entity.py`, `utilities/properties.py`, `utilities/containers.py` and `sync()`: the objects that stand for vertices, and the caches of edges in them |
| `EntitiesSafety` | what the users of entities rely on |
| `ObjectStore` | what entities promise to be: a transactional store of objects with fields |
| `EntitiesProofs` | the theorems about entities |
| `Observables` | what a subscription can be about, and positions (`observable.h`, `queryset.h`, `subgraph.h`) |
| `Refs` | `refs.cpp`: the algebra of what a match says of the names in a pattern |
| `Expressions` | patterns as trees (`expression.h`), and short names for them |
| `Planner` | `planner.cpp`: the plans of patterns |
| `PathMatching` | `matcher.cpp` and `start_positions.cpp` for paths, one after the other: subgraphs, deps and start positions, as operators |
| `Matching` | the same for all patterns: how their operators combine what paths find |
| `PatternMeaning` | what patterns mean, without plans, refs or deps |
| `MatchingSafety` | that matching, in any graph, finds what the pattern means |
| `NestedRegistry` | `nested_registry.cpp`: the cache of nested subgraphs, shared by all observers |
| `IncrementalMatcher` | `incremental_matcher.cpp`: what an observer's matcher remembers and rematches, over any matcher |
| `ObserverContainer` | `observer_container.cpp` on a graph, under the adapter's `observe`, `apply`, `commit` and `rollback` |
| `ObserverSafety` | that incremental matching finds what full matching would |
| `SoundMatching` | what rematching relies on, that deps say enough; and patterns that are vertices and edges one after the other |
| `MatchingProofs` | the theorems about refs, and that such patterns are matched soundly |
| `Rematching` | what observers promise: the difference between two full matches |
| `ObserverProofs` | the theorems about observers |
| `SocketServer` | the processes of a server: a client that starts it, clients attached to it, the listener, the workers it forks (`unix_socket_server.cpp`, `Worker::run`, `SaengraClient.start` and `stop`) |
| `ServerSafety` | what clients rely on in these processes |
| `ServerProofs` | the theorems about a server |
| `Session` | the calls of `socket_adapter.py` and `client.py`, the requests they consist of, and the handlers of `worker.cpp` |
| `SessionSafety` | what callers rely on |
| `SessionProofs` | the theorems about sessions |
| `PrivateGraphs` | what a session promises: atomic calls on graphs of one's own |
| `MCGraph`, `MCEnvironment`, `MCEntities`, `MCMatching`, `MCObservers`, `MCObserversSound` | instances for TLC (`SessionSafety` and `ServerSafety` need none: `MCSession.cfg`, `MCServer.cfg` and `MCServerStart.cfg` give their constants) |

### The graph

Variable names follow the code: `known` is `vertex_id_by_vertex`, `present` the present
flag, `byType` is `vertices_by_type_name`, `vlog`/`elog` are the two `log_`, `vapplied`/
`eapplied` the two `applied_`, `forward`/`inverse` the two trunks. A vertex's data is one
element of `Vertex`. `VertexID` is a pointer to data stored once and never freed, so it
is the data itself. A trunk (vertex → label → leaf of one or many vertices) is the set of
triples that can be read from it; the order in which a bulk removal meets the edges of
a hash table, and hence logs them, is arbitrary (`Orders`).

Every action is a whole update of `Graph::update_impl`, or a whole `apply()`, `commit()` or
`rollback()`; a batch of updates executes them one by one with nothing in between.
`changes` is the answer of the latest call.

The loops over a log are replaced by what they compute, in terms of each item's first and
last entry: this is what makes the model short and the proofs possible. The loops
themselves are in `GraphSafety`, entry by entry (`Loop` of `UndoVertex`, `UndoEdge` and
`Scan`): in every reachable state the loops of `rollback()` and the passes of
`iter_just_changed()` have the outcome that the actions state (`RollbackRunsTheLoop`,
`ApplyRunsTheLoop`). TLC checks it in `graph`, and it is proved for logs of any length.

### The environment

`at` says whether the client's code runs, the adapter is called, or handlers are;
`Add`, `Remove`, `Query` and `RollBack` are what the client's *and* a handler's code may do.
A nested `apply()` or `commit()` raises a RuntimeError, which the handler lets through
(`HandlerRaises`) or not (no change). The graph is reduced to its three layers, which is
justified by the refinement proved for `Graph`; only vertices are kept, as edges make no
difference to the control. Patterns are single vertices of a type, so that what an observer
is told is a function of the changes; what larger patterns need is a concern of
the matcher, not of this module. `told` is a history variable: what the handlers of an
observer have been told exists. It is rolled back with the graph, since that is where
handlers keep what they know. `astray` is another one: a handler has called `rollback()`, and
the rest of its batch is about a graph that is gone.

The module stands for both adapters: `SocketAdapter` with `Worker::handleCommit`,
`handleApply` and `handleRollback` behind it does what `DirectAdapter` does.

### Entities

`heap` is what Python keeps of entities: the `objects` that exist, `_entities`, the weak
registry `_temporary_entities`, the `alive` flags, the caches of all fields and the `_inverse`
relations. An object is `<<primitive, n>>`; a second object of a primitive is what
`Environment.add` and `__new__` have to prevent. `present` and `committed` are
the graph as it is once the buffer is flushed, which is `Working` of `Environment`: objects send
updates and never look, so that caches and edges are two records of the same thing that have
to follow each other through every operation of a field. Only `sync()` reads the graph.

A field with one value (`PrimitiveProperty`, `RelatedEntityProperty`) holds a set of at most one
item; a field that is a set has `add`, `update`, `discard` and `assign`. A plain value (a string)
is a vertex as well, which nobody removes. `create()` and `get_or_create()` are sequences of
the actions here. `Forget` is the garbage collector.

Clients do not use objects from before a rollback, nor the fields of an entity that is not alive,
and assign living entities to fields with one value. `CarelessSpec` drops the last restriction.
`add()` to a set accepts what is not alive, and brings it to life, as the code does; `assign()`
empties the set and then raises.

### Patterns and matching

A pattern is a tree of records, one per class of `expression.h`; `PlanOf` turns it into a plan
as `PlanVisitor` does, with the names that are bound at each point (and so looked up rather
than enumerated), those an operator may set, and runs of vertices and edges as paths of at
most five items. `Matches(c, plan, at, refs)` is `MatchVisitor`: a call of the continuation in
the code is a draft here, and a call that returns true to stop the matcher is `InTurn`.
It yields both what is found and what it depends on, in the order of the code where that
decides which dependencies are recorded.

`PathMatching` has the paths: vertices, edges, edges to known vertices, and paths one after the other.
What comes after an item is a function of where and with which refs it ends, built from the last item
backwards (`LastItems`, `LastOperands`). `Matching` has the operators, which are recursive through each other; paths
are not, and so can be proved about.

A draft's `refs` are a set of literals `name is vertex` and `name is not vertex`: a region
of the space of all assignments of vertices to names. `Refs` has the operations on regions, from
`Normalized` to `Arrange`, which splits regions into the cells of their overlaps.
`(all: )` and `&` work on these cells; `(unless: )` subtracts regions; what is left
as `name is not vertex` in the end is expanded over the vertices of the graph
(`ExpandNegatives`), on which the match then depends.

Observers plan with `nest_operands` (`ObserverPlanOf`): operands of `(all: )`, `(maybe: )` and `&`
that are more than a single step become expressions of their own (`nested`), whose
subgraphs are looked up in a cache by expression, position and the refs that concern it
(`NestedStart`). A match that reads an entry depends on the entry, and not on what the entry
depends on.

`PatternMeaning` is the reference. It fixes a vertex for every name first, so that there are no
regions, no order and no plans, and says for each operator what it finds from a position.

### Observers

`ObserverContainer` takes the graph as `GraphTransactions` (which `Graph` is proved to
implement): `present`, `applied`, `committed` and the `changes` that `apply()` returns. A flush
is a step per update, as in `Graph`; whatever is buffered before it has no effect here.
`matcher[o]` is what an `IncrementalMatcher` remembers: `last` is `last_sp_to_sgs_`, `deps` is
`start_to_deps_` and `triggers` is `dep_to_positions_`, the latter two as sets of pairs. The
lists of added and removed deps that `subscribe`, `unsubscribe` and `resubscribe` pass on are
the difference between what is watched before and after (`ApplySubscriptionChanges`).

`nested` is the registry: `cached` is `subgraphs_`, `deps` is `deps_` and `dep_to_starts_`, and
`unused` is `maybe_unused_`. `RegistryUpdate` goes through the heights of expressions, matches
anew what depends on an observation, and adds an observation for each entry that has changed.
Calls of `get` and of `evict_unused` that lead to further ones are rounds here, as many as
expressions are high (`Lookups`, `Evictions`).
`EvictUnused` drops what neither an entry nor an observer depends on, and what only that
depended on. All of it happens within a call of `apply()` or `commit()`.

`IncrementalMatcher` and `NestedRegistry` have the matcher as constant operators (`Match`, `Deps`,
`Starts`, `StartDeps`, `NestedMatch`), as their logic does not depend on what patterns are. For
TLC they are those of `Matching`, tabulated over all graphs that there may be (`MCMatch`,
`MCDeps`, `MCNestedMatch`). The tables hold what is found with an empty cache. Where an entry
that would be read is not what matching finds (`Fresh` is false), matching is
evaluated with the cache as it is; that the tables are right whatever is cached is checked, too
(`TablesAreRight` of `MCObserversSound`). A graph and the vertices that have an ID (`known`, `ids`) are separate arguments, since removed
vertices keep their IDs and the matcher treats a value that never had one differently.

The `on_*` flags of an observer are `EventsOf`. `RegisterAnytime` lets observers be registered
while updates are flushed but not applied, which the code permits; where it is `FALSE`,
registrations happen between transactions.

### The server and its sessions

`SocketServer` is about processes. `listener`, `worker[c]` and `client[c]` are their program
counters; a step is whatever another process can observe in between: the socket file
appears with `bind()`, connections are accepted from `listen()` on, `running_` is set later.
`childRunning` is the copy of `running_` that a forked worker owns until it resets it, and
whose destructor would remove the socket file. SIGTERM to the listener is on its way
(`sigterm`) until its handler runs; to a worker, it may come in any phase of `SignalPhases`.
A request is a token.

`Session` is about what the requests do. `requests[c]` are those a call still has to get
through: `apply_updates` for the buffer, if the call flushes and the buffer is not empty, then
the call's own. `wire[c]` is the message under way, which is one at a time, since client and
worker wait for each other. A worker keeps a graph, in three layers, per ID it was
connected to. An exception that nobody catches ends it (`Die`). `issued` and `received` are
history variables. Whether observers have something to say to a commit is
left open here; `ObserverContainer` says when they do.

## Runs

| Run | Question | Bounds | States |
|---|---|---|---|
| `graph` | do logs, trunks, index and layers stay consistent under every order of calls? | 2 vertices of different types, 1 label (4 edges, loops included), 3 log entries per container | 55,466 |
| `environment` | are commits atomic, with handlers that edit, query, roll back and raise; do they end; do entities follow; do the events an observer handles add up? | 2 vertices, 2 observers, 3 buffered updates, `Limit` 2 | 212,700 |
| `entities` | do fields, inverse relations, identities and the graph stay in step? | a post and a user, a text, 3 fields (one value, optional, a set), loops included; two objects per primitive | 50,907 |
| `entities_raise` | does an assignment that raises leave the field as it was? (Not the graph.) | the same | violation |
| `matching` | does matching find what patterns mean? | 2 people, 1 city, 6 edges, that is 132 graphs with known vertices; 12 patterns that use every operator | 132 |
| `observers` | do observers that share nested expressions see what full matching would show? | 2 people, 1 city, 3 edges of 2 labels; 2 observers | 69,531 |
| `observer_of_placeholder` | is an observer told when its placeholder's vertex appears? (No.) | the same graph; the pattern `?` | violation |
| `observer_of_repeats` | is an observer told of a subgraph that begins with an edge of a new vertex? (Not always.) | the same graph; `(repeat 0-2x: -likes> person) -lives> city` | violation |
| `observer_of_nested` | is an observer told of a subgraph whose nested part starts at a vertex that comes back? (No.) | the same graph; `(all: person -likes> person)` | violation |
| `server` | is every connection served, and is nothing of the server lost or left behind? | the owner and one attached client, 2 polls, a SIGTERM per worker | 45,544 |
| `server_start` | does the client that starts a server get to connect to it? (Not always.) | the same, no signals | violation |
| `session` | are calls on graphs atomic over the wire, is no update lost or doubled, does every call end? | 1 client, 2 graphs, 1 vertex, 2 buffered and 3 issued updates | 76,024 |

*graph.* Three log entries are enough for an item to be added, removed and added again
within one transaction, with `apply()` between any two of them, and for a bulk removal
after additions; two vertices of different types are enough for a loop, both directions of
an edge and an index entry that must not change. `TypeOK`, `NoDanglingEdges`,
`TrunksMirror`, `TypeIndexExact` and `LogsAlternate` are invariants; `Transactions` is the
refinement of `GraphTransactions`: reports, partial commits and rollbacks are those of three
plain copies. `RollbackRunsTheLoop` and `ApplyRunsTheLoop` are action properties: the outcome
of the loops over the logs is what the actions state. The deadlock check is on: some update is always possible.

*environment.* One observer follows both vertices, the other handles only the creation of
one, so that a change has several observers, several observations or none (then `commit()`
commits at once). Two iterations and three buffered updates let a handler in each iteration
undo what the one before did. `Atomic` is the refinement of `AtomicCommit`.
`EntitiesInSync` relates `_entities` to what a query would find, at all times. `CallsEnd` needs
fairness: weak fairness of `LoopStep` says that the calling thread goes on with its loop
(it is the caller's own thread, nothing can hold it up), and that handlers, which are user
code, return or raise some time. That each call ends whatever handlers change is
then due to the limit alone, as the property's mutant shows.

`ToldWhatChanged` says that the observations handled so far, with those of the batch that still
wait, are exactly the matched state, over many iterations, calls and failures. If a handler calls
`env.rollback()`, the loop goes on with the rest of the batch, which describes a graph
that is gone. The documentation does not say what should happen then; between such a rollback
and the next one by the client or by a failure (`astray`), the property promises nothing. Only
events at ends of calls are compared with the graph that was applied last, so a handler that
edits does not break it.

Not a run of its own: `docs/usage_graphs.md` promises "a hard limit of 100 iterations, after
which commit is deemed impossible and fails", but `_do_commit` compares after counting, and
strictly, so that the handlers of iteration 101 are called, and a cycle that settles
there is committed. The model counts as the code does.

*entities.* `OneObjectEach` is the promise that fetching an entity twice gives the same object, and
that living entities are just those with a vertex; `FieldsMirrorEdges` and
`InverseMirrorsFields` relate the three records of a relation: the cache, the edges in the graph, and
the inverse relations that `_after_remove` relies on to empty the fields of others.
`ActsAsObjectStore` is the refinement of `ObjectStore`, in which an object that is deleted leaves all
fields at once and a rollback restores all fields of the last commit. Two entities and
two labels between them, loops included, are enough for one to hold the other in two fields,
to hold itself, and to be removed, forgotten and constructed again while held.

*entities_raise.* `__set__` removes the edge to the previous value before it finds the new value not
to be alive and raises, so the field keeps a value that has no edge any more.

*matching.* In every graph, for every assignment of present vertices to the names of a pattern
and for every position, `FindsWhatIsMeant` compares the fragments that `Matched` finds under this
assignment with those of `PatternMeaning`; both directions, so that nothing is missed, invented,
merged too much or too little. An assignment in which a name has an absent vertex has no
match. The patterns are chosen for what is easy to get wrong: a name that occurs twice
along a path; names bound in one alternative only; exclusions that meet the
name later, earlier, or never (and so are expanded); a negation in a negation; names
local to a negation; overlapping regions inside `(all: )`, with and without `&`; repetitions; pairs
of edges. Three vertices with a loop and a pair of opposite edges are enough for
two names to be the same vertex, two others, or excluded from each other. The operators are
functions of the graph, so the run goes over the graphs; sequences of updates matter to `observers`.

*observers.* `InSync` compares what an observer remembers with what its
pattern matches from *anywhere* in the applied graph, so it covers the start positions, the
deps recorded by earlier matches, the routing and the rematching at once. `AsIfRematched` is
the refinement of `Rematching`: the events returned, and whether `commit()` commits, are those
of a full match before and after. `CacheCurrent` says that no entry of the registry is stale, `CacheInUse` that
nothing in use is evicted and that what is not in use is on its way out.
The observers are people that two negations keep apart, whose matches
are expanded and depend on vertices that are *not* connected to them, maybe with an edge to a
placeholder (`apart`); and alternatives, `(if: )`, a repetition and `(all: )` with a nested
expression that holds another one in sequence, whose subgraphs change in place
(`circle`). So entries of two heights are shared, invalidated, read while others are matched,
and evicted. Three vertices, both directions between two of them and an
edge out of one of the two let a path appear, be extended, lose its first or its second edge,
and have its vertices removed and re-added between or within applies; the placeholder `rome` is
at first not even known. `MatchingIsSound` has TLC evaluate the hypothesis of the theorems below for
these two patterns, in all graphs, with all caches. The graph is unbounded in time: updates, applies, commits
and rollbacks come in any number and order. All nested operands here start at an orbit; those
that start at a core are the subject of `observer_of_nested`.
`PatternsAreLinear` has TLC compare, in all graphs of this run, how `Matching` matches five patterns of vertices and
edges with `MatchLinear`, which the proofs about such patterns are about: paths of one to five items and patterns of
several paths, a name that occurs twice, all directions of an edge, labels and none, edges to placeholders.

*observer_of_placeholder.* `docs/usage_observers.md` says that on_create "is called when the
corresponding pattern matches a new subgraph, which was not there until recent graph updates".
For a pattern that starts with a placeholder it is not, if the vertex was absent: an
`AbsentPosition` is subscribed to (`start_positions.cpp:33`), but `match_incrementally` has no
branch for it; and when the value has an ID, its position matches nothing while the
vertex is absent, and so depends on nothing.

*observer_of_repeats.* A repetition that may be empty leaves `StartPositionFinder` without a
restriction: it takes every vertex, as core and as orbit. The dependency it leaves for new
vertices is the same as that of a vertex expression, and `match_incrementally` then adds the core
position only (`incremental_matcher.cpp:193`), so the subgraph that begins with an edge out of the
new vertex is not looked for until something else brings the position in. A full match finds it.

*observer_of_nested.* `match_vertex` records a dependency only where the vertex matches. An entry of
the registry whose start is a core at a vertex that has gone is empty, depends on nothing, and so is
never matched anew; when the vertex is back, the observer that reads the entry reads the empty one
as long as it keeps it in use.

Not a run of its own: `register_native` matches the graph with its unapplied updates
(`RegisterAnytime`). If they are undone before `apply()`, the observer keeps subgraphs that never
came to be, and when they do, there is nothing new. No document says what an observer should be told of
the transaction it was registered in, so the runs register observers between transactions.

*server.* `SocketWhileRunning` depends on the child resetting `running_` before it can end;
`NothingLeftBehind` on the owner's timeout, since a SIGTERM before `running_` is set is
swallowed by `stop()`; `ConnectedIsServed` on the parent not waiting for its
children (`WNOHANG`); `ClosedConnectionsEnd` on the empty message. Two clients are enough for
one to hold its worker while the other waits to be accepted, or outlives the listener.
Fairness is the kernel's scheduling of listener and workers; clients need not do anything. Two
things the run excludes or leaves aside: a SIGTERM to a worker that has not yet reset
`running_` (`SignalPhases` without "forked") removes the listener's socket file; and
a SIGTERM between the worker's test of its flag and its `read()` is not noticed before the
next message. Deadlock is not checked: everything may have stopped for good.

*server_start.* `SaengraClient.start()` takes the socket file for a socket that listens. If it
connects between `bind()` and `listen()` it is refused, and, as `__enter__` raises,
nobody stops the server it has started.

*session.* `ActsAsPrivateGraphs` is the refinement of `PrivateGraphs`: between its begin and its
end, each call has its effect once, on the graph as the caller sees it, with the buffer carried
out; a call that raises has none, except that a worker that dies takes everything with it.
It assumes that a client connects to another graph only with an empty buffer; otherwise
(`SwitchAnytime`) the buffered updates go to the new graph, and TLC finds the refinement
violated. `ExactlyOnce` says that the updates the worker has received, followed by those of
the buffer, are the updates made, whichever calls have failed. `CallsEnd` assumes that
client and worker go on once a call has begun. One vertex is enough, as updates of
different vertices do not interact; three updates leave one in the buffer while others are
applied or committed.

Not a run of its own either: a worker is forked per connection and keeps its graphs to itself,
so that connecting to the same graph ID from two clients creates two graphs, and both are told
that they created it, other than the docstring of `SaengraClient.connect` and `messages.proto`
("create new if doesn't exist") have it.

Nor is what an exception of the parser does: it is not caught in the worker (`Die`), so that
the client gets a `ConnectionError` and has lost its graphs, where the docstrings of `observe` and
`match` promise an `ObserveError` and a `MatchError`.

## Theorems

Every theorem holds for all values of the constants that satisfy the named assumptions of the modules
it is about; `SocketOfTheRunning` and `GraphsArePrivate` state one more condition each, in the theorem
itself, four theorems about observers that matching is sound, and three that patterns are
vertices and edges one after the other, in which case it is; nothing else is assumed. Each of the six
components has one inductive invariant (theorem `Invariance` of its module, or the lemmas `RecordsAgree` and
`MatchingKept` about observers), and the other theorems follow from it.

What a recursive function computes is proved by well-founded induction on numbers: the least round for which
the fact fails is not the first one, nor any other (`LeastNumber`, `UpTo` of `MatchingProofs`, which `ObserverProofs` extends).

### The graph

For every finite set of vertices and labels, every set of type names, every typing of
vertices, and every bound on the logs (`VertexAssumption`, `VertexLogAssumption`, `EdgeAssumption`):

| Theorem (`GraphProofs`) | States |
|---|---|
| `Invariance` | `Spec => []GraphInv` |
| `TypeCorrect` | `Spec => []TypeOK` |
| `NothingDangles` | `Spec => []NoDanglingEdges` |
| `TrunksInSync` | `Spec => []TrunksMirror` |
| `TypeIndexInSync` | `Spec => []TypeIndexExact` |
| `LogsStayAlternating` | `Spec => []LogsAlternate` |
| `GraphIsTransactional` | `Spec => Transactions` |
| `RollbackIsTheLoop` | `Spec => RollbackRunsTheLoop` |
| `ApplyIsTheLoop` | `Spec => ApplyRunsTheLoop` |

`GraphInv` is the inductive invariant: types, `TypeIndexExact`, `TrunksMirror`, the
alternation of both logs, `NoDanglingEdges` and the type of `changes`. None of its parts is
inductive alone. `apply()` reports the right difference only on an alternating log
(`NetChange`); logs stay alternating because only actual changes are logged
(`AlternatesExtended`), which needs the last entry of an item to agree with the present
state (`Agrees`); after `rollback()` there is no dangling edge because there was none at the
last commit, so the invariant speaks of all three layers; a rollback restores `inverse`
because the edges whose entries it really undoes include every edge in which the present
and the committed edges differ (`ToggledCoversTheDifference`).

The argument goes by what log positions *stand for*: `Undo(current, log, k)` is the state
when the log had `k` entries. Logging actual changes leaves what every earlier position
stands for as it is (`UndoExtended`; `Logged` and its cases for single and bulk changes),
dropping a prefix shifts positions (`UndoDropped`), and position `Len(log)` stands for the
present (`UndoNothing`). So updates leave the applied and the committed layer alone, `apply()`
moves the applied one, `commit()` the committed one, and `rollback()` both and the present
one, which is exactly `GraphTransactions`. One lemma per operation of a container, then one
per action of `Graph` (`AddVertexStep`, ..., `RollbackStep`), then `NextStep`.

The loops need an induction over the log, which `LoopRuns` does once for any step: a loop
runs through whatever states follow one another by its step. For `rollback()` these are the states that the
log's positions stand for, from the last to the first (`UndoOneMore`, `UndoVertexIs`, `UndoEdgeIs`); the index and the
inverse trunk follow because they are exact at every position if they are now. For
`iter_just_changed()` they are the flags of the items among the first `n` entries (`ScanIs`), and after the
last entry the flags say what first and last entries do (`SeenToTheEnd`).

### The environment

For any finite sets of vertices and observers, whatever observers watch and handle, and for any limit on iterations
and bound on the buffer (`EnvironmentAssumption`):

| Theorem (`EnvironmentProofs`) | States |
|---|---|
| `Invariance` | `Spec => []EnvironmentInv` |
| `TypeCorrect` | `Spec => []TypeOK` |
| `EntitiesStayInSync` | `Spec => []EntitiesInSync` |
| `HandlersKnowWhatChanged` | `Spec => []ToldWhatChanged` |
| `CallsAreAtomic` | `Spec => Atomic` |

`EnvironmentInv` is the conjunction of `TypeOK`, `EntitiesInSync`, and three parts about the loop.
`WithinLimit`: a loop that goes on has not used up its limit, without which the count would have no
type. `ToldOf`: outside of `astray`, what has been told, with the observations that are still to be
handled, is what the applied graph matches, at every place of the loop. `Consistent`: the observations that wait
do not tell the same observer both that a vertex was created and that it was removed; otherwise the order in which
they are handled would matter, and `ToldOf` would not survive handling one (`FirstAndRest`). The step that
needs most is the adapter's answer: it has to say exactly what changed for each observer
(`AnswersSayWhatChanged`). A rollback keeps `EntitiesInSync` as `sync()` reads the graph that it
returns to, and updates keep it as one more update in the buffer changes what a flush makes of it by
just that update (`UpdatedByOneMore`).

### Entities

For any sets of primitives, plain values and labels, any fields and ranges, of which only
`EntitiesAssumption` says that primitives, plain values and objects are different things:

| Theorem (`EntitiesProofs`) | States |
|---|---|
| `Invariance` | `Spec => []EntitiesInv` |
| `TypeCorrect` | `Spec => []TypeOK` |
| `ObjectsAreUnique` | `Spec => []OneObjectEach` |
| `FieldsFollowEdges` | `Spec => []FieldsMirrorEdges` |
| `InverseFollowsFields` | `Spec => []InverseMirrorsFields` |
| `EntitiesAreAStore` | `Spec => ActsAsObjectStore` |

`EntitiesInv` says that objects and graph *belong together*: `Identified` (one object each), `Held` (only
living entities hold anything, and of entities only living ones; a field that is not a
set holds one item at most), `Mirrored` (inverse relations) and `Drawn` (edges), and that both layers of the graph
are `Whole`, without dangling edges and with one edge at most for a field with one value. `Held` is what makes the
rest inductive: `add()` may give an object a vertex without looking at any
field because nothing can hold an object that is not alive, and `_after_remove`, which *empties* a field with
one value instead of taking the item out, does the same as taking it out.

All operations of fields come down to one: a field is given other items (`Assigns` of the heap, `Links`
of the graph, `AssignsBelongs`), whatever mixture of clear, add and discard the code uses for it (one
lemma per operation, `SetFieldAssigns` to `AddToSetAssigns`). `AddedBelongs`, `RemovedBelongs` and
`SyncedBelongs` are about the life of entities, `NextHolds` joins them. The same lemmas give the
refinement: the fields of the store are what the edges say (`StoreOfHeap`), so that each step of the
graph is one of the store (`LinksStore`, `AddedStore`, `RemovedStore`).

### Refs

For any sets of names and values, finite or not, and any finite sets of literals as `normalized` leaves them
(`Region`). A region stands for the assignments of values to names that agree with it, a list of regions for those
within one of them; `Over(a, S)` are the regions of `S` that the assignment `a` agrees with:

| Theorem (`MatchingProofs`) | States, for regions `r` and `s` |
|---|---|
| `IntersectionIs` | `IntersectWith(r, s)` is within both, and is all that is |
| `ImpliesIsSound` | if `Implies(r, s)`, then `r` is within `s` |
| `SimplifyUnionIs` | `SimplifyUnion` keeps the union, and no region that implies another one |
| `SubtractIs` | `Subtract(r, s)` is what is in `r` and not in `s` |
| `SubtractAllIs` | `SubtractAll(T, regions)` is what is in `T` and in none of the `regions` |
| `RefutedAtOnce` | `SubtractAll({r}, regions)` is empty if part of `r`'s literals is among the `regions`: where the operand of a negation narrowed no name, the matcher does not subtract but answers at once |
| `ShortcutIsTheSame` | the shortcut of `arrange()` for disjoint regions gives the cells that splitting gives |
| `ArrangeIs` | each cell of `Arrange(regions)` is where just its members overlap; one cell, and no other, is for each set of regions that do |
| `BindingIs` | `Binding` says of a name and a value what is so, and where it says `"possible"`, `CopyAndSet` is the region where the name has the value |

What carries them is `SimplifyUnionCovers`. `simplify_union` marks every region that implies another one and
removes them all at once; two that implied each other would both be gone. That there are no two of this kind is
`ImpliesIsAntisymmetric`, which relies on `normalized` having dropped what a name is not where it says what the
name is. Then a region lost without one that contains it would, among those lost, be contained in fewest, and
yet what contains it is contained in fewer. `SplitCellIs` and `ArrangeNextIs` are one round of `arrange()`. They need
the list to be of distinct regions, which is what the matcher passes (`distinct_refs`).

`Implies` is sound only: a region may be within another one without implying it, or be empty, where there are
few values (`x is not a`, `x is not b`, and there is no third vertex). Nothing above needs more; a
region that is empty for the vertices of a graph is what `ExpandNegatives` leaves nothing of.

### Linear patterns

| Theorem (`MatchingProofs`) | States |
|---|---|
| `LinearMatchingIsSound` | if `IsLinear(paths[o])` and `Watches(o, paths[o])` for all observers `o`, then `SoundMatching({})` |

A pattern is linear if it is vertices and edges one after the other, in any number: its plan is then a list of paths
(`IsLinear`), whose items are vertices, edges of any direction and labels, and edges to a vertex that is known or named
before. Names may occur again, types and placeholders may be anywhere but at the beginning. `Watches(o, paths)` says
that the matcher's operators, which `ObserverProofs` leaves open, are for `o` those of `PathMatching`, applied to these
paths. Both hold of what `Planner` and `Matching` make of the patterns in `PatternsAreLinear`. A pattern that *begins*
with a placeholder is left out since for it the theorem is false: `observer_of_placeholder` is one.

What is proved, for graphs and paths of any size: whatever is found begins at the position it was looked for from, at a
vertex that is there; a query finds what an observer finds, whichever vertices have IDs; if nothing is observed of the deps
that were recorded, the same is found in the other graph; and from what was no start position there is nothing to be
found later, unless it is announced.

The deps of a match are those of what it *met*, not of the graph: it has to be shown that whatever could add a
subgraph in another graph was met. So two contexts are compared that differ in the graph and in which vertices have
IDs, but not in where they start (`Views`); `Seen` is what is observed of the difference. `SameRest` says of what
comes after an item that, where its deps are not seen, it finds the same from every position and refs that both could
reach. Each item hands this on to the one before: `VertexAgain`, `EdgeAgain`, `EdgeToAgain`, and so `PathAgain` for
the items of a path, `ConcatenationAgain` for paths, both by induction on how much comes after, and `LinearAgain`. The
deps of all branches that were taken are among those recorded, and where the search ends early, it does so in both
graphs. An edge without labels is followed over all edges of a vertex, and depends on them all; an edge to a
placeholder depends on the placeholder's vertex alone while that has no ID, and otherwise, as an edge to a vertex
named before, on the particular edges between the two. `expand_negatives` changes nothing, as nothing in such a
pattern excludes a value (`ExpandNegativesIs`).

What begins at a position begins with the first item, a vertex that passes its test, or an edge that has its labels
(`BeginsAt`). Where the position was not a start position of the one graph, and the other has such a subgraph, the vertex or
the edge is new, and `StartDeps` has an entry for it (`BeginsAnnounced`).

### Observers

For any vertices, any finite set of edges, any observers, events and heights of expressions (`ObserverAssumption`, `HeightAssumption`), and
any `Match`, `Deps`, `Starts`, `StartDeps` and `NestedMatch` of which only `StartsAssumption` says that start
positions are positions:

| Theorem (`ObserverProofs`) | States |
|---|---|
| `TypeCorrect` | `Spec => []TypeOK` |
| `SubscriptionsStayExact` | `Spec => []SubscriptionsExact` |

If moreover observers are registered between transactions (`~RegisterAnytime`), and matching is sound for some set
`S` of starts of nested expressions (`SoundMatching(S)`):

| Theorem (`ObserverProofs`) | States |
|---|---|
| `ObserversInSync` | `Spec => []InSync` |
| `CacheStaysCurrent` | `Spec => []CacheCurrent` |
| `CacheStaysInUse` | `Spec => []CacheInUse` |
| `RematchedIsAsIfRematched` | `Spec => AsIfRematched` |

`SoundMatching` is what the matcher owes the observers; it speaks of two graphs at most, of no observer's memory and of
no step. What a pattern finds from a position, and what of that depends on which deps, is a function of the graph;
the same is found as long as nothing is observed of the deps (`Unobserved`) and the position is not announced
(`Announced`); entries that are up to date may be read instead of matched anew; and deps on nested expressions are
on lower ones. It is a condition on patterns, not on the code around the matcher. TLC evaluates it for
the patterns of the run `observers`; the findings `observer_of_placeholder`, `observer_of_repeats` and
`observer_of_nested` are about patterns for which it fails, and there `InSync` fails, too. So the theorems
say that *only* the deps can be at fault: subscriptions, routing, rematching, the order in which
entries are updated, and eviction add no error of their own.

For observers whose patterns are vertices and edges one after the other the condition is proved (below), so that nothing
is assumed of what matching finds:

| Theorem (`ObserverProofs`) | States, where all patterns are linear and observers are registered between transactions |
|---|---|
| `LinearObserversInSync` | `Spec => []InSync` |
| `LinearRematchedIsAsIfRematched` | `Spec => AsIfRematched` |

`RecordsInv` is about the three records of what depends on what, and needs nothing of patterns. `MatchingInv(S)` adds
two parts. The registry is `InUse`: its entries are `Settled`, each holds what its start matches in the applied
graph, with deps that were recorded in *some* graph since which nothing of them has been observed (`Justified`);
what is read is there (`Closed`), and what is not read or watched may be evicted (`Kept`). And each observer is
`Attentive`: every position is either `Covered`, matched from in some graph since which nothing has
been observed of its deps, or `Idle`, not a start position of some graph and not announced since. These graphs
differ from entry to entry, and from position to position, which is why the invariant cannot speak of the latest
graphs alone: `UnobservedComposes` and `AnnouncedComposes` carry it from one `apply()` to the next.

An update goes height by height (`UpdateAtHeightUpdates`): when the entries below a height are of the new graph and
what has changed among them has been observed, those of this height which are not due find the same (`CurrentRises`),
and those which are due read entries that are up to date (`MatchedAnewIsCurrent`). In between the cache is of two graphs
(`CacheOf`). Lookups end as expressions get lower (`LookUpOnceLooks`), and the subscriptions that an update leads
to are enough (`RematchedIsEnough`). `ObserveChangesMatches` joins them, and `SubgraphChangesAre` has what
`find_subgraph_changes` reports, given that positions which were not rematched have the subgraphs they had.

### The server

For any finite set of clients, any of them the owner, any number of polls, and any phases in which
workers are signalled (`ServerAssumption`):

| Theorem (`ServerProofs`) | States |
|---|---|
| `Invariance` | `Spec => []ServerInv` |
| `TypeCorrect` | `Spec => []TypeOK` |
| `OwnerCleansUp` | `Spec => []NothingLeftBehind` |
| `AttachedClientsKeepOut` | `Spec => AttachedLeavesServer` |
| `SocketOfTheRunning` | `"forked" \notin SignalPhases` implies `Spec => []SocketWhileRunning` |

`ServerInv` follows a connection through the server. `Queued`: the backlog, in which nobody is twice, holds
exactly the queued connections; that nobody is twice is what makes `accept()` take *the* connection
out (`Advanced`). `Passed`: the listener holds at most one accepted connection, between `accept()` and `fork()`.
`Served`: whoever has a worker has an open connection, or a closed one and a worker that is through. `Asking`: a client
connects once, and is not answered before it has asked. `Owned`: no listener before its owner has spawned
it, none after the owner has waited for it or killed it; so nothing can bind the socket again after the
owner has removed it.

`SocketKept` is the strengthening of `SocketWhileRunning`: the socket file is also there *before* the listener runs,
from `bind()` on, and a worker whose copy of `running_` is still set has done nothing yet. The assumption of the last
theorem is needed: a worker signalled between `fork()` and `running_ = false` runs the listener's handler on
its copy, which removes the file of the listener that goes on.

### Sessions

For any finite sets of clients, graphs and vertices, and any bounds on the buffer and on the updates of a
client (`SessionAssumption`):

| Theorem (`SessionProofs`) | States |
|---|---|
| `Invariance` | `Spec => []SessionInv` |
| `TypeCorrect` | `Spec => []TypeOK` |
| `DeliveredExactlyOnce` | `Spec => []ExactlyOnce` |
| `GraphsArePrivate` | `~SwitchAnytime` and `Client # {}` imply `Spec => ActsAsPrivateGraphs` |

`SessionInv` says of each client: a call has its own request left to send, or before that the flush, which
holds exactly what the buffer holds, and once the call's own request is the only one left, the buffer of a call
that flushes is empty (`InCall`); the wire carries nothing, the first request, or an answer to it (`OnWire`); the graph
that the worker is connected to exists (`Connected`); what has been issued is what has been received,
followed by what is still unsent (`Delivered`, which is `ExactlyOnce` in a form that a step of a rollback
does not interrupt). Steps of one client leave the others as they are (`Same`, `SameKeeps`). `HandlerKeeps` has the
argument for all handlers: they answer the request, and only `apply_updates` that succeeds receives anything.

For the refinement, a graph is what it will be when the buffer arrives (`Working`): so an update takes effect
when it is made, and the worker's `apply_updates` is a stutter; everything else takes effect when the
worker handles it. `CallAnswered` is where the flush matters: a worker that handles a call's own request
answers from a graph in which the buffer has arrived. `connect()` does not flush; with
updates in the buffer it would take them to the other graph, which is why the theorem needs `~SwitchAnytime`.

### Only model-checked

- `FindsWhatIsMeant`, that matching finds what patterns mean, and `TypeOK` of that run: `Planner`, `Matching` and
  `PatternMeaning` have recursive operators, of which nothing can be proved here.
- For the same reason: `SoundMatching` for patterns with operators and nested expressions (`MatchingIsSound`, in all
  graphs of the run `observers`), and that linear patterns are planned as paths and matched as `Watches` has it
  (`PatternsAreLinear`).
- Liveness (`CallsEnd` of two runs, `ConnectedIsServed`, `ClosedConnectionsEnd`), which is beyond the prover.

## Not modelled yet, and the plan

In this order:

1. `EdgeLeaves`: unique and multiple leaves below a trunk, refining `EdgesContainer`'s sets.
2. Failing conversions in the middle of `Environment.add` and of the operations of fields.

Of patterns, left out or restricted:

- Nested expressions that share names with the rest of a pattern are in `Planner`, `Matching` and
  `NestedRegistry`; the expressions nested in the instances have no names.
- `(maybe: )` and `(repeat: )` around expressions that set names are in `Matching`, but have
  no counterpart in `PatternMeaning`: "nothing matched" is for all values at once there.
- A repetition without an upper bound over a cycle does not end, as `docs/usage_patterns.md`
  says; `max` is finite here.
- A pattern that has nothing but negations is refused by the code (it has no start position) and
  is not in the instances.
- `docs/usage_patterns.md` speaks of groups of `(all: )` that are merge-compatible and as large
  as possible. The code yields a subgraph for every cell of the arrangement, with exclusions
  expanded where they remain (`arrange`, `test_7_all.py`), and `PatternMeaning` says so.

Left out altogether: the grammar (flex and bison, no state; patterns are trees here), the proto messages (generated), colours,
logging and annotations, the benchmarks.

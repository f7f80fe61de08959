---------------------------- MODULE Environment ----------------------------
(***************************************************************************)
(* Environment (saengra/environment.py) on top of an adapter (src/adapter  *)
(* .cpp, or socket_adapter.py with worker.cpp behind it): the buffer of    *)
(* pending updates, the map of living entities, and the loops of apply()   *)
(* and commit(), which call the adapter and then the handlers of whatever  *)
(* it observed, until nothing more is observed.                            *)
(*                                                                         *)
(* Everything runs in one thread, but handlers are code of the user that   *)
(* runs in the middle of the loop and calls the environment back.          *)
(*                                                                         *)
(* The graph is represented by its three layers, as GraphTransactions has  *)
(* them; it consists of vertices only, as edges make no difference to the  *)
(* control.  A pattern of an observer is one vertex of some type (`user as *)
(* u'), so a subgraph is a vertex, and never changes without being created *)
(* or removed: there are ON_CREATE and ON_DELETE observations.             *)
(***************************************************************************)
EXTENDS UndoLog, FiniteSets, Functions

CONSTANTS Vertex,           \* primitives of entities
          Observer,         \* observers, registered at the start
          Watches,          \* the vertices that each observer's pattern matches
          Handles,          \* <<o, created>>: o has a handler for the event
          Limit,            \* 100
          MaxPending        \* bound on the length of the buffer

ASSUME EnvironmentAssumption ==
    /\ IsFiniteSet(Vertex) /\ IsFiniteSet(Observer)
    /\ Watches \in [Observer -> SUBSET Vertex]
    /\ Handles \in SUBSET (Observer \X BOOLEAN)
    /\ Limit \in Nat /\ MaxPending \in Nat

VARIABLES present, applied, committed,  \* the layers of the graph
          pending,       \* pending_updates of the adapter
          entities,      \* _entities, by their primitives
          committing,    \* _currently_committing
          call,          \* the loop that runs: "none", "apply" or "commit"
          at,            \* where it is: "client", "adapter" or "handlers"
          observations,  \* those of the adapter's answer not yet handled
          iterations,    \* num_iterations
          outcome,       \* how the latest call of apply() or commit() ended
          told,          \* history: what an observer's handlers were told exists
          astray         \* history: whether a handler has called rollback()

history == <<told, astray>>
layers == <<present, applied, committed>>
loop   == <<committing, call, at, observations, iterations, outcome>>
vars   == <<present, applied, committed, pending, entities,
            committing, call, at, observations, iterations, outcome, told, astray>>

(* Observers with handlers for both events, who can keep track. *)
Follower == {o \in Observer : {o} \X BOOLEAN \subseteq Handles}

Observation == [observer : Observer, vertex : Vertex, created : BOOLEAN]

TypeOK ==
    /\ present \in SUBSET Vertex
    /\ applied \in SUBSET Vertex
    /\ committed \in SUBSET Vertex
    /\ pending \in Seq(Change(Vertex))
    /\ entities \in SUBSET Vertex
    /\ committing = (call # "none")
    /\ call \in {"none", "apply", "commit"}
    /\ at \in {"client", "adapter", "handlers"}
    /\ (at = "client") = (call = "none")
    /\ observations \in Seq(Observation)
    /\ at # "handlers" => observations = <<>>
    /\ iterations \in 0..(Limit + 1)
    /\ outcome \in {"none", "returned", "raised"}
    /\ told \in [Follower -> SUBSET Vertex]
    /\ astray \in BOOLEAN

Init ==
    /\ present = {} /\ applied = {} /\ committed = {}
    /\ pending = <<>>
    /\ entities = {}
    /\ committing = FALSE /\ call = "none" /\ at = "client"
    /\ observations = <<>>
    /\ iterations = 0
    /\ outcome = "none"
    /\ told = [o \in Follower |-> {}]
    /\ astray = FALSE

-----------------------------------------------------------------------------
(* The adapter. *)

(* The vertices as they are once the buffer has been flushed. *)
Working == Updated(present, pending)

(* The observations of a net change, and the orders in which they may come *)
(* back: observer by observer, creations first.                            *)
Observed(added, removed) ==
    {ob \in Observation :
        /\ <<ob.observer, ob.created>> \in Handles
        /\ ob.vertex \in Watches[ob.observer]
        /\ ob.vertex \in IF ob.created THEN added ELSE removed}

Answers(obs) ==
    {order \in Bijection(1..Cardinality(obs), obs) :
        /\ \A i, k \in DOMAIN order : \A j \in i..k :
              order[i].observer = order[k].observer
                => order[j].observer = order[i].observer
        /\ \A i, k \in DOMAIN order :
              /\ i < k
              /\ order[i].observer = order[k].observer
              => order[i].created \/ ~order[k].created}

(* Environment.rollback(): rollback() of the adapter, then sync().  The    *)
(* handlers' own records live in the graph and are rolled back with it.    *)
(* A variant keeps the buffer, another one forgets sync().                 *)
RestoreKeepingPending ==
    /\ present' = committed /\ applied' = committed
    /\ entities' = committed
    /\ told' = [o \in Follower |-> committed \cap Watches[o]]
    /\ UNCHANGED <<committed, pending>>

RestoreWithoutSync ==
    /\ present' = committed /\ applied' = committed
    /\ pending' = <<>>
    /\ told' = [o \in Follower |-> committed \cap Watches[o]]
    /\ UNCHANGED <<committed, entities>>

Restore ==
    /\ present' = committed /\ applied' = committed
    /\ pending' = <<>>
    /\ entities' = committed
    /\ told' = [o \in Follower |-> committed \cap Watches[o]]
    /\ UNCHANGED committed

-----------------------------------------------------------------------------
(* What code of the user does, be it the client's or a handler's. *)

UserCode == at = "client" \/ (at = "handlers" /\ observations # <<>>)

Add(v) ==
    /\ UserCode
    /\ v \notin entities
    /\ Len(pending) < MaxPending
    /\ pending' = Append(pending, [item |-> v, added |-> TRUE])
    /\ entities' = entities \cup {v}
    /\ UNCHANGED <<layers, loop, history>>

Remove(v) ==
    /\ UserCode
    /\ v \in entities
    /\ Len(pending) < MaxPending
    /\ pending' = Append(pending, [item |-> v, added |-> FALSE])
    /\ entities' = entities \ {v}
    /\ UNCHANGED <<layers, loop, history>>

(* Any query: match, find_vertices, find_edges, find_all. *)
Query ==
    /\ UserCode
    /\ present' = Working
    /\ pending' = <<>>
    /\ UNCHANGED <<applied, committed, entities, loop, history>>

RollBack ==
    /\ UserCode
    /\ Restore
    /\ astray' = (at = "handlers")
    /\ UNCHANGED loop

(* apply() and commit() up to their loop.  From a handler they raise a     *)
(* RuntimeError, which is up to the handler: see HandlerRaises.  A variant *)
(* counts on from the iterations of the call before.                       *)
BeginWithoutReset(kind) ==
    /\ at = "client"
    /\ ~committing
    /\ committing' = TRUE /\ call' = kind /\ at' = "adapter"
    /\ outcome' = "none"
    /\ UNCHANGED <<layers, pending, entities, observations, iterations, history>>

Begin(kind) ==
    /\ at = "client"
    /\ ~committing
    /\ committing' = TRUE /\ call' = kind /\ at' = "adapter"
    /\ iterations' = 0
    /\ outcome' = "none"
    /\ UNCHANGED <<layers, pending, entities, observations, history>>

-----------------------------------------------------------------------------
(* The loops of _do_apply and _do_commit. *)

End(how) ==
    /\ committing' = FALSE /\ call' = "none" /\ at' = "client"
    /\ observations' = <<>>
    /\ outcome' = how

(* The handlers of an exception: rollback(), then the exception goes on. *)
Failed ==
    /\ Restore
    /\ astray' = FALSE
    /\ End("raised")

(* commit() or apply() of the adapter with something observed. *)
AdapterObserves ==
    LET obs == Observed(Working \ applied, applied \ Working) IN
    /\ at = "adapter"
    /\ obs # {}
    /\ present' = Working /\ applied' = Working
    /\ pending' = <<>>
    /\ observations' \in Answers(obs)
    /\ at' = "handlers"
    /\ UNCHANGED <<committed, entities, committing, call, iterations, outcome, history>>

(* With nothing observed, commit() makes the applied changes permanent;    *)
(* either way the loop ends, with one more iteration on its count.         *)
AdapterObservesNothing ==
    /\ at = "adapter"
    /\ Observed(Working \ applied, applied \ Working) = {}
    /\ present' = Working /\ applied' = Working
    /\ pending' = <<>>
    /\ committed' = IF call = "commit" THEN Working ELSE committed
    /\ iterations' = iterations + 1
    /\ End("returned")
    /\ UNCHANGED <<entities, history>>

(* The observations cannot be turned into Python objects, or the           *)
(* connection is gone and back in time for the rollback.                   *)
AdapterRaises ==
    /\ at = "adapter"
    /\ Failed
    /\ UNCHANGED iterations

HandlerReturns ==
    /\ at = "handlers"
    /\ observations # <<>>
    /\ LET ob == Head(observations) IN
       told' = [o \in Follower |->
                  CASE o # ob.observer -> told[o]
                    [] o = ob.observer /\ ob.created  -> told[o] \cup {ob.vertex}
                    [] o = ob.observer /\ ~ob.created -> told[o] \ {ob.vertex}]
    /\ observations' = Tail(observations)
    /\ UNCHANGED <<layers, pending, entities, committing, call, at, iterations, outcome, astray>>

(* A variant in which the exception ends the batch, but not the call. *)
HandlerRaisesInVain ==
    /\ at = "handlers"
    /\ observations # <<>>
    /\ observations' = <<>>
    /\ UNCHANGED <<layers, pending, entities, committing, call, at, iterations,
                   outcome, history>>

(* Also by letting through the RuntimeError of a nested apply or commit. *)
HandlerRaises ==
    /\ at = "handlers"
    /\ observations # <<>>
    /\ Failed
    /\ UNCHANGED iterations

(* A variant in which num_iterations += 1 is missing. *)
IterateWithoutCounting ==
    /\ at = "handlers"
    /\ observations = <<>>
    /\ iterations <= Limit
    /\ at' = "adapter"
    /\ UNCHANGED <<layers, pending, entities, committing, call, observations,
                   iterations, outcome, history>>

Iterate ==
    /\ at = "handlers"
    /\ observations = <<>>
    /\ iterations' = iterations + 1
    /\ iterations' <= Limit
    /\ at' = "adapter"
    /\ UNCHANGED <<layers, pending, entities, committing, call, observations,
                   outcome, history>>

(* "stuck in apply loop", "stuck in pre-commit loop" *)
Stuck ==
    /\ at = "handlers"
    /\ observations = <<>>
    /\ iterations' = iterations + 1
    /\ iterations' > Limit
    /\ Failed

LoopStep ==
    \/ AdapterObserves \/ AdapterObservesNothing \/ AdapterRaises
    \/ HandlerReturns \/ HandlerRaises
    \/ Iterate \/ Stuck

Next ==
    \/ \E v \in Vertex : Add(v) \/ Remove(v)
    \/ \E kind \in {"apply", "commit"} : Begin(kind)
    \/ Query \/ RollBack
    \/ LoopStep

Spec == Init /\ [][Next]_vars

(* The loops run in the thread of the caller, who waits for them, and      *)
(* handlers return or raise at some time.                                  *)
FairSpec == Spec /\ WF_vars(LoopStep)
=============================================================================

------------------------- MODULE EnvironmentSafety -------------------------
(***************************************************************************)
(* What the users of an environment rely on.                               *)
(***************************************************************************)
EXTENDS Environment

(* apply() and commit() are atomic, buffer and handlers included: what the *)
(* client and all handlers did is committed when commit() returns, and     *)
(* undone when it raises (`except Exception: self.rollback()').            *)
Promise == INSTANCE AtomicCommit WITH
    durable <- committed, working <- Working, running <- call

Atomic == Promise!Spec

(* The living entities are the vertices that a query would find, also      *)
(* while updates are still in the buffer, in the middle of a commit, and   *)
(* after it has failed (Environment.add, remove, sync).                    *)
EntitiesInSync == entities = Working

(* An observer that handles both events can keep track of what its pattern *)
(* matches: with the observations it still has to handle, it has been told *)
(* of just the vertices in the graph that was matched last; hence of the   *)
(* committed ones when commit() returns (collect_observations, _do_commit).*)
(* Unless a handler calls rollback(): the rest of the batch, which is      *)
(* still handled then, is about a graph that is gone.                      *)
Left(o, created) ==
    {observations[i].vertex : i \in
        {j \in DOMAIN observations : /\ observations[j].observer = o
                                     /\ observations[j].created = created}}
ToldWhatChanged ==
    ~astray =>
        \A o \in Follower :
            (told[o] \ Left(o, FALSE)) \cup Left(o, TRUE) = applied \cap Watches[o]

(* Because of the limit, apply() and commit() always end, whatever the     *)
(* handlers do to the graph (_do_apply, _do_commit).                       *)
CallsEnd == (at # "client") ~> (at = "client")
=============================================================================

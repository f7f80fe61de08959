------------------------------ MODULE UndoLog ------------------------------
(***************************************************************************)
(* The undo log that MutableVerticesContainer and MutableEdgesContainer    *)
(* both keep: a sequence of the changes made since the last commit, whose  *)
(* first `applied' entries have already been reported by apply().  Both    *)
(* classes scan the log in the same two ways, so the scans are stated      *)
(* here once, over an arbitrary kind of item (vertices, or edges).         *)
(*                                                                         *)
(* The C++ scans are loops that overwrite an earlier result with a later   *)
(* one; here each is the closed form of what its loop computes, in terms   *)
(* of the first and the last entry of an item.                             *)
(***************************************************************************)
EXTENDS Integers, Sequences

(* struct Change: what was changed, and whether it was added or removed. *)
Change(Item) == [item : Item, added : BOOLEAN]

(* The positions of log_[k:], in TLA+'s numbering from 1. *)
After(log, k) == (k + 1)..Len(log)

(* No entry of log_[k:] before (or: no entry after) position j is about    *)
(* the same item.                                                          *)
IsFirst(log, k, j) == \A i \in (k + 1)..(j - 1) : log[i].item # log[j].item
IsLast(log, j)     == \A i \in (j + 1)..Len(log) : log[i].item # log[j].item

(* The items of log_[k:], and those whose first (last) entry there is an   *)
(* addition or a removal, as asked.                                        *)
ItemsAfter(log, k) == {log[j].item : j \in After(log, k)}
FirstItems(log, k, added) ==
    {log[j].item : j \in {i \in After(log, k) :
                            IsFirst(log, k, i) /\ log[i].added = added}}
LastItems(log, k, added) ==
    {log[j].item : j \in {i \in After(log, k) :
                            IsLast(log, i) /\ log[i].added = added}}

(* A variant that looks at an item's last entry only. *)
JustChangedByLast(log, k, added) == LastItems(log, k, added)

(* iter_just_changed(added), with applied_ = k: its first_and_last map     *)
(* keeps the first and the last flag of each item of log_[k:].             *)
JustChanged(log, k, added) ==
    FirstItems(log, k, added) \cap LastItems(log, k, added)

(* Graph::update of the items present, by updates that are entries like    *)
(* those of a log: the last update of an item decides.                     *)
Updated(vs, updates) ==
    (vs \ ItemsAfter(updates, 0)) \cup LastItems(updates, 0, TRUE)

(* A variant that undoes the entries from the first to the last. *)
UndoForwards(current, log, k) ==
    (current \ ItemsAfter(log, k)) \cup LastItems(log, k, FALSE)

(* What `current' becomes when the entries of log_[k:] are undone from the *)
(* last to the first: the undoing of an item's first entry comes last, so  *)
(* it decides.  rollback() undoes the whole log: k = 0.                    *)
Undo(current, log, k) ==
    (current \ ItemsAfter(log, k)) \cup FirstItems(log, k, FALSE)

(* commit(): log_.erase(log_.begin(), log_.begin() + applied_). *)
DropApplied(log, applied) == SubSeq(log, applied + 1, Len(log))

(* What both classes rely on when they read their log: entries of an item  *)
(* with none of the same item between them differ, and the last entry of   *)
(* an item agrees with the present state.                                  *)
Agrees(log, current) ==
    \A j \in 1..Len(log) :
        IsLast(log, j) => (log[j].added <=> log[j].item \in current)
Alternates(log, current) ==
    /\ Agrees(log, current)
    /\ \A j \in 1..Len(log) : \A i \in 1..(j - 1) :
          /\ log[i].item = log[j].item
          /\ \A m \in (i + 1)..(j - 1) : log[m].item # log[j].item
          => log[i].added # log[j].added

(* The entries a bulk removal appends, in the order `items' lists them. *)
Removals(items) == [i \in DOMAIN items |-> [item |-> items[i], added |-> FALSE]]
=============================================================================

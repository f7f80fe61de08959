----------------------------- MODULE ObjectStore -----------------------------
(***************************************************************************)
(* What entities promise to be: objects with fields that hold values and   *)
(* other objects, all of which are saved and restored at once.  An object  *)
(* that is deleted leaves the fields of the others.                        *)
(***************************************************************************)
CONSTANTS Primitive, Plain,   \* what identifies an object, and mere values
          Label,
          LabelsOf,           \* the fields of an object
          Collections         \* the fields that are sets; the others have one value at most

VARIABLES fields,   \* of the objects that exist: label -> what it holds
          saved     \* the fields as they were saved last

storeVars == <<fields, saved>>

Blank == [l \in Label |-> {}]

Init == fields = [p \in {} |-> Blank] /\ saved = fields

WithObject(fs, p) == [q \in DOMAIN fs \cup {p} |-> IF q = p THEN Blank ELSE fs[q]]

WithoutObject(fs, p) == [q \in DOMAIN fs \ {p} |-> [l \in Label |-> fs[q][l] \ {p}]]

Create(p) ==
    /\ p \notin DOMAIN fields
    /\ fields' = WithObject(fields, p)
    /\ UNCHANGED saved

Delete(p) ==
    /\ p \in DOMAIN fields
    /\ fields' = WithoutObject(fields, p)
    /\ UNCHANGED saved

Assign(p, l, items) ==
    /\ p \in DOMAIN fields /\ l \in LabelsOf[p]
    /\ items \cap Primitive \subseteq DOMAIN fields
    /\ l \in Collections \/ \A i, j \in items : i = j
    /\ fields' = [fields EXCEPT ![p][l] = items]
    /\ UNCHANGED saved

(* An object comes to exist by being put into a set. *)
CreateIn(p, l, q) ==
    /\ p \in DOMAIN fields /\ q \notin DOMAIN fields
    /\ l \in LabelsOf[p] \cap Collections
    /\ fields' = WithObject([fields EXCEPT ![p][l] = @ \cup {q}], q)
    /\ UNCHANGED saved

Save    == saved' = fields /\ UNCHANGED fields
Restore == fields' = saved /\ UNCHANGED saved

Next ==
    \/ \E p \in Primitive : Create(p) \/ Delete(p)
    \/ \E p \in Primitive, l \in Label, items \in SUBSET (Primitive \cup Plain) : Assign(p, l, items)
    \/ \E p, q \in Primitive, l \in Label : CreateIn(p, l, q)
    \/ Save \/ Restore

Spec == Init /\ [][Next]_storeVars
=============================================================================

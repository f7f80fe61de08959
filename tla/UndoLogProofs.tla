--------------------------- MODULE UndoLogProofs ---------------------------
(***************************************************************************)
(* Facts about undo logs: how the operations of a container change what    *)
(* can be read back from its log.                                          *)
(***************************************************************************)
EXTENDS UndoLog, FunctionTheorems, FiniteSetTheorems, SequenceTheorems,
        TLAPS

(* A set of indexes has a least and a greatest element. *)
LEMMA LeastIndex ==
  ASSUME NEW n \in Nat, NEW T \in SUBSET (1..n), T # {}
  PROVE  \E x \in T : \A y \in T : x <= y
<1> DEFINE N == 1..n
           Segments == {1..x : x \in T}
           Below == StrictSubsetOrdering(N)
<1>1. IsFiniteSet(N)
  BY FS_Interval
<1>2. IsWellFoundedOn(Below, FiniteSubsetsOf(N))
  BY <1>1, FS_StrictSubsetOrderingWellFounded
<1>3. Segments \subseteq FiniteSubsetsOf(N)
  <2>. SUFFICES ASSUME NEW x \in T PROVE 1..x \in FiniteSubsetsOf(N)
    OBVIOUS
  <2>1. 1..x \subseteq N
    OBVIOUS
  <2>2. IsFiniteSet(1..x)
    BY <2>1, <1>1, FS_Subset
  <2>. QED
    BY <2>1, <2>2 DEF FiniteSubsetsOf
<1>4. Segments # {}
  OBVIOUS
<1>5. \E s \in Segments : \A t \in Segments : ~ (<<t, s>> \in Below)
  <2>. HIDE DEF Below, Segments
  <2>. QED
    BY <1>2, <1>3, <1>4, WFMin
<1>6. PICK x \in T : \A y \in T : ~ (<<1..y, 1..x>> \in Below)
  BY <1>5
<1>7. ASSUME NEW y \in T, y < x PROVE FALSE
  <2>1. 1..y \subseteq 1..x /\ x \in 1..x /\ x \notin 1..y
    BY <1>7
  <2>2. <<1..y, 1..x>> \in Below
    BY <2>1 DEF StrictSubsetOrdering
  <2>. QED
    BY <2>2, <1>6
<1>. QED
  BY <1>6, <1>7

(* The same for the greatest element. *)
LEMMA GreatestIndex ==
  ASSUME NEW n \in Nat, NEW T \in SUBSET (1..n), T # {}
  PROVE  \E x \in T : \A y \in T : y <= x
<1> DEFINE Reflected == {r \in 1..n : n + 1 - r \in T}
<1>1. Reflected \in SUBSET (1..n) /\ Reflected # {}
  <2>1. PICK x \in T : x \in 1..n
    OBVIOUS
  <2>2. n + 1 - x \in Reflected
    BY <2>1
  <2>. QED
    BY <2>2
<1>2. PICK r \in Reflected : \A s \in Reflected : r <= s
  <2>. HIDE DEF Reflected
  <2>. QED
    BY <1>1, LeastIndex
<1>3. \A y \in T : n + 1 - y \in Reflected
  OBVIOUS
<1>4. \A y \in T : r <= n + 1 - y
  BY <1>2, <1>3
<1>. QED
  BY <1>2, <1>4

(* An item that occurs in log_[k:] has a first and a last entry there. *)
LEMMA FirstAndLast ==
  ASSUME NEW Item, NEW log \in Seq(Change(Item)), NEW k \in 0..Len(log),
         NEW x \in ItemsAfter(log, k)
  PROVE  /\ \E j \in After(log, k) : log[j].item = x /\ IsFirst(log, k, j)
         /\ \E j \in After(log, k) : log[j].item = x /\ IsLast(log, j)
<1> DEFINE At == {j \in After(log, k) : log[j].item = x}
<1>1. Len(log) \in Nat
  OBVIOUS
<1>2. At \in SUBSET (1..Len(log)) /\ At # {}
  BY <1>1 DEF After, ItemsAfter
<1>3. PICK f \in At : \A j \in At : f <= j
  <2>. HIDE DEF At
  <2>. QED
    BY <1>1, <1>2, LeastIndex
<1>4. PICK l \in At : \A j \in At : j <= l
  <2>. HIDE DEF At
  <2>. QED
    BY <1>1, <1>2, GreatestIndex
<1>5. IsFirst(log, k, f)
  BY <1>1, <1>3 DEF IsFirst, After
<1>6. IsLast(log, l)
  BY <1>1, <1>4 DEF IsLast, After
<1>. QED
  BY <1>3, <1>4, <1>5, <1>6

(* Right after apply() there is nothing to undo. *)
LEMMA UndoNothing ==
  ASSUME NEW current, NEW log, Len(log) \in Nat
  PROVE  Undo(current, log, Len(log)) = current
<1>1. After(log, Len(log)) = {}
  BY DEF After
<1>. QED
  BY <1>1 DEF Undo, ItemsAfter, FirstItems

(* Changes that are actual ones, each of a different item, and the state   *)
(* that they lead to.                                                      *)
Actual(more, current) ==
    /\ \A i, j \in 1..Len(more) : more[i].item = more[j].item => i = j
    /\ \A i \in 1..Len(more) : more[i].added <=> more[i].item \notin current
Changed(more, current) ==
    (current \ ItemsAfter(more, 0)) \cup (ItemsAfter(more, 0) \ current)

(* Logging actual changes does not alter what the log's earlier positions  *)
(* stand for.                                                              *)
LEMMA UndoExtended ==
  ASSUME NEW Item, NEW log \in Seq(Change(Item)), NEW more \in Seq(Change(Item)),
         NEW k \in 0..Len(log), NEW current, Actual(more, current)
  PROVE  Undo(Changed(more, current), log \o more, k) = Undo(current, log, k)
<1> DEFINE L == Len(log)
           M == Len(more)
           new == log \o more
           now == Changed(more, current)
<1>1. /\ L \in Nat /\ M \in Nat /\ k \in 0..L /\ Len(new) = L + M
      /\ \A i \in 1..L : new[i] = log[i]
      /\ \A i \in 1..M : new[L + i] = more[i]
      /\ \A i \in (L + 1)..(L + M) : i - L \in 1..M /\ new[i] = more[i - L]
  BY ConcatProperties, LenProperties
<1>2. \A i \in 1..M : more[i].added \in BOOLEAN
  <2>1. \A i \in 1..Len(more) : more[i] \in Change(Item)
    BY ElementOfSeq
  <2>. QED
    BY <2>1 DEF Change
<1> HIDE DEF L, M, new
<1>3. /\ After(log, k) = (k + 1)..L
      /\ After(new, k) = (k + 1)..(L + M)
      /\ After(more, 0) = 1..M
  BY <1>1 DEF After, L, M
<1>4. SUFFICES ASSUME NEW x
               PROVE  x \in Undo(now, new, k) <=> x \in Undo(current, log, k)
  BY DEF new
<1> HIDE DEF now
<1>10. x \in Undo(current, log, k) <=>
            \/ x \in current /\ \A j \in (k + 1)..L : log[j].item # x
            \/ \E j \in (k + 1)..L :
                  log[j].item = x /\ IsFirst(log, k, j) /\ log[j].added = FALSE
  <2>1. After(log, k) = (k + 1)..L
    BY <1>3
  <2>. QED
    BY <2>1 DEF Undo, ItemsAfter, FirstItems
<1>11. x \in Undo(now, new, k) <=>
            \/ x \in now /\ \A j \in (k + 1)..(L + M) : new[j].item # x
            \/ \E j \in (k + 1)..(L + M) :
                  new[j].item = x /\ IsFirst(new, k, j) /\ new[j].added = FALSE
  <2>1. After(new, k) = (k + 1)..(L + M)
    BY <1>3
  <2>. QED
    BY <2>1 DEF Undo, ItemsAfter, FirstItems
<1>5. CASE x \in ItemsAfter(log, k)
  <2>1. PICK f \in (k + 1)..L : log[f].item = x
    BY <1>3, <1>5 DEF ItemsAfter
  <2>2. f \in (k + 1)..(L + M) /\ new[f].item = x
    BY <1>1, <2>1
  <2>3. ASSUME NEW j \in (k + 1)..L
        PROVE  IsFirst(new, k, j) <=> IsFirst(log, k, j)
    <3>1. new[j] = log[j] /\ \A i \in (k + 1)..(j - 1) : new[i] = log[i]
      BY <1>1
    <3>. QED
      BY <3>1, Zenon DEF IsFirst
  <2>4. \A j \in (L + 1)..(L + M) : new[j].item = x => ~ IsFirst(new, k, j)
    BY <1>1, <2>1, <2>2 DEF IsFirst
  <2>5. x \in Undo(now, new, k) <=>
           \E j \in (k + 1)..(L + M) :
              new[j].item = x /\ IsFirst(new, k, j) /\ new[j].added = FALSE
    BY <1>11, <2>2
  <2>6. x \in Undo(current, log, k) <=>
           \E j \in (k + 1)..L :
              log[j].item = x /\ IsFirst(log, k, j) /\ log[j].added = FALSE
    BY <1>10, <2>1
  <2>. QED
    BY <1>1, <2>3, <2>4, <2>5, <2>6
<1>6. CASE x \notin ItemsAfter(log, k)
  <2>1. \A j \in (k + 1)..L : log[j].item # x
    BY <1>3, <1>6 DEF ItemsAfter
  <2>2. x \in Undo(current, log, k) <=> x \in current
    BY <1>10, <2>1
  <2>3. CASE x \in ItemsAfter(more, 0)
    <3>1. PICK i \in 1..M : more[i].item = x
      BY <1>3, <2>3 DEF ItemsAfter
    <3>2. /\ L + i \in (k + 1)..(L + M) /\ new[L + i].item = x
          /\ new[L + i].added = more[i].added
      BY <1>1, <3>1
    <3>3. \A j \in (k + 1)..(L + M) : new[j].item = x => j = L + i
      <4>1. SUFFICES ASSUME NEW j \in (k + 1)..(L + M), new[j].item = x
                     PROVE  j = L + i
        OBVIOUS
      <4>2. j \in (L + 1)..(L + M)
        BY <1>1, <2>1, <4>1
      <4>3. j - L \in 1..M /\ more[j - L].item = x
        BY <1>1, <4>1, <4>2
      <4>. QED
        BY <1>1, <3>1, <4>3 DEF Actual, M
    <3>4. IsFirst(new, k, L + i)
      BY <1>1, <3>2, <3>3 DEF IsFirst
    <3>5. x \in Undo(now, new, k) <=> new[L + i].added = FALSE
      BY <1>11, <3>2, <3>3, <3>4
    <3>6. new[L + i].added = FALSE <=> x \in current
      BY <1>2, <3>1, <3>2 DEF Actual, M
    <3>. QED
      BY <2>2, <3>5, <3>6
  <2>4. CASE x \notin ItemsAfter(more, 0)
    <3>1. \A i \in 1..M : more[i].item # x
      BY <1>3, <2>4 DEF ItemsAfter
    <3>2. \A j \in (k + 1)..(L + M) : new[j].item # x
      <4>1. ASSUME NEW j \in (k + 1)..L PROVE new[j].item # x
        <5>1. new[j] = log[j]
          BY <1>1
        <5> QED BY <2>1, <5>1, Zenon
      <4>2. ASSUME NEW j \in (L + 1)..(L + M) PROVE new[j].item # x
        <5>1. j - L \in 1..M /\ new[j] = more[j - L]
          BY <1>1
        <5> QED BY <3>1, <5>1, Zenon
      <4>3. \A j \in (k + 1)..(L + M) : j \in (k + 1)..L \/ j \in (L + 1)..(L + M)
        BY <1>1
      <4> QED BY <4>1, <4>2, <4>3, Zenon
    <3>3. x \in Undo(now, new, k) <=> x \in now
      BY <1>11, <3>2
    <3>. QED
      BY <2>2, <2>4, <3>3 DEF Changed, now
  <2>. QED
    BY <2>3, <2>4
<1>. QED
  BY <1>5, <1>6

(* Logging actual changes keeps the log consistent with the present state. *)
LEMMA AlternatesExtended ==
  ASSUME NEW Item, NEW log \in Seq(Change(Item)), NEW more \in Seq(Change(Item)),
         NEW current, Actual(more, current), Alternates(log, current)
  PROVE  Alternates(log \o more, Changed(more, current))
<1> DEFINE L == Len(log)
           M == Len(more)
           new == log \o more
           now == Changed(more, current)
<1>1. /\ L \in Nat /\ M \in Nat /\ Len(new) = L + M
      /\ \A i \in 1..L : new[i] = log[i]
      /\ \A i \in (L + 1)..(L + M) : i - L \in 1..M /\ new[i] = more[i - L]
      /\ \A i \in 1..M : new[L + i] = more[i]
  BY ConcatProperties, LenProperties
<1>2. \A i \in 1..L : log[i].added \in BOOLEAN
  <2>1. \A i \in 1..Len(log) : log[i] \in Change(Item)
    BY ElementOfSeq
  <2>. QED
    BY <2>1 DEF Change
<1>3. \A i \in 1..M : more[i].added \in BOOLEAN
  <2>1. \A i \in 1..Len(more) : more[i] \in Change(Item)
    BY ElementOfSeq
  <2>. QED
    BY <2>1 DEF Change
<1>4. /\ \A i \in 1..M : more[i].added <=> more[i].item \notin current
      /\ \A i \in 1..M : more[i].item \in now <=> more[i].item \notin current
      /\ \A x : (\A i \in 1..M : more[i].item # x) => (x \in now <=> x \in current)
      /\ \A i, j \in 1..M : more[i].item = more[j].item => i = j
  BY <1>1 DEF Actual, Changed, ItemsAfter, After
<1>5. \A j \in 1..L : IsLast(log, j) => (log[j].added <=> log[j].item \in current)
  BY DEF Alternates, Agrees
<1>6. \A j \in 1..L : \A i \in 1..(j - 1) :
          /\ log[i].item = log[j].item
          /\ \A m \in (i + 1)..(j - 1) : log[m].item # log[j].item
          => log[i].added # log[j].added
  BY DEF Alternates
<1> HIDE DEF L, M, new, now
<1>7. Agrees(new, now)
  <2>1. SUFFICES ASSUME NEW j \in 1..(L + M),
                        \A i \in (j + 1)..(L + M) : new[i].item # new[j].item
                 PROVE  new[j].added <=> new[j].item \in now
    BY <1>1 DEF Agrees, IsLast
  <2>2. CASE j \in 1..L
    <3>1. new[j] = log[j]
      BY <1>1, <2>2
    <3>2. \A i \in (j + 1)..L : log[i].item # log[j].item
      <4>1. \A i \in (j + 1)..L : i \in (j + 1)..(L + M) /\ new[i] = log[i]
        BY <1>1, <2>2
      <4>. QED
        BY <2>1, <3>1, <4>1, Zenon
    <3>3. log[j].added <=> log[j].item \in current
      BY <1>5, <2>2, <3>2 DEF IsLast, L
    <3>4. \A i \in 1..M : more[i].item # new[j].item
      <4>1. \A i \in 1..M : L + i \in (j + 1)..(L + M) /\ new[L + i] = more[i]
        BY <1>1, <2>2
      <4>. QED
        BY <2>1, <4>1, Zenon
    <3>. QED
      BY <1>4, <3>1, <3>3, <3>4, Zenon
  <2>3. CASE j \in (L + 1)..(L + M)
    <3>1. j - L \in 1..M /\ new[j] = more[j - L]
      BY <1>1, <2>3
    <3>. QED
      BY <1>4, <3>1, Zenon
  <2>. QED
    BY <1>1, <2>2, <2>3
<1>8. ASSUME NEW j \in 1..(L + M), NEW i \in 1..(j - 1),
             new[i].item = new[j].item,
             \A m \in (i + 1)..(j - 1) : new[m].item # new[j].item
      PROVE  new[i].added # new[j].added
  <2>1. CASE j \in 1..L
    <3>1. new[i] = log[i] /\ new[j] = log[j]
      BY <1>1, <2>1
    <3>2. \A m \in (i + 1)..(j - 1) : new[m] = log[m]
      BY <1>1, <2>1
    <3>3. \A m \in (i + 1)..(j - 1) : log[m].item # log[j].item
      BY <1>8, <3>1, <3>2, Zenon
    <3>4. log[i].item = log[j].item
      BY <1>8, <3>1, Zenon
    <3>5. log[i].added # log[j].added
      BY <1>6, <2>1, <3>3, <3>4, Zenon
    <3>. QED
      BY <3>1, <3>5, Zenon
  <2>2. CASE j \in (L + 1)..(L + M) /\ i \in (L + 1)..(L + M)
    <3>1. /\ j - L \in 1..M /\ new[j] = more[j - L]
          /\ i - L \in 1..M /\ new[i] = more[i - L]
      BY <1>1, <2>2
    <3>2. i - L = j - L
      BY <1>4, <1>8, <3>1, Zenon
    <3>. QED
      BY <1>1, <2>2, <3>2
  <2>3. CASE j \in (L + 1)..(L + M) /\ i \in 1..L
    <3>1. j - L \in 1..M /\ new[j] = more[j - L] /\ new[i] = log[i]
      BY <1>1, <2>3
    <3>2. \A m \in (i + 1)..L : m \in (i + 1)..(j - 1) /\ new[m] = log[m]
      BY <1>1, <2>3
    <3>3. \A m \in (i + 1)..L : log[m].item # log[i].item
      BY <1>8, <3>1, <3>2, Zenon
    <3>4. log[i].added <=> log[i].item \in current
      BY <1>5, <2>3, <3>3 DEF IsLast, L
    <3>5. more[j - L].added <=> more[j - L].item \notin current
      BY <1>4, <3>1, Zenon
    <3>6. log[i].item = more[j - L].item
      BY <1>8, <3>1, Zenon
    <3>7. log[i].added # more[j - L].added
      BY <3>4, <3>5, <3>6, Zenon
    <3>. QED
      BY <3>1, <3>7, Zenon
  <2>. QED
    BY <1>1, <2>1, <2>2, <2>3
<1>9. Len(new) = L + M
  BY <1>1
<1>. QED
  BY <1>7, <1>8, <1>9 DEF Alternates, new, now

(* commit() drops the applied entries: what is left to undo leads back to  *)
(* the state at the last apply, and stays consistent with the present one. *)
LEMMA UndoDropped ==
  ASSUME NEW Item, NEW log \in Seq(Change(Item)), NEW n \in 0..Len(log), NEW current
  PROVE  /\ DropApplied(log, n) \in Seq(Change(Item))
         /\ Undo(current, DropApplied(log, n), 0) = Undo(current, log, n)
         /\ Alternates(log, current) => Alternates(DropApplied(log, n), current)
<1> DEFINE L == Len(log)
           rest == DropApplied(log, n)
<1>1. /\ L \in Nat /\ n \in 0..L
      /\ \A i \in (n + 1)..L : log[i] \in Change(Item)
  BY ElementOfSeq
<1>2. rest \in Seq(Change(Item))
  BY <1>1, SubSeqProperties DEF DropApplied
<1>3. Len(rest) = L - n
  <2>1. Len(rest) = IF n + 1 <= L THEN L - (n + 1) + 1 ELSE 0
    BY <1>1, SubSeqProperties DEF DropApplied
  <2>. QED
    BY <1>1, <2>1
<1>4. \A i \in 1..(L - n) : rest[i] = log[n + i]
  <2>1. \A i \in 1..(L - (n + 1) + 1) : rest[i] = log[(n + 1) + i - 1]
    BY <1>1, SubSeqProperties DEF DropApplied
  <2>2. \A i \in 1..(L - n) : i \in 1..(L - (n + 1) + 1) /\ (n + 1) + i - 1 = n + i
    BY <1>1
  <2>. QED
    BY <2>1, <2>2
<1>5. \A i \in (n + 1)..L : i - n \in 1..(L - n) /\ rest[i - n] = log[i]
  BY <1>1, <1>4
<1>6. After(rest, 0) = 1..(L - n) /\ After(log, n) = (n + 1)..L
  BY <1>1, <1>3 DEF After
<1> HIDE DEF L, rest
<1>7. \A i \in 1..(L - n) : IsFirst(rest, 0, i) <=> IsFirst(log, n, n + i)
  <2>1. SUFFICES ASSUME NEW i \in 1..(L - n)
                 PROVE  (\A m \in 1..(i - 1) : rest[m].item # rest[i].item)
                        <=> (\A m \in (n + 1)..(n + i - 1) : log[m].item # log[n + i].item)
    BY <1>1 DEF IsFirst
  <2>2. \A m \in 1..(i - 1) : n + m \in (n + 1)..(n + i - 1) /\ rest[m] = log[n + m]
    BY <1>1, <1>4
  <2>3. \A m \in (n + 1)..(n + i - 1) : m - n \in 1..(i - 1) /\ rest[m - n] = log[m]
    BY <1>1, <1>5
  <2>4. rest[i] = log[n + i]
    BY <1>4
  <2>. QED
    BY <2>2, <2>3, <2>4, Zenon
<1>8. Undo(current, rest, 0) = Undo(current, log, n)
  <2>1. ItemsAfter(rest, 0) = ItemsAfter(log, n)
    <3>1. \A i \in 1..(L - n) : n + i \in (n + 1)..L /\ rest[i] = log[n + i]
      BY <1>1, <1>4
    <3>2. \A x \in ItemsAfter(rest, 0) : x \in ItemsAfter(log, n)
      BY <1>6, <3>1, Zenon DEF ItemsAfter
    <3>3. \A x \in ItemsAfter(log, n) : x \in ItemsAfter(rest, 0)
      BY <1>5, <1>6, Zenon DEF ItemsAfter
    <3>. QED
      BY <3>2, <3>3
  <2>2. ASSUME NEW x \in FirstItems(rest, 0, FALSE)
        PROVE  x \in FirstItems(log, n, FALSE)
    <3>1. PICK i \in 1..(L - n) :
             rest[i].item = x /\ IsFirst(rest, 0, i) /\ rest[i].added = FALSE
      BY <1>6, <2>2, Zenon DEF FirstItems
    <3>2. n + i \in (n + 1)..L /\ rest[i] = log[n + i]
      BY <1>1, <1>4
    <3>. QED
      BY <1>6, <1>7, <3>1, <3>2, Zenon DEF FirstItems
  <2>3. ASSUME NEW x \in FirstItems(log, n, FALSE)
        PROVE  x \in FirstItems(rest, 0, FALSE)
    <3>1. PICK j \in (n + 1)..L :
             log[j].item = x /\ IsFirst(log, n, j) /\ log[j].added = FALSE
      BY <1>6, <2>3, Zenon DEF FirstItems
    <3>2. j - n \in 1..(L - n) /\ rest[j - n] = log[j] /\ n + (j - n) = j
      BY <1>1, <1>5
    <3>3. IsFirst(rest, 0, j - n)
      BY <1>7, <3>1, <3>2
    <3>. QED
      BY <1>6, <3>1, <3>2, <3>3, Zenon DEF FirstItems
  <2>. QED
    BY <2>1, <2>2, <2>3 DEF Undo
<1>9. ASSUME Alternates(log, current) PROVE Alternates(rest, current)
  <2>1. \A i \in 1..(L - n) : n + i \in 1..L /\ rest[i] = log[n + i]
    BY <1>1, <1>4
  <2>2. ASSUME NEW j \in 1..(L - n), IsLast(rest, j)
        PROVE  rest[j].added <=> rest[j].item \in current
    <3>1. \A m \in (n + j + 1)..L : m - n \in (j + 1)..(L - n) /\ rest[m - n] = log[m]
      BY <1>1, <1>5
    <3>2. \A m \in (n + j + 1)..L : log[m].item # log[n + j].item
      BY <1>3, <2>1, <2>2, <3>1, Zenon DEF IsLast
    <3>3. IsLast(log, n + j)
      BY <3>2 DEF IsLast, L
    <3>4. log[n + j].added <=> log[n + j].item \in current
      BY <1>9, <2>1, <3>3 DEF Alternates, Agrees, L
    <3>. QED
      BY <2>1, <3>4, Zenon
  <2>3. ASSUME NEW j \in 1..(L - n), NEW i \in 1..(j - 1),
               rest[i].item = rest[j].item,
               \A m \in (i + 1)..(j - 1) : rest[m].item # rest[j].item
        PROVE  rest[i].added # rest[j].added
    <3>1. i \in 1..(L - n) /\ n + i \in 1..(n + j - 1)
      BY <1>1
    <3>2. \A m \in (n + i + 1)..(n + j - 1) :
             m - n \in (i + 1)..(j - 1) /\ rest[m - n] = log[m]
      BY <1>1, <1>5
    <3>3. \A m \in (n + i + 1)..(n + j - 1) : log[m].item # log[n + j].item
      BY <2>1, <2>3, <3>2, Zenon
    <3>4. log[n + i].item = log[n + j].item
      BY <2>1, <2>3, <3>1, Zenon
    <3>5. log[n + i].added # log[n + j].added
      BY <1>9, <2>1, <3>1, <3>3, <3>4 DEF Alternates, L
    <3>. QED
      BY <2>1, <3>1, <3>5, Zenon
  <2>. QED
    BY <1>3, <2>2, <2>3 DEF Alternates, Agrees
<1>. QED
  BY <1>2, <1>8, <1>9 DEF rest

(* On a consistent log, what iter_just_changed() finds from the first and  *)
(* the last entry of each item is the net difference between the present   *)
(* state and the state that position k stands for.                         *)
ReportsNetChange(log, k, current) ==
    /\ JustChanged(log, k, TRUE) = current \ Undo(current, log, k)
    /\ JustChanged(log, k, FALSE) = Undo(current, log, k) \ current

(* iter_just_changed() of either container reports the net change. *)
LEMMA NetChange ==
  ASSUME NEW Item, NEW log \in Seq(Change(Item)), NEW k \in 0..Len(log),
         NEW current, Alternates(log, current)
  PROVE  ReportsNetChange(log, k, current)
<1>1. /\ Len(log) \in Nat
      /\ \A j \in After(log, k) : j \in 1..Len(log)
  BY LenProperties DEF After
<1>2. \A j \in After(log, k) : log[j].added \in BOOLEAN
  <2>1. \A j \in 1..Len(log) : log[j] \in Change(Item)
    BY ElementOfSeq
  <2>. QED
    BY <1>1, <2>1 DEF Change
(* Two first entries of an item are the same entry. *)
<1>3. ASSUME NEW i \in After(log, k), NEW j \in After(log, k),
             log[i].item = log[j].item, IsFirst(log, k, i), IsFirst(log, k, j)
      PROVE  i = j
  <2>1. i \in Int /\ j \in Int /\ i >= k + 1 /\ j >= k + 1
    BY <1>1 DEF After
  <2>2. CASE i < j
    <3>1. i \in (k + 1)..(j - 1)
      BY <2>1, <2>2
    <3>. QED
      BY <1>3, <3>1, Zenon DEF IsFirst
  <2>3. CASE j < i
    <3>1. j \in (k + 1)..(i - 1)
      BY <2>1, <2>3
    <3>. QED
      BY <1>3, <3>1, Zenon DEF IsFirst
  <2>. QED
    BY <2>1, <2>2, <2>3
<1>4. ASSUME NEW x \in ItemsAfter(log, k)
      PROVE  \E f, l \in After(log, k) :
                /\ log[f].item = x /\ IsFirst(log, k, f)
                /\ log[l].item = x /\ IsLast(log, l)
                /\ log[l].added <=> x \in current
                /\ \A a \in BOOLEAN : x \in FirstItems(log, k, a) <=> log[f].added = a
                /\ \A a \in BOOLEAN : x \in LastItems(log, k, a) <=> log[l].added = a
  <2>1. PICK f \in After(log, k) : log[f].item = x /\ IsFirst(log, k, f)
    BY FirstAndLast
  <2>2. PICK l \in After(log, k) : log[l].item = x /\ IsLast(log, l)
    BY FirstAndLast
  <2>3. \A j \in After(log, k) : IsLast(log, j) =>
           (log[j].added <=> log[j].item \in current)
    BY <1>1, Zenon DEF Alternates, Agrees
  <2>4. \A a \in BOOLEAN : x \in FirstItems(log, k, a) <=> log[f].added = a
    BY <1>3, <2>1, Zenon DEF FirstItems
  <2>5. \A j \in After(log, k) : log[j].item = x /\ IsLast(log, j)
           => log[j].added = log[l].added
    BY <1>2, <2>2, <2>3, Zenon
  <2>6. \A a \in BOOLEAN : x \in LastItems(log, k, a) <=> log[l].added = a
    BY <2>2, <2>5, Zenon DEF LastItems
  <2>. QED
    BY <2>1, <2>2, <2>3, <2>4, <2>6, Zenon
<1>5. ASSUME NEW x, x \notin ItemsAfter(log, k)
      PROVE  /\ x \in Undo(current, log, k) <=> x \in current
             /\ \A a \in BOOLEAN : x \notin JustChanged(log, k, a)
  BY <1>5, Zenon DEF Undo, ItemsAfter, FirstItems, JustChanged
<1>6. ASSUME NEW x \in ItemsAfter(log, k)
      PROVE  /\ x \in Undo(current, log, k) <=> x \in FirstItems(log, k, FALSE)
             /\ x \in JustChanged(log, k, TRUE) <=>
                   x \in current /\ x \notin Undo(current, log, k)
             /\ x \in JustChanged(log, k, FALSE) <=>
                   x \notin current /\ x \in Undo(current, log, k)
  <2>1. x \in Undo(current, log, k) <=> x \in FirstItems(log, k, FALSE)
    BY Zenon DEF Undo
  <2>2. PICK f, l \in After(log, k) :
           /\ log[l].added <=> x \in current
           /\ \A a \in BOOLEAN : x \in FirstItems(log, k, a) <=> log[f].added = a
           /\ \A a \in BOOLEAN : x \in LastItems(log, k, a) <=> log[l].added = a
    BY <1>4
  <2>3. log[f].added \in BOOLEAN /\ log[l].added \in BOOLEAN
    BY <1>2
  <2>4. /\ x \in FirstItems(log, k, TRUE) <=> ~ (x \in FirstItems(log, k, FALSE))
        /\ x \in LastItems(log, k, TRUE) <=> x \in current
        /\ x \in LastItems(log, k, FALSE) <=> x \notin current
    BY <2>2, <2>3, Zenon
  <2>. QED
    BY <2>1, <2>4, Zenon DEF JustChanged
<1>7. ASSUME NEW x
      PROVE  /\ x \in JustChanged(log, k, TRUE) <=> x \in current \ Undo(current, log, k)
             /\ x \in JustChanged(log, k, FALSE) <=> x \in Undo(current, log, k) \ current
  BY <1>5, <1>6, Zenon
<1>. QED
  BY <1>7 DEF ReportsNetChange

(* What both kinds of logging amount to: the log has grown to `new' and    *)
(* the state it is about has changed to `now' so that the log is still     *)
(* consistent, and its earlier positions stand for what they stood for.    *)
Logs(Item, log, current, new, now) ==
    /\ new \in Seq(Change(Item))
    /\ Len(log) <= Len(new)
    /\ Alternates(new, now)
    /\ \A k \in 0..Len(log) : Undo(now, new, k) = Undo(current, log, k)

(* Appending actual changes of different items to a log has both effects. *)
LEMMA Logged ==
  ASSUME NEW Item, NEW log \in Seq(Change(Item)), NEW more \in Seq(Change(Item)),
         NEW current, Actual(more, current), Alternates(log, current)
  PROVE  Logs(Item, log, current, log \o more, Changed(more, current))
<1>1. log \o more \in Seq(Change(Item)) /\ Len(log \o more) = Len(log) + Len(more)
  BY ConcatProperties
<1>2. Len(log) \in Nat /\ Len(more) \in Nat
  OBVIOUS
<1>3. Alternates(log \o more, Changed(more, current))
  BY AlternatesExtended
<1>4. \A k \in 0..Len(log) :
         Undo(Changed(more, current), log \o more, k) = Undo(current, log, k)
  BY UndoExtended
<1>. QED
  BY <1>1, <1>2, <1>3, <1>4 DEF Logs

(* One actual change is appended (add_vertex, discard_vertex, add_edge,    *)
(* remove_edge).                                                           *)
LEMMA LoggedOne ==
  ASSUME NEW Item, NEW log \in Seq(Change(Item)), NEW current, NEW now,
         NEW x \in Item, NEW added \in BOOLEAN, added <=> x \notin current,
         now = IF added THEN current \cup {x} ELSE current \ {x},
         NEW new, new = Append(log, [item |-> x, added |-> added]),
         Alternates(log, current)
  PROVE  Logs(Item, log, current, new, now)
<1> DEFINE change == [item |-> x, added |-> added]
           more == <<change>>
<1>1. change \in Change(Item) /\ change.item = x /\ change.added = added
  BY DEF Change
<1> HIDE DEF change
<1>2. more \in Seq(Change(Item)) /\ Len(more) = 1 /\ more[1] = change
  BY <1>1
<1>3. Append(log, change) = log \o more
  BY <1>1, AppendIsConcat
<1> HIDE DEF more
<1>4. 1..Len(more) = {1} /\ After(more, 0) = {1}
  BY <1>2 DEF After
<1>5. Actual(more, current)
  <2>1. \A i \in 1..Len(more) : i = 1
    BY <1>4, Zenon
  <2>2. more[1].added <=> more[1].item \notin current
    BY <1>1, <1>2, Zenon
  <2>. QED
    BY <2>1, <2>2, Zenon DEF Actual
<1>6. ItemsAfter(more, 0) = {x}
  BY <1>1, <1>2, <1>4 DEF ItemsAfter
<1>7. Changed(more, current) = now
  BY <1>6 DEF Changed
<1>8. Logs(Item, log, current, log \o more, Changed(more, current))
  BY <1>2, <1>5, Logged
<1>. QED
  BY <1>3, <1>7, <1>8, Zenon DEF change

(* The entry of one addition. *)
LEMMA LoggedAddition ==
  ASSUME NEW Item, NEW log \in Seq(Change(Item)), NEW current,
         NEW x \in Item, x \notin current,
         NEW now, now = current \cup {x},
         NEW new, new = Append(log, [item |-> x, added |-> TRUE]),
         Alternates(log, current)
  PROVE  Logs(Item, log, current, new, now)
  BY LoggedOne

(* The entry of one removal. *)
LEMMA LoggedRemoval ==
  ASSUME NEW Item, NEW log \in Seq(Change(Item)), NEW current,
         NEW x \in Item, x \in current,
         NEW now, now = current \ {x},
         NEW new, new = Append(log, [item |-> x, added |-> FALSE]),
         Alternates(log, current)
  PROVE  Logs(Item, log, current, new, now)
  BY LoggedOne

(* The removals of a set of present items are appended in some order       *)
(* (remove_edges_from_via_label, each half of remove_edges_of_vertex).     *)
LEMMA LoggedRemovals ==
  ASSUME NEW Item, NEW log \in Seq(Change(Item)), NEW current,
         NEW S \in SUBSET Item, S \subseteq current, IsFiniteSet(S),
         NEW order \in Bijection(1..Cardinality(S), S),
         NEW new, new = log \o Removals(order), NEW now, now = current \ S,
         Alternates(log, current)
  PROVE  Logs(Item, log, current, new, now)
<1> DEFINE n == Cardinality(S)
           more == Removals(order)
<1>1. n \in Nat
  BY FS_CardinalityType
<1>2. /\ order \in [1..n -> S]
      /\ \A i, j \in 1..n : order[i] = order[j] => i = j
      /\ \A s \in S : \E i \in 1..n : order[i] = s
  BY DEF Bijection, Injection, Surjection, IsInjective
<1>3. more = [i \in 1..n |-> [item |-> order[i], added |-> FALSE]]
  BY <1>2 DEF Removals
<1>4. \A i \in 1..n : [item |-> order[i], added |-> FALSE] \in Change(Item)
  BY <1>2 DEF Change
<1> HIDE DEF n, more
<1>5. more \in [1..n -> Change(Item)]
  BY <1>3, <1>4
<1>6. more \in Seq(Change(Item)) /\ Len(more) = n
  BY <1>1, <1>5
<1>7. \A i \in 1..n : more[i].item = order[i] /\ more[i].added = FALSE
  BY <1>3
<1>8. Actual(more, current)
  <2>1. \A i \in 1..n : order[i] \in current
    BY <1>2
  <2>2. \A i \in 1..n : more[i].added <=> more[i].item \notin current
    BY <1>7, <2>1, Zenon
  <2>3. ASSUME NEW i \in 1..n, NEW j \in 1..n, more[i].item = more[j].item
        PROVE  i = j
    <3>1. order[i] = order[j]
      BY <1>7, <2>3, Zenon
    <3>. QED
      BY <1>2, <3>1
  <2>. QED
    BY <1>6, <2>2, <2>3, Zenon DEF Actual
<1>9. ItemsAfter(more, 0) = S
  <2>1. After(more, 0) = 1..n
    BY <1>1, <1>6 DEF After
  <2>2. ASSUME NEW x \in ItemsAfter(more, 0) PROVE x \in S
    <3>1. PICK i \in 1..n : more[i].item = x
      BY <2>1, <2>2, Zenon DEF ItemsAfter
    <3>2. x = order[i]
      BY <1>7, <3>1, Zenon
    <3>. QED
      BY <1>2, <3>2
  <2>3. ASSUME NEW x \in S PROVE x \in ItemsAfter(more, 0)
    <3>1. PICK i \in 1..n : order[i] = x
      BY <1>2
    <3>2. more[i].item = x
      BY <1>7, <3>1, Zenon
    <3>. QED
      BY <2>1, <3>2, Zenon DEF ItemsAfter
  <2>. QED
    BY <2>2, <2>3
<1>10. Changed(more, current) = current \ S
  BY <1>9 DEF Changed
<1>11. Logs(Item, log, current, log \o more, Changed(more, current))
  BY <1>6, <1>8, Logged
<1>. QED
  BY <1>10, <1>11, Zenon DEF more

-----------------------------------------------------------------------------
(* No updates change nothing.                                              *)
LEMMA UpdatedByNothing ==
  ASSUME NEW vs
  PROVE  Updated(vs, <<>>) = vs
<1>1. After(<<>>, 0) = {}
  BY DEF After
<1>. QED
  BY <1>1 DEF Updated, ItemsAfter, LastItems

(* One more update changes the result by just that update.                 *)
UpdatedOnce(vs, change) ==
    IF change.added = TRUE THEN vs \cup {change.item} ELSE vs \ {change.item}

LEMMA UpdatedByOneMore ==
  ASSUME NEW Item, NEW vs, NEW updates \in Seq(Change(Item)), NEW change \in Change(Item)
  PROVE  Updated(vs, Append(updates, change)) = UpdatedOnce(Updated(vs, updates), change)
<1> DEFINE L == Len(updates)
           more == Append(updates, change)
<1>1. /\ L \in Nat /\ Len(more) = L + 1
      /\ \A i \in 1..L : more[i] = updates[i]
      /\ more[L + 1] = change
  OBVIOUS
<1>2. /\ After(updates, 0) = 1..L
      /\ After(more, 0) = 1..(L + 1)
  BY <1>1 DEF After
<1>. HIDE DEF more
<1>3. ItemsAfter(more, 0) = ItemsAfter(updates, 0) \cup {change.item}
  <2>1. 1..(L + 1) = (1..L) \cup {L + 1}
    BY <1>1
  <2>. QED
    BY <1>1, <1>2, <2>1 DEF ItemsAfter
<1>4. /\ IsLast(more, L + 1)
      /\ \A i \in 1..L : IsLast(more, i) <=> IsLast(updates, i) /\ updates[i].item # change.item
  <2>1. IsLast(more, L + 1)
    BY <1>1 DEF IsLast
  <2>2. ASSUME NEW i \in 1..L
        PROVE  IsLast(more, i) <=> IsLast(updates, i) /\ updates[i].item # change.item
    <3>1. (i + 1)..Len(more) = ((i + 1)..L) \cup {L + 1}
      BY <1>1
    <3>2. (i + 1)..L \subseteq 1..L
      BY <1>1
    <3>. QED
      BY <1>1, <3>1, <3>2 DEF IsLast
  <2>. QED
    BY <2>1, <2>2
<1>5. ASSUME NEW x
      PROVE  x \in LastItems(more, 0, TRUE)
               <=> \/ x \in LastItems(updates, 0, TRUE) /\ x # change.item
                   \/ x = change.item /\ change.added = TRUE
  <2>1. x \in LastItems(more, 0, TRUE)
          <=> \E i \in 1..(L + 1) : IsLast(more, i) /\ more[i].added = TRUE /\ more[i].item = x
    BY <1>2 DEF LastItems
  <2>2. x \in LastItems(updates, 0, TRUE)
          <=> \E i \in 1..L : IsLast(updates, i) /\ updates[i].added = TRUE /\ updates[i].item = x
    BY <1>2 DEF LastItems
  <2>3. 1..(L + 1) = (1..L) \cup {L + 1}
    BY <1>1
  <2>. QED
    BY <1>1, <1>4, <2>1, <2>2, <2>3
<1>6. Updated(vs, more) = UpdatedOnce(Updated(vs, updates), change)
  BY <1>3, <1>5 DEF Updated, UpdatedOnce
<1>. QED
  BY <1>6 DEF more

(* The items of the result are items.                                      *)
LEMMA UpdatedType ==
  ASSUME NEW Item, NEW vs \in SUBSET Item, NEW updates \in Seq(Change(Item))
  PROVE  Updated(vs, updates) \in SUBSET Item
<1>1. \A j \in 1..Len(updates) : updates[j].item \in Item
  <2>1. \A j \in 1..Len(updates) : updates[j] \in Change(Item)
    BY ElementOfSeq
  <2>. QED
    BY <2>1 DEF Change
<1>2. LastItems(updates, 0, TRUE) \subseteq Item
  BY <1>1 DEF LastItems, After
<1>. QED
  BY <1>2 DEF Updated

-----------------------------------------------------------------------------
(* Undoing from one position earlier on undoes one entry more. *)
LEMMA UndoOneMore ==
  ASSUME NEW Item, NEW log \in Seq(Change(Item)), NEW k \in 1..Len(log), NEW current
  PROVE  Undo(current, log, k - 1)
           = IF log[k].added THEN Undo(current, log, k) \ {log[k].item}
                             ELSE Undo(current, log, k) \cup {log[k].item}
<1> DEFINE L == Len(log)
<1>1. /\ L \in Nat /\ k \in 1..L /\ k - 1 \in 0..L /\ k - 1 + 1 = k
      /\ log[k].added \in BOOLEAN
  <2>1. log[k] \in Change(Item)
    BY ElementOfSeq
  <2>. QED
    BY <2>1 DEF Change
<1>2. After(log, k) = (k + 1)..L /\ After(log, k - 1) = k..L
  BY <1>1 DEF After
<1>3. \A j \in k..L : j = k \/ j \in (k + 1)..L
  BY <1>1
<1>4. \A j \in (k + 1)..L : j \in k..L /\ j # k /\ k \in k..L
  BY <1>1
<1>5. IsFirst(log, k - 1, k)
  BY <1>1 DEF IsFirst
<1>6. ASSUME NEW j \in (k + 1)..L
      PROVE  IsFirst(log, k - 1, j) <=> IsFirst(log, k, j) /\ log[k].item # log[j].item
  <2>1. \A i : i \in (k - 1 + 1)..(j - 1) <=> i = k \/ i \in (k + 1)..(j - 1)
    BY <1>1
  <2>. QED
    BY <2>1, Zenon DEF IsFirst
<1> HIDE DEF L
<1>7. ASSUME NEW x
      PROVE  x \in Undo(current, log, k - 1)
               <=> IF log[k].added THEN x \in Undo(current, log, k) /\ x # log[k].item
                                   ELSE x \in Undo(current, log, k) \/ x = log[k].item
  <2>1. x \in Undo(current, log, k) <=>
            \/ x \in current /\ \A j \in (k + 1)..L : log[j].item # x
            \/ \E j \in (k + 1)..L :
                  log[j].item = x /\ IsFirst(log, k, j) /\ log[j].added = FALSE
    BY <1>2 DEF Undo, ItemsAfter, FirstItems
  <2>2. x \in Undo(current, log, k - 1) <=>
            \/ x \in current /\ \A j \in k..L : log[j].item # x
            \/ \E j \in k..L :
                  log[j].item = x /\ IsFirst(log, k - 1, j) /\ log[j].added = FALSE
    BY <1>2 DEF Undo, ItemsAfter, FirstItems
  <2>3. CASE x = log[k].item
    <3>1. x \in Undo(current, log, k - 1) <=> log[k].added = FALSE
      BY <1>3, <1>4, <1>5, <1>6, <2>2, <2>3, <1>1
    <3>. QED
      BY <1>1, <2>3, <3>1
  <2>4. CASE x # log[k].item
    <3>1. x \in Undo(current, log, k - 1) <=> x \in Undo(current, log, k)
      BY <1>3, <1>4, <1>6, <2>1, <2>2, <2>4, Zenon
    <3>. QED
      BY <1>1, <2>4, <3>1
  <2>. QED
    BY <2>3, <2>4
<1>. QED
  BY <1>1, <1>7

-----------------------------------------------------------------------------
(* One pass over the entries.  Of the first n: the items seen, and whether *)
(* the first (the last) entry of an item is an addition.                   *)
ItemsUpTo(entries, n) == {entries[j].item : j \in 1..n}
FirstAdds(entries, n, x) ==
    \E j \in 1..n : /\ entries[j].item = x /\ entries[j].added
                    /\ \A i \in 1..(j - 1) : entries[i].item # x
LastAdds(entries, n, x) ==
    \E j \in 1..n : /\ entries[j].item = x /\ entries[j].added
                    /\ \A i \in (j + 1)..n : entries[i].item # x

(* What one more entry does to them. *)
LEMMA OneMoreEntry ==
  ASSUME NEW Item, NEW entries \in Seq(Change(Item)), NEW n \in 0..(Len(entries) - 1),
         NEW x
  PROVE  LET entry == entries[n + 1]
         IN  /\ ItemsUpTo(entries, n + 1) = ItemsUpTo(entries, n) \cup {entry.item}
             /\ x # entry.item =>
                  /\ FirstAdds(entries, n + 1, x) <=> FirstAdds(entries, n, x)
                  /\ LastAdds(entries, n + 1, x) <=> LastAdds(entries, n, x)
             /\ x = entry.item => (LastAdds(entries, n + 1, x) <=> entry.added)
             /\ x = entry.item /\ x \notin ItemsUpTo(entries, n) =>
                  (FirstAdds(entries, n + 1, x) <=> entry.added)
             /\ x = entry.item /\ x \in ItemsUpTo(entries, n) =>
                  (FirstAdds(entries, n + 1, x) <=> FirstAdds(entries, n, x))
<1> DEFINE m == n + 1
<1>1. /\ n \in Nat /\ m \in Nat /\ m \in 1..m
      /\ \A j : j \in 1..m <=> j \in 1..n \/ j = m
      /\ \A j \in 1..n : j # m /\ 1..(j - 1) \subseteq 1..n
      /\ m - 1 = n /\ (m + 1)..m = {}
      /\ \A j \in 1..n : \A i : i \in (j + 1)..m <=> i \in (j + 1)..n \/ i = m
  OBVIOUS
<1> HIDE DEF m
<1>2. ItemsUpTo(entries, m) = ItemsUpTo(entries, n) \cup {entries[m].item}
  BY <1>1 DEF ItemsUpTo
<1>3. LastAdds(entries, m, x) <=>
        \/ entries[m].item = x /\ entries[m].added
        \/ x # entries[m].item /\ LastAdds(entries, n, x)
  BY <1>1, Zenon DEF LastAdds
<1>4. FirstAdds(entries, m, x) <=>
        \/ FirstAdds(entries, n, x)
        \/ entries[m].item = x /\ entries[m].added /\ x \notin ItemsUpTo(entries, n)
  BY <1>1, Zenon DEF FirstAdds, ItemsUpTo
<1>5. x \notin ItemsUpTo(entries, n) => ~FirstAdds(entries, n, x)
  BY Zenon DEF FirstAdds, ItemsUpTo
<1>. QED
  BY <1>2, <1>3, <1>4, <1>5, Zenon DEF m

(* After the last entry they say what iter_just_changed() looks for. *)
LEMMA SeenToTheEnd ==
  ASSUME NEW Item, NEW entries \in Seq(Change(Item)), NEW x, NEW added \in BOOLEAN
  PROVE  x \in JustChanged(entries, 0, added)
           <=> /\ x \in ItemsUpTo(entries, Len(entries))
               /\ FirstAdds(entries, Len(entries), x) <=> added
               /\ LastAdds(entries, Len(entries), x) <=> added
<1> DEFINE L == Len(entries)
<1>1. L \in Nat /\ 0 \in 0..L /\ After(entries, 0) = 1..L /\ 0 + 1 = 1
  BY DEF After
<1>2. \A j \in 1..L : entries[j].added \in BOOLEAN
  <2>1. \A j \in 1..Len(entries) : entries[j] \in Change(Item)
    BY ElementOfSeq
  <2>. QED
    BY <2>1 DEF Change
<1>3. CASE x \notin ItemsUpTo(entries, L)
  <2>1. x \notin JustChanged(entries, 0, added)
    BY <1>1, <1>3, Zenon DEF JustChanged, FirstItems, ItemsUpTo
  <2>. QED
    BY <1>3, <2>1
<1>4. CASE x \in ItemsUpTo(entries, L)
  <2>1. x \in ItemsAfter(entries, 0)
    BY <1>1, <1>4 DEF ItemsUpTo, ItemsAfter
  <2>2. PICK f \in 1..L : entries[f].item = x /\ IsFirst(entries, 0, f)
    BY <1>1, <2>1, FirstAndLast
  <2>3. PICK l \in 1..L : entries[l].item = x /\ IsLast(entries, l)
    BY <1>1, <2>1, FirstAndLast
  <2>4. ASSUME NEW j \in 1..L, entries[j].item = x, \A i \in 1..(j - 1) : entries[i].item # x
        PROVE  j = f
    <3>1. ~(f \in 1..(j - 1)) /\ ~(j \in 1..(f - 1))
      BY <1>1, <2>2, <2>4 DEF IsFirst
    <3>. QED
      BY <1>1, <3>1
  <2>5. ASSUME NEW j \in 1..L, entries[j].item = x, \A i \in (j + 1)..L : entries[i].item # x
        PROVE  j = l
    <3>1. ~(l \in (j + 1)..L) /\ ~(j \in (l + 1)..L)
      BY <1>1, <2>3, <2>5 DEF IsLast
    <3>. QED
      BY <1>1, <3>1
  <2>6. /\ \A i \in 1..(f - 1) : entries[i].item # x
        /\ \A i \in (l + 1)..L : entries[i].item # x
        /\ \A j \in 1..L : entries[j].item = x =>
              /\ IsFirst(entries, 0, j) <=> \A i \in 1..(j - 1) : entries[i].item # x
              /\ IsLast(entries, j) <=> \A i \in (j + 1)..L : entries[i].item # x
    BY <1>1, <2>2, <2>3 DEF IsFirst, IsLast
  <2>7. FirstAdds(entries, L, x) <=> entries[f].added
    BY <2>2, <2>4, <2>6, Zenon DEF FirstAdds
  <2>8. LastAdds(entries, L, x) <=> entries[l].added
    BY <2>3, <2>5, <2>6, Zenon DEF LastAdds
  <2>9. x \in FirstItems(entries, 0, added) <=> entries[f].added = added
    BY <1>1, <2>2, <2>4, <2>6, Zenon DEF FirstItems
  <2>10. x \in LastItems(entries, 0, added) <=> entries[l].added = added
    BY <1>1, <2>3, <2>5, <2>6, Zenon DEF LastItems
  <2>11. entries[f].added \in BOOLEAN /\ entries[l].added \in BOOLEAN
    BY <1>2
  <2>. QED
    BY <1>4, <2>7, <2>8, <2>9, <2>10, <2>11, Zenon DEF JustChanged
<1>. QED
  BY <1>3, <1>4
=============================================================================

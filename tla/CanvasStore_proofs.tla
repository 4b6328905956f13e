------------------------- MODULE CanvasStore_proofs -------------------------
(***************************************************************************)
(* Facts about compareLogicalTimestamp and mergeCRDT, and about the        *)
(* queries and writes of the log: their types, and that they keep the      *)
(* flags of its rows consistent with its markers.                          *)
(***************************************************************************)
EXTENDS CanvasStore, FiniteSetTheorems, WellFoundedInduction, TLAPS

-----------------------------------------------------------------------------
(* The merge, for any sets of keys, values, actors and times.              *)

\* compareLogicalTimestamp is a strict total order on timestamps.
LEMMA LaterIsStrictTotalOrder ==
  ASSUME NEW a \in Timestamps, NEW b \in Timestamps, NEW c \in Timestamps
  PROVE  /\ ~Later(a, a)
         /\ Later(a, b) => ~Later(b, a)
         /\ Later(a, b) /\ Later(b, c) => Later(a, c)
         /\ ~Later(a, b) /\ ~Later(b, c) => ~Later(a, c)
         /\ ~Later(a, b) /\ ~Later(b, a) => a = b
<1>1. /\ a.time \in Nat /\ b.time \in Nat /\ c.time \in Nat
      /\ a.actorId \in Nat /\ b.actorId \in Nat /\ c.actorId \in Nat
  BY TimestampsAssumption DEF Timestamps
<1>2. a.time = b.time /\ a.actorId = b.actorId => a = b
  BY DEF Timestamps
<1> QED
  BY <1>1, <1>2 DEF Later

LEMMA NoObjectType == NoObject \in Objects
  BY DEF NoObject, Objects

\* mergeCRDT returns an object that has the keys of both arguments.
LEMMA MergeType ==
  ASSUME NEW o \in Objects, NEW p \in Props, NEW t \in Timestamps
  PROVE  /\ MergeCRDT(o, p, t) \in Objects
         /\ DOMAIN MergeCRDT(o, p, t) = DOMAIN o \cup DOMAIN p
<1> DEFINE m == MergeCRDT(o, p, t)
<1>1. PICK So \in SUBSET Keys : o \in [So -> Cells]
  BY DEF Objects
<1>2. PICK Sp \in SUBSET Keys : p \in [Sp -> Values]
  BY DEF Props
<1>3. DOMAIN m = So \cup Sp
  BY <1>1, <1>2 DEF MergeCRDT
<1>4. ASSUME NEW k \in So \cup Sp PROVE m[k] \in Cells
  BY <1>1, <1>2, <1>4 DEF MergeCRDT, Cells
<1>5. m \in [So \cup Sp -> Cells]
  BY <1>3, <1>4 DEF MergeCRDT
<1> QED
  BY <1>1, <1>2, <1>3, <1>5 DEF Objects

\* Merging a patch again changes nothing: a redelivered event is harmless to
\* the object even without the dedup table.
THEOREM MergeIdempotent ==
  ASSUME NEW o \in Objects, NEW p \in Props, NEW t \in Timestamps
  PROVE  MergeCRDT(MergeCRDT(o, p, t), p, t) = MergeCRDT(o, p, t)
<1> DEFINE m == MergeCRDT(o, p, t)
<1> DEFINE D == DOMAIN o \cup DOMAIN p
<1>1. DOMAIN m = D /\ DOMAIN MergeCRDT(m, p, t) = D
  BY DEF MergeCRDT
<1>2. ASSUME NEW k \in D PROVE MergeCRDT(m, p, t)[k] = m[k]
  BY <1>1, <1>2 DEF MergeCRDT
<1> QED
  BY <1>1, <1>2 DEF MergeCRDT

\* Two patches with different timestamps may be merged in either order.
THEOREM MergeCommutes ==
  ASSUME NEW o \in Objects, NEW p \in Props, NEW q \in Props,
         NEW t \in Timestamps, NEW u \in Timestamps, t # u
  PROVE  MergeCRDT(MergeCRDT(o, p, t), q, u) = MergeCRDT(MergeCRDT(o, q, u), p, t)
<1> DEFINE D == DOMAIN o \cup DOMAIN p \cup DOMAIN q
<1> DEFINE a == MergeCRDT(MergeCRDT(o, p, t), q, u)
<1> DEFINE b == MergeCRDT(MergeCRDT(o, q, u), p, t)
<1>1. DOMAIN a = D /\ DOMAIN b = D
  BY DEF MergeCRDT
<1>2. ASSUME NEW k \in D PROVE a[k] = b[k]
  <2>1. k \in DOMAIN o => o[k].ts \in Timestamps
    BY DEF Objects, Cells
  <2>2. Later(t, u) \/ Later(u, t)
    BY LaterIsStrictTotalOrder
  <2>3. MergeCRDT(o, p, t) = [j \in DOMAIN o \cup DOMAIN p |->
            IF j \in DOMAIN p /\ (j \in DOMAIN o => Later(t, o[j].ts))
            THEN [val |-> p[j], ts |-> t] ELSE o[j]]
    BY DEF MergeCRDT
  <2>4. MergeCRDT(o, q, u) = [j \in DOMAIN o \cup DOMAIN q |->
            IF j \in DOMAIN q /\ (j \in DOMAIN o => Later(u, o[j].ts))
            THEN [val |-> q[j], ts |-> u] ELSE o[j]]
    BY DEF MergeCRDT
  <2>5. CASE k \notin DOMAIN o
    BY <2>2, <2>5, <1>1, LaterIsStrictTotalOrder DEF MergeCRDT
  <2>6. CASE k \in DOMAIN o
    <3> DEFINE s == o[k].ts
    <3>1. s \in Timestamps
      BY <2>1, <2>6
    <3>2. /\ Later(t, u) => ~Later(u, t)
          /\ Later(t, u) /\ Later(u, s) => Later(t, s)
          /\ Later(u, t) /\ Later(t, s) => Later(u, s)
      BY <3>1, LaterIsStrictTotalOrder
    <3> QED
      BY <2>2, <2>6, <3>2 DEF MergeCRDT
  <2> QED
    BY <2>5, <2>6
<1> QED
  BY <1>1, <1>2 DEF MergeCRDT

-----------------------------------------------------------------------------
(* The newest row.                                                         *)

\* A bounded function has a largest value.
LEMMA LargestValue ==
  ASSUME NEW S, S # {}, NEW n \in Nat, NEW f \in [S -> Nat], \A i \in S : f[i] <= n
  PROVE  \E i \in S : \A j \in S : f[j] <= f[i]
<1> DEFINE T == {n - f[i] : i \in S}
<1>1. T \subseteq Nat /\ T # {}
  OBVIOUS
<1>2. \E x \in T : \A y \in T : ~(<<y, x>> \in OpToRel(<, Nat))
  <2> HIDE DEF T
  <2> QED
    BY <1>1, NatLessThanWellFounded, WFMin, Zenon
<1>3. PICK x \in T : \A y \in T : ~(y < x)
  BY <1>1, <1>2 DEF OpToRel
<1>4. PICK i \in S : x = n - f[i]
  OBVIOUS
<1>5. ASSUME NEW j \in S PROVE f[j] <= f[i]
  <2>1. n - f[j] \in T /\ f[j] \in Nat /\ f[i] \in Nat
    OBVIOUS
  <2>2. ~(n - f[j] < n - f[i])
    BY <1>3, <1>4, <2>1
  <2> QED
    BY <2>1, <2>2
<1> QED
  BY <1>5

\* Rows with the same time are rows of one event: what Newest needs to pick a
\* row, and what the numbering of events by their timestamps provides.
TimesAreDistinct(h) ==
  \A i, j \in DOMAIN h : h[i].ts.time = h[j].ts.time => h[i].ts = h[j].ts

\* Among some rows there is one that no other is later than, and an ordered query takes
\* such a row.
LEMMA NewestAmong ==
  ASSUME NEW h, NEW S, S # {}, \A i \in S : h[i].ts \in Timestamps,
         \A i, j \in S : h[i].ts.time = h[j].ts.time => h[i].ts = h[j].ts,
         NEW n \in Nat, Times \subseteq 0..n
  PROVE  Newest(h, S) \in S /\ \A j \in S : ~Later(h[j].ts, h[Newest(h, S)].ts)
<1> DEFINE time == [i \in S |-> h[i].ts.time]
           P(i) == \A j \in S : ~Later(h[j].ts, h[i].ts)
<1>1. \A i \in S : h[i].ts.time \in 0..n
  BY DEF Timestamps
<1>2. time \in [S -> Nat] /\ \A i \in S : time[i] <= n
  BY <1>1
<1>3. PICK i \in S : \A j \in S : time[j] <= time[i]
  <2> HIDE DEF time
  <2> QED
    BY <1>2, LargestValue
<1>4. P(i)
  <2> SUFFICES ASSUME NEW j \in S PROVE ~Later(h[j].ts, h[i].ts)
    OBVIOUS
  <2>1. h[j].ts.time <= h[i].ts.time
    BY <1>3
  <2>2. h[i].ts \in Timestamps /\ ~Later(h[i].ts, h[i].ts)
    BY LaterIsStrictTotalOrder
  <2> QED
    BY <1>1, <2>1, <2>2 DEF Later
<1>5. Newest(h, S) = CHOOSE m \in S : P(m)
  BY DEF Newest
<1>6. Newest(h, S) \in S /\ P(Newest(h, S))
  <2> HIDE DEF P
  <2> QED
    BY <1>4, <1>5
<1> QED
  BY <1>6

\* The first row of an ordered query is one of the rows that match.
LEMMA NewestIsMatch ==
  ASSUME NEW h \in Seq(Rows), TimesAreDistinct(h), NEW n \in Nat, Times \subseteq 0..n,
         NEW S \in SUBSET (DOMAIN h), S # {}
  PROVE  Newest(h, S) \in S
<1>1. \A i \in DOMAIN h : h[i] \in Rows
  OBVIOUS
<1>2. \A i \in S : h[i].ts \in Timestamps
  BY <1>1 DEF Rows
<1> QED
  BY <1>2, NewestAmong DEF TimesAreDistinct

\* What an undo and a redo act on.
LEMMA TargetsExist ==
  ASSUME NEW h \in Seq(Rows), TimesAreDistinct(h), NEW n \in Nat, Times \subseteq 0..n,
         NEW u
  PROVE  /\ UndoTarget(h, u) # 0 =>
              /\ UndoTarget(h, u) \in DOMAIN h
              /\ ~h[UndoTarget(h, u)].undone
         /\ RedoTarget(h, u) # 0 =>
              /\ RedoTarget(h, u) \in DOMAIN h
              /\ h[RedoTarget(h, u)].undone
<1>1. ASSUME NEW S \in SUBSET (DOMAIN h), Newest(h, S) # 0 PROVE Newest(h, S) \in S
  BY <1>1, NewestIsMatch DEF Newest
<1>2. UndoTarget(h, u) # 0 =>
        UndoTarget(h, u) \in {i \in DrawRows(h, u) : ~h[i].undone}
  BY <1>1 DEF UndoTarget, DrawRows
<1>3. RedoTarget(h, u) # 0 => RedoTarget(h, u) \in Redoable(h, u)
  BY <1>1 DEF RedoTarget, Redoable, DrawRows
<1> QED
  BY <1>2, <1>3 DEF Redoable, DrawRows

-----------------------------------------------------------------------------
(* Types of what is written.                                               *)

LEMMA InversePropsType ==
  ASSUME NEW row \in Rows, Deleted \in Props
  PROVE  InverseProps(row) \in Props
<1>1. PICK S \in SUBSET Keys : row.before \in [S -> Cells]
  BY DEF Rows, Objects
<1>2. MaterializeCRDT(row.before) \in [S -> Values]
  BY <1>1 DEF MaterializeCRDT, Cells
<1> QED
  BY <1>2 DEF InverseProps, Props

LEMMA WriteObjectType ==
  ASSUME NEW objects \in [Objs -> Objects], NEW o \in Objs, NEW read \in Objects,
         NEW props \in Props, NEW ts \in Timestamps
  PROVE  WriteObject(objects, o, read, props, ts) \in [Objs -> Objects]
  BY MergeType DEF WriteObject

LEMMA DrawRowType ==
  ASSUME NEW n \in Nat, NEW u \in Actors, NEW kind \in Draws, NEW o \in Objs,
         NEW read \in Objects, NEW props \in Props, NEW ts \in Timestamps
  PROVE  DrawRow(n, u, kind, o, read, props, ts) \in Rows
  BY DEF DrawRow, Rows

LEMMA MarkerRowType ==
  ASSUME NEW n \in Nat, NEW u \in Actors, NEW kind \in {"UNDO", "REDO"},
         NEW h \in Seq(Rows), NEW i \in DOMAIN h,
         NEW props \in Props, NEW ts \in Timestamps
  PROVE  MarkerRow(n, u, kind, i, h, props, ts) \in Rows
<1>1. i \in Nat /\ h[i] \in Rows
  OBVIOUS
<1>2. h[i].obj \in Objs
  BY <1>1 DEF Rows
<1> QED
  BY NoObjectType, <1>1, <1>2 DEF MarkerRow, Rows

\* The logs g and h differ in the two flags of their rows only.
SameButFlags(g, h) ==
  /\ Len(g) = Len(h)
  /\ \A i \in 1..Len(h) :
       /\ g[i].event = h[i].event /\ g[i].user = h[i].user /\ g[i].kind = h[i].kind
       /\ g[i].obj = h[i].obj /\ g[i].before = h[i].before /\ g[i].after = h[i].after
       /\ g[i].ts = h[i].ts /\ g[i].ref = h[i].ref

\* The row i with other flags, in a log that is the same otherwise.
LEMMA FlaggedRows ==
  ASSUME NEW h \in Seq(Rows), NEW i \in DOMAIN h, NEW b \in BOOLEAN, NEW g,
         g = [h EXCEPT ![i] = [h[i] EXCEPT !.undone = b, !.invalidated = FALSE]]
  PROVE  /\ g \in Seq(Rows)
         /\ SameButFlags(g, h)
         /\ g[i].undone = b /\ g[i].invalidated = FALSE
         /\ \A j \in DOMAIN h \ {i} : g[j] = h[j]
<1>1. i \in 1..Len(h) /\ h[i] \in Rows
  OBVIOUS
<1>2. PICK row : row = [h[i] EXCEPT !.undone = b, !.invalidated = FALSE]
  OBVIOUS
<1>3. /\ row \in Rows
      /\ row.event = h[i].event /\ row.user = h[i].user /\ row.kind = h[i].kind
      /\ row.obj = h[i].obj /\ row.before = h[i].before /\ row.after = h[i].after
      /\ row.ts = h[i].ts /\ row.ref = h[i].ref
      /\ row.undone = b /\ row.invalidated = FALSE
  BY <1>1, <1>2 DEF Rows
<1>4. g = [h EXCEPT ![i] = row]
  BY <1>2
<1>5. g \in Seq(Rows) /\ Len(g) = Len(h) /\ g[i] = row /\ \A j \in DOMAIN h \ {i} : g[j] = h[j]
  BY <1>1, <1>3, <1>4
<1> QED
  BY <1>3, <1>5 DEF SameButFlags

LEMMA MarkUndoneRows ==
  ASSUME NEW h \in Seq(Rows), NEW i \in DOMAIN h
  PROVE  /\ MarkUndone(h, i) \in Seq(Rows)
         /\ SameButFlags(MarkUndone(h, i), h)
         /\ MarkUndone(h, i)[i].undone /\ ~MarkUndone(h, i)[i].invalidated
         /\ \A j \in DOMAIN h \ {i} : MarkUndone(h, i)[j] = h[j]
<1>1. MarkUndone(h, i) =
        [h EXCEPT ![i] = [h[i] EXCEPT !.undone = TRUE, !.invalidated = FALSE]]
  BY DEF MarkUndone
<1> QED
  BY <1>1, FlaggedRows

LEMMA MarkRedoneRows ==
  ASSUME NEW h \in Seq(Rows), NEW i \in DOMAIN h
  PROVE  /\ MarkRedone(h, i) \in Seq(Rows)
         /\ SameButFlags(MarkRedone(h, i), h)
         /\ ~MarkRedone(h, i)[i].undone /\ ~MarkRedone(h, i)[i].invalidated
         /\ \A j \in DOMAIN h \ {i} : MarkRedone(h, i)[j] = h[j]
<1>1. MarkRedone(h, i) =
        [h EXCEPT ![i] = [h[i] EXCEPT !.undone = FALSE, !.invalidated = FALSE]]
  BY DEF MarkRedone
<1> QED
  BY <1>1, FlaggedRows

LEMMA InvalidateRows ==
  ASSUME NEW h \in Seq(Rows), NEW S
  PROVE  /\ Invalidate(h, S) \in Seq(Rows)
         /\ SameButFlags(Invalidate(h, S), h)
         /\ \A j \in DOMAIN h :
              /\ Invalidate(h, S)[j].undone = h[j].undone
              /\ j \notin S => Invalidate(h, S)[j] = h[j]
<1> DEFINE g == Invalidate(h, S)
           row(j) == IF j \in S THEN [h[j] EXCEPT !.invalidated = TRUE] ELSE h[j]
<1>1. \A j \in 1..Len(h) : h[j] \in Rows
  OBVIOUS
<1>2. g = [j \in 1..Len(h) |-> row(j)]
  BY DEF Invalidate
<1>3. ASSUME NEW j \in 1..Len(h)
      PROVE  /\ row(j) \in Rows
             /\ row(j).event = h[j].event /\ row(j).user = h[j].user
             /\ row(j).kind = h[j].kind /\ row(j).obj = h[j].obj
             /\ row(j).before = h[j].before /\ row(j).after = h[j].after
             /\ row(j).ts = h[j].ts /\ row(j).ref = h[j].ref
             /\ row(j).undone = h[j].undone
             /\ j \notin S => row(j) = h[j]
  BY <1>1 DEF Rows
<1> HIDE DEF row
<1>4. Len(h) \in Nat
  OBVIOUS
<1>5. g \in Seq(Rows) /\ Len(g) = Len(h) /\ \A j \in 1..Len(h) : g[j] = row(j)
  <2> HIDE DEF g
  <2> QED
    BY <1>2, <1>3, <1>4
<1> QED
  BY <1>3, <1>5 DEF SameButFlags

-----------------------------------------------------------------------------
(* Flags and markers.                                                      *)

\* References go backwards, and only undos and redos have one.
RefsGoBack(h) ==
  \A j \in DOMAIN h :
    /\ h[j].ref < j
    /\ h[j].ref # 0 => h[j].kind \in {"UNDO", "REDO"}

\* The flags of row i follow the rows that reference it.
RowFollows(h, i) ==
  /\ h[i].undone <=>
       \E j \in DOMAIN h : /\ h[j].ref = i /\ h[j].kind = "UNDO"
                           /\ \A k \in DOMAIN h : h[k].ref = i => k <= j
  /\ h[i].invalidated => h[i].undone
  /\ \A j, k \in DOMAIN h :
       /\ h[j].ref = i /\ h[k].ref = i /\ j < k
       /\ \A l \in DOMAIN h : h[l].ref = i => l <= j \/ l >= k
       => h[j].kind # h[k].kind

Consistent(h) == RefsGoBack(h) /\ \A i \in DOMAIN h : RowFollows(h, i)

LEMMA RowTypes ==
  ASSUME NEW h \in Seq(Rows)
  PROVE  /\ Len(h) \in Nat /\ DOMAIN h = 1..Len(h)
         /\ \A j \in DOMAIN h : h[j] \in Rows /\ h[j].ref \in Nat
<1>1. \A j \in DOMAIN h : h[j] \in Rows
  OBVIOUS
<1> QED
  BY <1>1 DEF Rows

\* A row keeps following its markers when the log gets others.
LEMMA OtherRowsFollow ==
  ASSUME NEW h \in Seq(Rows), NEW f \in Seq(Rows), NEW i \in DOMAIN h, RowFollows(h, i),
         Len(h) <= Len(f), f[i].undone <=> h[i].undone,
         f[i].invalidated => h[i].undone,
         \A j \in DOMAIN f : f[j].ref = i => j \in DOMAIN h,
         \A j \in DOMAIN h : f[j].ref = h[j].ref /\ f[j].kind = h[j].kind
  PROVE  RowFollows(f, i)
<1>1. DOMAIN h \subseteq DOMAIN f
  BY RowTypes
<1>2. f[i].undone <=>
        \E j \in DOMAIN f : /\ f[j].ref = i /\ f[j].kind = "UNDO"
                            /\ \A k \in DOMAIN f : f[k].ref = i => k <= j
  BY <1>1 DEF RowFollows
<1>3. \A j, k \in DOMAIN f :
        /\ f[j].ref = i /\ f[k].ref = i /\ j < k
        /\ \A l \in DOMAIN f : f[l].ref = i => l <= j \/ l >= k
        => f[j].kind # f[k].kind
  <2> SUFFICES ASSUME NEW j \in DOMAIN f, NEW k \in DOMAIN f,
                      f[j].ref = i, f[k].ref = i, j < k,
                      \A l \in DOMAIN f : f[l].ref = i => l <= j \/ l >= k
               PROVE  f[j].kind # f[k].kind
    OBVIOUS
  <2>1. j \in DOMAIN h /\ k \in DOMAIN h /\ h[j].ref = i /\ h[k].ref = i
    OBVIOUS
  <2>2. \A l \in DOMAIN h : h[l].ref = i => l <= j \/ l >= k
    BY <1>1
  <2>3. h[j].kind # h[k].kind
    BY <2>1, <2>2 DEF RowFollows
  <2> QED
    BY <2>1, <2>3
<1> QED
  BY <1>2, <1>3 DEF RowFollows

\* A row that references nothing leaves a consistent log consistent, whatever
\* undone rows it invalidates.
LEMMA DrawKeepsConsistent ==
  ASSUME NEW h \in Seq(Rows), Consistent(h), NEW S, \A i \in S : i \in DOMAIN h => h[i].undone,
         NEW row \in Rows, row.ref = 0, ~row.undone, ~row.invalidated
  PROVE  Consistent(Append(Invalidate(h, S), row))
<1>1. PICK g \in Seq(Rows) : g = Invalidate(h, S)
  BY InvalidateRows
<1>2. /\ Len(g) = Len(h)
      /\ \A j \in 1..Len(h) : /\ g[j].kind = h[j].kind /\ g[j].ref = h[j].ref
                              /\ g[j].undone = h[j].undone
                              /\ g[j].invalidated => h[j].invalidated \/ h[j].undone
  BY <1>1, InvalidateRows DEF SameButFlags
<1>3. PICK f : f = Append(g, row)
  OBVIOUS
<1>4. /\ Len(h) \in Nat /\ DOMAIN h = 1..Len(h) /\ DOMAIN f = 1..(Len(h) + 1)
      /\ f[Len(h) + 1] = row
      /\ \A j \in 1..Len(h) : f[j] = g[j]
  BY <1>2, <1>3
<1>5. f \in Seq(Rows) /\ \A j \in 1..Len(h) : h[j].ref \in Nat
  BY <1>3, RowTypes
<1>6. RefsGoBack(f)
  BY <1>2, <1>4, <1>5 DEF Consistent, RefsGoBack
<1>7. ASSUME NEW i \in DOMAIN f PROVE RowFollows(f, i)
  <2>1. CASE i = Len(h) + 1
    <3>1. \A j \in DOMAIN f : f[j].ref # i
      BY <1>4, <1>6, <2>1 DEF RefsGoBack
    <3> QED
      BY <1>4, <2>1, <3>1 DEF RowFollows
  <2>2. CASE i \in 1..Len(h)
    <3>1. RowFollows(h, i)
      BY <1>4, <2>2 DEF Consistent
    <3>2. \A j \in DOMAIN f : f[j].ref = i => j \in 1..Len(h)
      BY <1>4, <2>2
    <3>3. f[i].undone <=> h[i].undone
      BY <1>2, <1>4, <2>2
    <3>4. f[i].invalidated => h[i].undone
      BY <1>2, <1>4, <2>2, <3>1 DEF RowFollows
    <3>5. \A j \in 1..Len(h) : f[j].ref = h[j].ref /\ f[j].kind = h[j].kind
      BY <1>2, <1>4
    <3>6. Len(h) <= Len(f)
      BY <1>2, <1>3
    <3> QED
      BY <1>4, <1>5, <2>2, <3>1, <3>2, <3>3, <3>4, <3>5, <3>6, OtherRowsFollow
  <2> QED
    BY <1>4, <2>1, <2>2
<1> QED
  BY <1>1, <1>3, <1>6, <1>7 DEF Consistent

\* An undo of a row that is not undone, or a redo of one that is, leaves a
\* consistent log consistent.
LEMMA MarkerKeepsConsistent ==
  ASSUME NEW h \in Seq(Rows), Consistent(h), NEW i \in DOMAIN h,
         NEW g \in Seq(Rows), SameButFlags(g, h), ~g[i].invalidated,
         \A j \in DOMAIN h \ {i} : g[j] = h[j],
         NEW row \in Rows, row.ref = i, ~row.undone, ~row.invalidated,
         \/ row.kind = "UNDO" /\ ~h[i].undone /\ g[i].undone
         \/ row.kind = "REDO" /\ h[i].undone /\ ~g[i].undone
  PROVE  Consistent(Append(g, row))
<1> DEFINE n == Len(h) + 1
<1>1. PICK f : f = Append(g, row)
  OBVIOUS
<1>2. /\ Len(h) \in Nat /\ DOMAIN h = 1..Len(h) /\ DOMAIN f = 1..n
      /\ f[n] = row
      /\ \A j \in 1..Len(h) : f[j] = g[j]
  BY <1>1 DEF SameButFlags
<1>3. \A j \in 1..Len(h) : /\ h[j].ref \in Nat
                           /\ f[j].ref = h[j].ref /\ f[j].kind = h[j].kind
  BY <1>2, RowTypes DEF SameButFlags
<1>4. RefsGoBack(f)
  BY <1>2, <1>3 DEF Consistent, RefsGoBack
<1>5. RowFollows(f, i)
  <2>1. RowFollows(h, i)
    BY DEF Consistent
  <2>2. \A j \in DOMAIN f : f[j].ref = i => j <= n
    BY <1>2
  <2>3. f[i].undone <=> row.kind = "UNDO"
    BY <1>2
  <2>4. f[i].undone <=>
          \E j \in DOMAIN f : /\ f[j].ref = i /\ f[j].kind = "UNDO"
                              /\ \A k \in DOMAIN f : f[k].ref = i => k <= j
    BY <1>2, <2>2, <2>3
  <2>5. \A j, k \in DOMAIN f :
          /\ f[j].ref = i /\ f[k].ref = i /\ j < k
          /\ \A l \in DOMAIN f : f[l].ref = i => l <= j \/ l >= k
          => f[j].kind # f[k].kind
    <3> SUFFICES ASSUME NEW j \in DOMAIN f, NEW k \in DOMAIN f,
                        f[j].ref = i, f[k].ref = i, j < k,
                        \A l \in DOMAIN f : f[l].ref = i => l <= j \/ l >= k
                 PROVE  f[j].kind # f[k].kind
      OBVIOUS
    <3>1. CASE k # n
      <4>1. /\ j \in DOMAIN h /\ h[j].ref = i
            /\ k \in DOMAIN h /\ h[k].ref = i
            /\ \A l \in DOMAIN h : h[l].ref = i => l <= j \/ l >= k
        BY <1>2, <1>3, <3>1
      <4>2. h[j].kind # h[k].kind
        BY <2>1, <4>1 DEF RowFollows
      <4> QED
        BY <1>2, <1>3, <4>1, <4>2
    <3>2. CASE k = n
      <4>1. j \in DOMAIN h /\ h[j].ref = i
        BY <1>2, <1>3, <3>2
      <4>4. ASSUME NEW l \in DOMAIN h, h[l].ref = i PROVE l <= j
        BY <1>2, <1>3, <3>2, <4>1, <4>4
      <4>2. h[j].kind \in {"UNDO", "REDO"}
        BY <1>2, <4>1, <4>4 DEF Consistent, RefsGoBack
      <4>3. h[i].undone <=> h[j].kind = "UNDO"
        <5>1. ASSUME NEW m \in DOMAIN h, h[m].ref = i, \A l \in DOMAIN h : h[l].ref = i => l <= m
              PROVE  m = j
          BY <1>2, <4>1, <4>4, <5>1
        <5> QED
          BY <2>1, <4>1, <4>4, <5>1 DEF RowFollows
      <4> QED
        BY <1>2, <1>3, <3>2, <4>1, <4>2, <4>3
    <3> QED
      BY <3>1, <3>2
  <2>6. ~f[i].invalidated
    BY <1>2
  <2> QED
    BY <2>4, <2>5, <2>6 DEF RowFollows
<1>6. ASSUME NEW o \in DOMAIN f, o # i PROVE RowFollows(f, o)
  <2>1. CASE o = n
    <3>1. \A j \in DOMAIN f : f[j].ref # o
      BY <1>2, <1>4, <2>1 DEF RefsGoBack
    <3> QED
      BY <1>2, <2>1, <3>1 DEF RowFollows
  <2>2. CASE o \in 1..Len(h)
    <3>1. RowFollows(h, o) /\ f[o] = h[o]
      BY <1>2, <1>6, <2>2 DEF Consistent
    <3>2. \A j \in DOMAIN f : f[j].ref = o => j \in 1..Len(h)
      BY <1>2, <1>6
    <3>3. f \in Seq(Rows) /\ Len(h) <= Len(f)
      BY <1>1, <1>2
    <3>4. f[o].invalidated => h[o].undone
      BY <3>1 DEF RowFollows
    <3> QED
      BY <1>2, <1>3, <2>2, <3>1, <3>2, <3>3, <3>4, OtherRowsFollow
  <2> QED
    BY <1>2, <2>1, <2>2
<1> QED
  BY <1>1, <1>4, <1>5, <1>6 DEF Consistent

-----------------------------------------------------------------------------
(* Reading the log back.  What rows are merged into an object, in the      *)
(* order of their timestamps, has a closed form: every property under the  *)
(* newest row that sets it, or as it was.                                  *)

\* Rows R of a log that can be read back: finitely many, no two with the same time.
Legible(h, R) ==
  /\ R \subseteq DOMAIN h /\ IsFiniteSet(R)
  /\ \A i \in R : h[i].ts \in Timestamps
  /\ \A i, j \in R : h[i].ts.time = h[j].ts.time => i = j
  /\ \E n \in Nat : Times \subseteq 0..n

Setters(h, S, k) == {i \in S : k \in DOMAIN h[i].after}

Written(h, i, k) == [val |-> h[i].after[k], ts |-> h[i].ts]

\* The rows S do not reach property k of obj.
Kept(obj, h, S, k) ==
  k \in DOMAIN obj /\ \A i \in Setters(h, S, k) : ~Later(h[i].ts, obj[k].ts)

LatestOver(obj, h, S) ==
  [k \in DOMAIN obj \cup UNION {DOMAIN h[i].after : i \in S} |->
     IF Kept(obj, h, S, k) THEN obj[k] ELSE Written(h, Newest(h, Setters(h, S, k)), k)]

Latest(h, S) ==
  [k \in UNION {DOMAIN h[i].after : i \in S} |-> Written(h, Newest(h, Setters(h, S, k)), k)]

\* An object whose properties are stamped.
Stamped(obj) ==
  obj = [k \in DOMAIN obj |-> obj[k]] /\ \A k \in DOMAIN obj : obj[k].ts \in Timestamps

LEMMA LegiblePart ==
  ASSUME NEW h, NEW R, Legible(h, R), NEW S \in SUBSET R
  PROVE  Legible(h, S)
  BY FS_Subset DEF Legible

\* The newest of some rows is newer than the others.
LEMMA NewestIsNewer ==
  ASSUME NEW h, NEW R, Legible(h, R), NEW S \in SUBSET R, S # {}
  PROVE  /\ Newest(h, S) \in S
         /\ \A j \in S \ {Newest(h, S)} :
              /\ Later(h[Newest(h, S)].ts, h[j].ts)
              /\ h[j].ts.time < h[Newest(h, S)].ts.time
<1> DEFINE P(x) == \A j \in S : ~Later(h[j].ts, h[x].ts)
           time == [i \in S |-> h[i].ts.time]
<1>1. PICK n \in Nat : Times \subseteq 0..n
  BY DEF Legible
<1>2. \A i \in S : h[i].ts \in Timestamps /\ h[i].ts.time \in 0..n
  BY <1>1 DEF Legible, Timestamps
<1>3. \A i, j \in S : i # j => h[i].ts.time # h[j].ts.time
  BY DEF Legible
<1>4. PICK i \in S : \A j \in S : time[j] <= time[i]
  <2>1. time \in [S -> Nat] /\ \A j \in S : time[j] <= n
    BY <1>2
  <2> HIDE DEF time
  <2> QED
    BY <2>1, LargestValue
<1>5. \A j \in S \ {i} : h[j].ts.time < h[i].ts.time /\ Later(h[i].ts, h[j].ts)
  BY <1>2, <1>3, <1>4 DEF Later
<1>6. P(i)
  <2> SUFFICES ASSUME NEW j \in S PROVE ~Later(h[j].ts, h[i].ts)
    OBVIOUS
  <2> QED
    BY <1>2, <1>5, LaterIsStrictTotalOrder
<1>7. Newest(h, S) = i
  <2>1. Newest(h, S) = CHOOSE x \in S : P(x)
    BY DEF Newest
  <2>2. \A x \in S : P(x) => x = i
    BY <1>5
  <2> HIDE DEF P
  <2> QED
    BY <1>6, <2>1, <2>2
<1> QED
  BY <1>5, <1>7

\* A row that no other is newer than is the newest.
LEMMA NewestIsUnique ==
  ASSUME NEW h, NEW R, Legible(h, R), NEW S \in SUBSET R, NEW i \in S,
         \A j \in S \ {i} : Later(h[i].ts, h[j].ts)
  PROVE  Newest(h, S) = i
<1>1. \A j \in S : h[j].ts \in Timestamps
  BY DEF Legible
<1>2. PICK j \in S : j = Newest(h, S) /\ \A l \in S \ {j} : Later(h[j].ts, h[l].ts)
  BY NewestIsNewer
<1> QED
  BY <1>1, <1>2, LaterIsStrictTotalOrder

\* What rows merge to depends on their patches and timestamps only.
LEMMA LatestOfSame ==
  ASSUME NEW h, NEW R, Legible(h, R), NEW S \in SUBSET R, NEW g,
         \A i \in S : g[i].after = h[i].after /\ g[i].ts = h[i].ts
  PROVE  Latest(g, S) = Latest(h, S)
<1>1. UNION {DOMAIN g[i].after : i \in S} = UNION {DOMAIN h[i].after : i \in S}
  OBVIOUS
<1>2. \A k : Setters(g, S, k) = Setters(h, S, k)
  BY DEF Setters
<1>3. ASSUME NEW T \in SUBSET S PROVE Newest(g, T) = Newest(h, T)
  <2> DEFINE P(i) == \A j \in T : ~Later(g[j].ts, g[i].ts)
             Q(i) == \A j \in T : ~Later(h[j].ts, h[i].ts)
  <2>1. \A i \in T : P(i) <=> Q(i)
    OBVIOUS
  <2> DEFINE p == CHOOSE i \in T : P(i)
             q == CHOOSE i \in T : Q(i)
  <2>2. /\ Newest(g, T) = IF T = {} THEN 0 ELSE p
        /\ Newest(h, T) = IF T = {} THEN 0 ELSE q
    BY DEF Newest
  <2>3. p = q
    <3> HIDE DEF P, Q
    <3> QED
      BY <2>1
  <2> HIDE DEF p, q
  <2> QED
    BY <2>2, <2>3
<1> DEFINE D == UNION {DOMAIN h[i].after : i \in S}
<1>4. ASSUME NEW k \in D
      PROVE  Written(g, Newest(g, Setters(g, S, k)), k) =
               Written(h, Newest(h, Setters(h, S, k)), k)
  <2> DEFINE T == Setters(h, S, k)
  <2>1. T \in SUBSET S /\ T # {}
    BY DEF Setters
  <2> HIDE DEF T, D
  <2>2. Newest(h, T) \in S
    BY <2>1, NewestIsNewer
  <2>3. Newest(g, T) = Newest(h, T)
    BY <1>3, <2>1
  <2>4. Setters(g, S, k) = T
    BY <1>2 DEF T
  <2>5. Written(g, Newest(h, T), k) = Written(h, Newest(h, T), k)
    BY <2>2 DEF Written
  <2> QED
    BY <2>3, <2>4, <2>5 DEF T
<1> HIDE DEF D
<1>5. Latest(h, S) = [k \in D |-> Written(h, Newest(h, Setters(h, S, k)), k)]
  BY DEF Latest, D
<1>6. Latest(g, S) = [k \in D |-> Written(g, Newest(g, Setters(g, S, k)), k)]
  BY <1>1 DEF Latest, D
<1> QED
  BY <1>4, <1>5, <1>6

\* Into no object rows merge to the newest writes.
LEMMA LatestOverNothing ==
  ASSUME NEW h, NEW S
  PROVE  LatestOver(NoObject, h, S) = Latest(h, S)
<1>1. DOMAIN NoObject = {}
  BY DEF NoObject
<1>2. \A k : ~Kept(NoObject, h, S, k)
  BY <1>1 DEF Kept
<1> QED
  BY <1>1, <1>2 DEF LatestOver, Latest

\* One more row, older or newer than the others, is merged in.
LEMMA LatestOverGrows ==
  ASSUME NEW h, NEW R, Legible(h, R), NEW S \in SUBSET R, NEW m \in R \ S,
         NEW obj, Stamped(obj)
  PROVE  LatestOver(obj, h, S \cup {m}) = MergeCRDT(LatestOver(obj, h, S), h[m].after, h[m].ts)
<1> DEFINE D(T) == UNION {DOMAIN h[i].after : i \in T}
           old == LatestOver(obj, h, S)
           new == MergeCRDT(old, h[m].after, h[m].ts)
           E == DOMAIN obj \cup D(S) \cup DOMAIN h[m].after
           latest(k) == IF Kept(obj, h, S \cup {m}, k) THEN obj[k]
                        ELSE Written(h, Newest(h, Setters(h, S \cup {m}, k)), k)
<1>1. D(S \cup {m}) = D(S) \cup DOMAIN h[m].after
  OBVIOUS
<1>2. DOMAIN old = DOMAIN obj \cup D(S) /\ DOMAIN new = E
  BY DEF LatestOver, MergeCRDT
<1>3. \A i \in R : h[i].ts \in Timestamps
  BY DEF Legible
<1>4. \A j \in S : h[j].ts # h[m].ts
  BY DEF Legible
<1>5. ASSUME NEW k \in E PROVE latest(k) = new[k]
  <2> DEFINE T == Setters(h, S, k)
             U == Setters(h, S \cup {m}, k)
             n == Newest(h, T)
  <2>1. T \in SUBSET S /\ U \in SUBSET R
    BY DEF Setters
  <2>2. /\ k \in DOMAIN h[m].after => U = T \cup {m}
        /\ k \notin DOMAIN h[m].after => U = T
    BY DEF Setters
  <2>3. k \in D(S) <=> T # {}
    BY DEF Setters
  <2>4. T # {} => n \in T /\ \A j \in T \ {n} : Later(h[n].ts, h[j].ts)
    <3> HIDE DEF T, D
    <3> QED
      BY <2>1, NewestIsNewer
  <2>5. k \in DOMAIN old => old[k] = IF Kept(obj, h, S, k) THEN obj[k] ELSE Written(h, n, k)
    BY <1>2 DEF LatestOver
  <2>6. /\ Kept(obj, h, S, k) <=>
             k \in DOMAIN obj /\ \A i \in T : ~Later(h[i].ts, obj[k].ts)
        /\ Kept(obj, h, S \cup {m}, k) <=>
             k \in DOMAIN obj /\ \A i \in U : ~Later(h[i].ts, obj[k].ts)
    BY DEF Kept
  <2>7. Written(h, n, k).ts = h[n].ts /\ (k \in DOMAIN obj => obj[k].ts \in Timestamps)
    BY DEF Written, Stamped
  <2>8. CASE k \notin DOMAIN h[m].after
    <3>1. new[k] = old[k] /\ k \in DOMAIN old
      BY <1>2, <2>8 DEF MergeCRDT
    <3>2. U = T
      BY <2>2, <2>8
    <3> QED
      BY <2>5, <2>6, <3>1, <3>2
  <2>9. CASE k \in DOMAIN h[m].after /\ k \notin DOMAIN old
    <3>1. new[k] = Written(h, m, k) /\ T = {} /\ k \notin DOMAIN obj
      BY <1>2, <2>3, <2>9 DEF MergeCRDT, Written
    <3>2. U = {m} /\ ~Kept(obj, h, S \cup {m}, k)
      BY <2>2, <2>6, <2>9, <3>1
    <3>3. Newest(h, {m}) = m
      BY NewestIsUnique
    <3> QED
      BY <3>1, <3>2, <3>3
  <2>10. CASE k \in DOMAIN h[m].after /\ k \in DOMAIN old
    <3>1. new[k] = IF Later(h[m].ts, old[k].ts) THEN Written(h, m, k) ELSE old[k]
      BY <1>2, <2>10 DEF MergeCRDT, Written
    <3>2. T # {} \/ k \in DOMAIN obj
      BY <1>2, <2>3, <2>10
    <3>3. U = T \cup {m} /\ m \in U /\ m \in R
      BY <2>2, <2>10
    <3>4. CASE Kept(obj, h, S, k)
      <4>1. old[k] = obj[k] /\ k \in DOMAIN obj /\ \A i \in T : ~Later(h[i].ts, obj[k].ts)
        BY <2>5, <2>6, <2>10, <3>4
      <4>2. CASE ~Later(h[m].ts, obj[k].ts)
        BY <2>6, <3>1, <3>3, <4>1, <4>2
      <4>3. CASE Later(h[m].ts, obj[k].ts)
        <5>1. ~Kept(obj, h, S \cup {m}, k)
          BY <2>6, <3>3, <4>3
        <5>2. ASSUME NEW j \in T PROVE Later(h[m].ts, h[j].ts)
          <6>1. j \in S /\ j \in R
            BY <2>1
          <6>2. ~Later(h[j].ts, obj[k].ts) /\ h[j].ts # h[m].ts
            BY <1>4, <4>1, <6>1
          <6>3. h[j].ts \in Timestamps /\ h[m].ts \in Timestamps /\ obj[k].ts \in Timestamps
            BY <1>3, <2>7, <4>1, <6>1
          <6> QED
            BY <4>3, <6>2, <6>3, LaterIsStrictTotalOrder
        <5>3. Newest(h, U) = m
          <6>1. \A j \in U \ {m} : Later(h[m].ts, h[j].ts)
            BY <3>3, <5>2
          <6> HIDE DEF U
          <6> QED
            BY <2>1, <3>3, <6>1, NewestIsUnique
        <5> QED
          BY <3>1, <4>1, <4>3, <5>1, <5>3
      <4> QED
        BY <4>2, <4>3
    <3>5. CASE ~Kept(obj, h, S, k)
      <4>1. old[k] = Written(h, n, k) /\ T # {}
        BY <2>5, <2>6, <2>10, <3>2, <3>5
      <4>2. n \in T /\ n \in S /\ n \in R /\ \A j \in T \ {n} : Later(h[n].ts, h[j].ts)
        BY <2>1, <2>4, <4>1
      <4>3. ~Kept(obj, h, S \cup {m}, k)
        BY <2>6, <3>3, <3>5
      <4>4. h[n].ts \in Timestamps /\ h[m].ts \in Timestamps /\ h[n].ts # h[m].ts
        BY <1>3, <1>4, <4>2
      <4>5. \A j \in T : h[j].ts \in Timestamps
        BY <1>3, <2>1
      <4>6. CASE Later(h[m].ts, h[n].ts)
        <5>1. \A j \in T : Later(h[m].ts, h[j].ts)
          BY <4>2, <4>4, <4>5, <4>6, LaterIsStrictTotalOrder
        <5>2. Newest(h, U) = m
          <6>1. \A j \in U \ {m} : Later(h[m].ts, h[j].ts)
            BY <3>3, <5>1
          <6> HIDE DEF U
          <6> QED
            BY <2>1, <3>3, <6>1, NewestIsUnique
        <5> QED
          BY <2>7, <3>1, <4>1, <4>3, <4>6, <5>2
      <4>7. CASE ~Later(h[m].ts, h[n].ts)
        <5>1. Later(h[n].ts, h[m].ts)
          BY <4>4, <4>7, LaterIsStrictTotalOrder
        <5>2. Newest(h, U) = n
          <6>1. \A j \in U \ {n} : Later(h[n].ts, h[j].ts)
            BY <3>3, <4>2, <5>1
          <6>2. n \in U
            BY <3>3, <4>2
          <6> HIDE DEF U, T, n
          <6> QED
            BY <2>1, <6>1, <6>2, NewestIsUnique
        <5> QED
          BY <2>7, <3>1, <4>1, <4>3, <4>7, <5>2
      <4> QED
        BY <4>6, <4>7
    <3> QED
      BY <3>4, <3>5
  <2> QED
    BY <1>2, <2>8, <2>9, <2>10
<1>6. LatestOver(obj, h, S \cup {m}) = [k \in E |-> latest(k)]
  BY <1>1 DEF LatestOver
<1>7. new = [k \in E |-> new[k]]
  BY <1>2 DEF MergeCRDT
<1> HIDE DEF E, new, latest
<1>8. [k \in E |-> latest(k)] = [k \in E |-> new[k]]
  BY <1>5
<1> QED
  BY <1>6, <1>7, <1>8 DEF new

\* The same for rows merged into no object.
LEMMA LatestGrows ==
  ASSUME NEW h, NEW R, Legible(h, R), NEW S \in SUBSET R, NEW m \in R \ S
  PROVE  Latest(h, S \cup {m}) = MergeCRDT(Latest(h, S), h[m].after, h[m].ts)
<1>1. Stamped(NoObject)
  BY DEF Stamped, NoObject
<1> QED
  BY <1>1, LatestOverGrows, LatestOverNothing

\* Merging the rows one by one, the newest last, gives the closed form.
THEOREM MergedIsLatest ==
  ASSUME NEW h, NEW R, Legible(h, R), NEW S \in SUBSET R, NEW obj, Stamped(obj)
  PROVE  MergedInto(obj, h, S) = LatestOver(obj, h, S)
<1> DEFINE Step(f, T) == MergeCRDT(f[T \ {Newest(h, T)}], h[Newest(h, T)].after,
                                   h[Newest(h, T)].ts)
           Body(f) == [T \in SUBSET S |-> IF T = {} THEN obj ELSE Step(f, T)]
           merged == CHOOSE f : f = Body(f)
           latest == [T \in SUBSET S |-> LatestOver(obj, h, T)]
<1>1. MergedInto(obj, h, S) = merged[S]
  BY DEF MergedInto
<1>2. LatestOver(obj, h, {}) = obj
  <2>1. \A k \in DOMAIN obj : Kept(obj, h, {}, k)
    BY DEF Kept, Setters
  <2> QED
    BY <2>1 DEF LatestOver, Stamped
<1>3. ASSUME NEW T \in SUBSET S, T # {}
      PROVE  /\ Newest(h, T) \in T
             /\ LatestOver(obj, h, T) = MergeCRDT(LatestOver(obj, h, T \ {Newest(h, T)}),
                                                  h[Newest(h, T)].after, h[Newest(h, T)].ts)
  <2>1. PICK m \in T : m = Newest(h, T)
    BY <1>3, NewestIsNewer
  <2>2. T = (T \ {m}) \cup {m} /\ T \ {m} \in SUBSET R /\ m \in R \ (T \ {m})
    OBVIOUS
  <2>3. LatestOver(obj, h, (T \ {m}) \cup {m}) =
          MergeCRDT(LatestOver(obj, h, T \ {m}), h[m].after, h[m].ts)
    BY <2>2, LatestOverGrows
  <2> QED
    BY <2>1, <2>2, <2>3
<1>4. latest = Body(latest)
  <2>1. ASSUME NEW T \in SUBSET S
        PROVE  latest[T] = IF T = {} THEN obj ELSE Step(latest, T)
    <3>1. T \ {Newest(h, T)} \in SUBSET S
      OBVIOUS
    <3> QED
      BY <1>2, <1>3, <3>1
  <2> HIDE DEF Step
  <2> QED
    BY <2>1
<1>5. merged = Body(merged)
  <2> HIDE DEF Body
  <2> QED
    BY <1>4
<1>6. IsFiniteSet(S)
  BY FS_Subset DEF Legible
<1> DEFINE Bad == {T \in SUBSET S : merged[T] # LatestOver(obj, h, T)}
           Sizes == {Cardinality(T) : T \in Bad}
<1> HIDE DEF merged
<1>7. Bad = {}
  <2> SUFFICES ASSUME Bad # {} PROVE FALSE
    OBVIOUS
  <2>1. \A T \in SUBSET S : IsFiniteSet(T) /\ Cardinality(T) \in Nat
    BY <1>6, FS_Subset, FS_CardinalityType
  <2>2. Sizes \subseteq Nat /\ Sizes # {}
    BY <2>1
  <2>3. \E x \in Sizes : \A y \in Sizes : ~(<<y, x>> \in OpToRel(<, Nat))
    <3> HIDE DEF Sizes
    <3> QED
      BY <2>2, NatLessThanWellFounded, WFMin, Zenon
  <2>4. PICK T \in Bad : \A U \in Bad : ~(Cardinality(U) < Cardinality(T))
    <3>1. PICK x \in Sizes : \A y \in Sizes : ~(y < x)
      BY <2>2, <2>3 DEF OpToRel
    <3> QED
      BY <3>1
  <2>5. T # {}
    <3>1. merged[{}] = obj
      BY <1>5
    <3> QED
      BY <1>2, <3>1
  <2>6. PICK m \in T : m = Newest(h, T)
    BY <1>3, <2>5
  <2>7. Cardinality(T \ {m}) < Cardinality(T)
    <3>1. IsFiniteSet(T) /\ Cardinality(T) \in Nat
      BY <2>1
    <3>2. Cardinality(T \ {m}) = Cardinality(T) - 1
      BY <3>1, FS_RemoveElement
    <3> QED
      BY <3>1, <3>2
  <2>8. T \ {m} \in SUBSET S /\ merged[T \ {m}] = LatestOver(obj, h, T \ {m})
    BY <2>4, <2>7
  <2>9. merged[T] = MergeCRDT(merged[T \ {m}], h[m].after, h[m].ts)
    <3>1. merged[T] = Step(merged, T)
      BY <1>5, <2>5
    <3> QED
      BY <2>6, <3>1
  <2>10. merged[T] = LatestOver(obj, h, T)
    BY <1>3, <2>5, <2>6, <2>8, <2>9
  <2> QED
    BY <2>10
<1> QED
  BY <1>1, <1>7

\* What the log replays to, or shows on a load.
LEMMA MergedRows ==
  ASSUME NEW h, NEW R, Legible(h, R), NEW S \in SUBSET R
  PROVE  Merged(h, S) = Latest(h, S)
<1>1. Stamped(NoObject)
  BY DEF Stamped, NoObject
<1> QED
  BY <1>1, MergedIsLatest, LatestOverNothing DEF Merged

=============================================================================

---------------------------- MODULE CanvasCRDT ----------------------------
(***************************************************************************)
(* The last-writer-wins object of crdt/merge.ts and the order on logical   *)
(* timestamps of crdt/hlc.ts.  An object is the pair props/meta of the     *)
(* code, as one function from its keys to cells: mergeCRDT always writes   *)
(* both maps at the same keys.                                             *)
(***************************************************************************)
EXTENDS Naturals

CONSTANTS Times,    \* values of a timestamp's time, in milliseconds
          Actors,   \* actor ids, named by their rank under localeCompare
          Keys,     \* the property names a patch can hold
          Values

ASSUME TimestampsAssumption == Times \subseteq Nat /\ Actors \subseteq Nat

Timestamps == [time : Times, actorId : Actors]

\* compareLogicalTimestamp(a, b) > 0
Later(a, b) ==
  \/ a.time > b.time
  \/ a.time = b.time /\ a.actorId > b.actorId

Cells   == [val : Values, ts : Timestamps]
Props   == UNION {[S -> Values] : S \in SUBSET Keys}
Objects == UNION {[S -> Cells] : S \in SUBSET Keys}

\* existing = null.  No patch is empty (the schema requires a type), so an
\* object that exists has at least one key.
NoObject == [k \in {} |-> k]

\* Mutant of MergeCRDT: the last patch to arrive wins.
MergeCRDTLastArrival(existing, props, ts) ==
  [k \in DOMAIN existing \cup DOMAIN props |->
     IF k \in DOMAIN props THEN [val |-> props[k], ts |-> ts] ELSE existing[k]]

\* mergeCRDT(existing, {props, timestamp: ts})
MergeCRDT(existing, props, ts) ==
  [k \in DOMAIN existing \cup DOMAIN props |->
     IF k \in DOMAIN props /\ (k \in DOMAIN existing => Later(ts, existing[k].ts))
     THEN [val |-> props[k], ts |-> ts]
     ELSE existing[k]]

\* materializeCRDT: what is left when the metadata is dropped.
MaterializeCRDT(obj) == [k \in DOMAIN obj |-> obj[k].val]

=============================================================================

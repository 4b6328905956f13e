------------------------- MODULE CanvasConvergence -------------------------
(***************************************************************************)
(* What mergeCRDT is for.  The stored object, the replay service and the   *)
(* load payload each fold mergeCRDT over the patches of an object, in      *)
(* delivery order (the consumer, under redelivery and requeueing) or in    *)
(* the order of the log.  Each such fold is a replica here: it applies the *)
(* patches in any order, any number of times.                              *)
(***************************************************************************)
EXTENDS CanvasCRDT

CONSTANT Replicas

VARIABLES issued,    \* the patches events carry so far
          applied,   \* per replica, the patches it has merged
          object     \* per replica, the object it holds

replicaVars == <<issued, applied, object>>

Patches == [props : Props, ts : Timestamps]

ReplicaTypeOK ==
  /\ issued \subseteq Patches
  /\ applied \in [Replicas -> SUBSET issued]
  /\ object \in [Replicas -> Objects]

ReplicaInit ==
  /\ issued = {}
  /\ applied = [r \in Replicas |-> {}]
  /\ object = [r \in Replicas |-> NoObject]

\* A handler creates an event.  Two processes may give two events of an actor
\* the same timestamp, and so may one whose clock was set back beyond the drift
\* (Hlc): nothing here keeps timestamps apart.
Issue(p) ==
  /\ issued' = issued \cup {p}
  /\ UNCHANGED <<applied, object>>

Apply(r, p) ==
  /\ p \in issued
  /\ applied' = [applied EXCEPT ![r] = @ \cup {p}]
  /\ object' = [object EXCEPT ![r] = MergeCRDT(@, p.props, p.ts)]
  /\ UNCHANGED issued

ReplicaNext ==
  \/ \E p \in Patches : Issue(p)
  \/ \E r \in Replicas, p \in issued : Apply(r, p)

ReplicaSpec == ReplicaInit /\ [][ReplicaNext]_replicaVars

-----------------------------------------------------------------------------
\* Every key of a replica holds the write of the latest patch with that key
\* among those it applied, whatever the order they came in.
LatestWriteWins ==
  \A r \in Replicas :
    /\ \A p \in applied[r] : DOMAIN p.props \subseteq DOMAIN object[r]
    /\ \A k \in DOMAIN object[r] :
         /\ \E p \in applied[r] :
              k \in DOMAIN p.props /\ object[r][k] = [val |-> p.props[k], ts |-> p.ts]
         /\ \A p \in applied[r] : k \in DOMAIN p.props => ~Later(p.ts, object[r][k].ts)

\* The patches a replica has applied to a key at the timestamp it holds there.
LastWrites(r, k) ==
  {p \in applied[r] : k \in DOMAIN p.props /\ p.ts = object[r][k].ts}

\* Replicas that have merged the same patches have the same keys with the same
\* timestamps, and the same value at each of them but where two of the patches
\* have the last timestamp of the key and differ in it: this much of the
\* "Conflict-Free Replication" of README.md holds whatever the timestamps.
Convergence ==
  \A r, q \in Replicas : applied[r] = applied[q] =>
    /\ DOMAIN object[r] = DOMAIN object[q]
    /\ \A k \in DOMAIN object[r] :
         /\ object[r][k].ts = object[q][k].ts
         /\ object[r][k] = object[q][k]
            \/ \E p1, p2 \in LastWrites(r, k) : p1.props[k] # p2.props[k]

\* A merge never takes a key away and never moves a key back to an older
\* write, so a late or repeated patch undoes nobody's work.
KeysMoveForward ==
  \A r \in Replicas : \A k \in DOMAIN object[r] :
    /\ k \in DOMAIN object'[r]
    /\ ~Later(object[r][k].ts, object'[r][k].ts)

NeverBackwards == [][KeysMoveForward]_replicaVars

=============================================================================

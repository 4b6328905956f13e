------------------------- MODULE MCCanvasAnyOrder -------------------------
(***************************************************************************)
(* What arrives in any order: the events of a room at its log and objects, *)
(* and the patches of one object at replicas of it.  They share no state;  *)
(* the one chosen at the start runs, the other stays where it begins.      *)
(***************************************************************************)
EXTENDS MCCanvasHistory, CanvasConvergence, FiniteSets, TLC

CONSTANTS MaxIssued,  \* bound: the patches of a behaviour
          r1, r2

VARIABLE chosen

orderVars == <<chosen, vars, replicaVars>>

OrderInit == chosen \in {"events", "patches"} /\ Init /\ ReplicaInit

\* Patches at two times and with two values, few of them in a behaviour.
FewPatches ==
  {p \in Patches : p.ts.time <= 2 /\ \A k \in DOMAIN p.props : p.props[k] <= 1}

IssueFew == Cardinality(issued) < MaxIssued /\ \E p \in FewPatches \ issued : Issue(p)
ApplySome == \E r \in Replicas, p \in issued : Apply(r, p)

OrderNext ==
  /\ UNCHANGED chosen
  /\ \/ chosen = "events" /\ Next /\ UNCHANGED replicaVars
     \/ chosen = "patches" /\ (IssueFew \/ ApplySome) /\ UNCHANGED vars

OrderSpec == OrderInit /\ [][OrderNext]_orderVars

Symmetry == Permutations({r1, r2})

=============================================================================

------------------------------ MODULE Replicas ------------------------------
(***************************************************************************)
(* What every module about replicas starts from: who they are, who leads a *)
(* view, who collects its prepares.                                        *)
(***************************************************************************)
EXTENDS Naturals, FiniteSets

CONSTANTS
  Node,           \* the replicas
  F,              \* faults tolerated
  N,              \* number of replicas
  CollectorMod,   \* the collector of view v is ServerMapping[v % CollectorMod]
  ServerMapping,  \* residue -> replica
  InitView        \* the view replicas start in

ASSUME ReplicaAssumption ==
  /\ F \in Nat
  /\ N \in Nat \ {0}
  /\ CollectorMod \in 1 .. N
  /\ InitView \in Nat
ASSUME MappingAssumption == ServerMapping \in [0 .. N - 1 -> Node]
ASSUME NodeAssumption == IsFiniteSet(Node)

Leader(v) == ServerMapping[v % N]
Collector(v) == ServerMapping[v % CollectorMod]
=============================================================================

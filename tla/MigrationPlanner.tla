-------------------------- MODULE MigrationPlanner --------------------------
(***************************************************************************)
(* MigrationPlanner.create_plan (database/migration_control/planning.py):  *)
(* Kahn's algorithm with a heap ordered by sequence number, then the check *)
(* that the order found is the order of the sequence numbers.              *)
(*                                                                         *)
(* The manifest loader rejects catalogues that repeat a migration id or a  *)
(* sequence number, so a migration is its sequence number.  One step is    *)
(* one iteration of the while loop.                                        *)
(***************************************************************************)
EXTENDS Integers, FiniteSets, Sequences

CONSTANTS
  Ids,     \* sequence numbers in the catalogue
  Unknown  \* an id that is not in the catalogue

ASSUME PlannerAssumption == Ids \subseteq Nat \ {0} /\ IsFiniteSet(Ids) /\ Unknown \notin Ids

VARIABLES
  depends,  \* depends_on of every definition, as loaded
  indegree,
  ready,    \* the heap
  ordered,
  outcome   \* "checking", "draining", "planned", or the error raised

plannerVars == <<depends, indegree, ready, ordered, outcome>>

Errors   == {"MigrationDependencyError", "MigrationCycleError", "MigrationOrderError"}
Finished == Errors \cup {"planned"}

(* contracts.py rejects a definition that depends on itself or twice on    *)
(* the same migration.                                                     *)
Catalogues == {f \in [Ids -> SUBSET (Ids \cup {Unknown})] : \A m \in Ids : m \notin f[m]}

PlannerTypeOK ==
  /\ depends \in Catalogues
  /\ indegree \in [Ids -> Nat]
  /\ ready \subseteq Ids
  /\ ordered \in Seq(Ids)
  /\ outcome \in {"checking", "draining"} \cup Finished

PlannerInit ==
  /\ depends \in Catalogues
  /\ indegree = [m \in Ids |-> 0]
  /\ ready = {}
  /\ ordered = <<>>
  /\ outcome = "checking"

Children(m) == {k \in Ids : m \in depends[k]}

(* Missing dependencies, indegrees and the migrations that are ready.      *)
Check ==
  /\ outcome = "checking"
  /\ IF \E m \in Ids : ~ depends[m] \subseteq Ids
       THEN /\ outcome' = "MigrationDependencyError"
            /\ UNCHANGED <<indegree, ready>>
       ELSE /\ outcome' = "draining"
            /\ indegree' = [m \in Ids |-> Cardinality(depends[m])]
            /\ ready' = {m \in Ids : depends[m] = {}}
  /\ UNCHANGED <<depends, ordered>>

(* Mutated form: a stack instead of a heap.                                *)
PopsLargest(m) == m \in ready /\ \A k \in ready : k <= m

Pops(m) == m \in ready /\ \A k \in ready : m <= k

BecomesReady(m, degree) == degree[m] = 0

Visit ==
  /\ outcome = "draining"
  /\ \E m \in ready :
       /\ Pops(m)
       /\ ordered' = Append(ordered, m)
       /\ indegree' = [k \in Ids |-> IF k \in Children(m) THEN indegree[k] - 1 ELSE indegree[k]]
       /\ ready' = (ready \ {m}) \cup {k \in Children(m) : BecomesReady(k, indegree')}
  /\ UNCHANGED <<depends, outcome>>

(* Mutated form: the final comparison forgets the sequence numbers.        *)
SortedUnchecked(s) == TRUE

Sorted(s) == \A i, j \in 1..Len(s) : i < j => s[i] <= s[j]

(* Mutated form: the loop goes on until every migration has its place.     *)
AllOrdered == Len(ordered) = Cardinality(Ids)

QueueEmpty == ready = {}

Conclude ==
  /\ outcome = "draining"
  /\ QueueEmpty
  /\ outcome' = IF Len(ordered) # Cardinality(Ids) THEN "MigrationCycleError"
                ELSE IF ~ Sorted(ordered) THEN "MigrationOrderError"
                ELSE "planned"
  /\ UNCHANGED <<depends, indegree, ready, ordered>>

PlannerNext == Check \/ Visit \/ Conclude

PlannerSpec == PlannerInit /\ [][PlannerNext]_plannerVars

(* create_plan is one call: it runs until it returns or raises.            *)
FairPlannerSpec == PlannerSpec /\ WF_plannerVars(PlannerNext)

-----------------------------------------------------------------------------
(* The reference: what a catalogue must be for each outcome.               *)

Complete == \A m \in Ids : depends[m] \subseteq Ids
Cyclic   == \E S \in SUBSET Ids : S # {} /\ \A m \in S : depends[m] \cap S # {}
Monotone == \A m \in Ids : \A d \in depends[m] : d < m

Visited == {ordered[i] : i \in 1..Len(ordered)}

(* While the queue drains, the indegrees count exactly the dependencies    *)
(* that are still ahead, the heap holds exactly the migrations without     *)
(* any, and no migration is taken twice or before what it depends on.      *)
DrainInv ==
  outcome = "draining" =>
    /\ \A m \in Ids \ Visited : indegree[m] = Cardinality(depends[m] \ Visited)
    /\ ready = {m \in Ids \ Visited : depends[m] \subseteq Visited}
    /\ \A m \in Visited : depends[m] \subseteq Visited
    /\ \A i, j \in 1..Len(ordered) : i < j =>
         ordered[i] # ordered[j] /\ ordered[j] \notin depends[ordered[i]]

(* A plan is accepted exactly when every dependency is in the catalogue    *)
(* and has a smaller sequence number, and the errors tell the other cases  *)
(* apart: this is what MigrationControl assumes of a trusted plan.         *)
OutcomeIsRight ==
  outcome \in Finished =>
    /\ outcome = "MigrationDependencyError" <=> ~ Complete
    /\ outcome = "MigrationCycleError" <=> Complete /\ Cyclic
    /\ outcome = "MigrationOrderError" <=> Complete /\ ~ Cyclic /\ ~ Monotone
    /\ outcome = "planned" <=> Complete /\ Monotone

(* An accepted forward order lists every migration once, by sequence       *)
(* number, after everything it depends on.                                 *)
PlanIsForwardOrder ==
  outcome = "planned" =>
    /\ Visited = Ids /\ Len(ordered) = Cardinality(Ids)
    /\ \A i, j \in 1..Len(ordered) : ordered[i] \in depends[ordered[j]] => i < j
    /\ \A i, j \in 1..Len(ordered) : i < j => ordered[i] < ordered[j]

(* What else the loop keeps: no cycle among the visited migrations, as     *)
(* many of them as positions, and by sequence number if that is possible.  *)
OrderInv ==
  outcome = "draining" =>
    /\ Complete
    /\ Cardinality(Visited) = Len(ordered)
    /\ \A S \in SUBSET Visited : S # {} => \E m \in S : depends[m] \cap S = {}
    /\ Monotone =>
         /\ Sorted(ordered)
         /\ \A m \in Visited, k \in Ids \ Visited : m < k

CheckingInv == outcome = "checking" => ordered = <<>>

(* Why the outcome is right: the loop is a topological sort that is greedy *)
(* for small sequence numbers.                                             *)
PlannerInv ==
  /\ PlannerTypeOK
  /\ CheckingInv
  /\ DrainInv
  /\ OrderInv
  /\ OutcomeIsRight
  /\ PlanIsForwardOrder

(* The loop ends for every catalogue, also for cyclic ones.                *)
PlannerReturns == <>(outcome \in Finished)
=============================================================================

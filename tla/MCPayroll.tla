------------------------------ MODULE MCPayroll ------------------------------
(***************************************************************************)
(* Instances of PayrollPlanner, PayrollRetransmit and BatchCheckpoint: how *)
(* a payroll is planned, sent and recorded.  A history is of one of them;  *)
(* the others stay in their initial states.                                *)
(***************************************************************************)
EXTENDS PayrollRetransmit, TLC

CONSTANTS t1, t2, t3, process1, process2, b1, b2, b3

(* t1 and t3 are calls of one process, t2 of the other.                    *)
TaskProcess == [t \in Task |-> IF t = t2 THEN process2 ELSE process1]

VARIABLES machine, bStatus, bTtl, freed, bDisk, bCall, docs, bSpent, late,
          treasury, items

batchVars == <<bStatus, bTtl, freed, bDisk, bCall, docs, bSpent, late>>
planVars == <<treasury, items>>

Batch == INSTANCE BatchCheckpoint WITH
  Process <- {b1, b2, b3}, LeaseDuration <- 2,
  status <- bStatus, ttl <- bTtl, disk <- bDisk, call <- bCall, spent <- bSpent

(* A treasury of two owner keys, with notes of up to 4.                    *)
Planner == INSTANCE PayrollPlanner WITH
  Arrivals <- {[amount |-> a, owner |-> 1, free |-> TRUE] : a \in {0, 1, 4}}
                \cup {[amount |-> a, owner |-> 2, free |-> TRUE] : a \in {1, 3}}
                \cup {[amount |-> 4, owner |-> 1, free |-> FALSE]},
  Owners <- {1, 2}, ItemAmount <- {1, 2, 4}, MaxUint64 <- 4,
  MaxInputs <- 2, MaxOutputs <- 2, MaxCandidates <- 64, MaxVisits <- 4096,
  SearchLimit <- 20000, MaxNotes <- 4, MaxItems <- 3, notes <- treasury

ASSUME Batch!CheckpointAssumption /\ Planner!PayrollPlannerAssumption

MCInit ==
  /\ machine \in {"payroll", "batch", "plan"}
  /\ Init /\ Batch!Init /\ Planner!Init

MCNext ==
  \/ machine = "payroll" /\ Next /\ UNCHANGED <<machine, batchVars, planVars>>
  \/ machine = "batch" /\ Batch!Next /\ UNCHANGED <<machine, vars, planVars>>
  \/ machine = "plan" /\ Planner!Next /\ UNCHANGED <<machine, vars, batchVars>>

MCSpec == MCInit /\ [][MCNext]_<<machine, vars, batchVars, planVars>>

Interchangeable == Permutations(Tx) \cup Permutations({b1, b2, b3})

BatchIsSafe == Batch!BatchIsSafe
PayrollIsFunded == machine = "plan" => Planner!PayrollIsFunded

------------------------------------------------------------------------------
(* Histories that are small in one way each.                               *)

Known(tx) == net[tx] # "none" \/ tx \in disk \/ \E s \in Process : tx \in have[s]
Idling(t) == task[t] = Idle
Absent(s) == have[s] = {} /\ decision[s] = {} /\ lease.owner # s

(* one call at a time over two signatures; or calls of two processes, which *)
(* share one decision, or of one process, and one signature                *)
SmallInOneWay ==
  \/ /\ Idling(t3) /\ (Idling(t1) \/ Idling(t2))
     /\ have[process1] \cap have[process2] = {} /\ disk # Tx
  \/ /\ Idling(t3) /\ issued + Cardinality({t \in Task : task[t].at = "inspected"}) <= 1
     /\ \E x \in Tx : ~Known(x)
  \/ Idling(t2) /\ Absent(process2) /\ \E x \in Tx : ~Known(x)
==============================================================================

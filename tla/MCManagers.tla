----------------------------- MODULE MCManagers -----------------------------
(***************************************************************************)
(* Instances of ManagerCalls and of ProofPreparation.  A history is of one *)
(* of them; the other stays in an initial state.                           *)
(***************************************************************************)
EXTENDS ManagerCalls

CONSTANTS o1, o2, c1, c2, c3, m1, m2, n1, n2

(* c1 and c3 are calls of the manager m1, c2 of m2.                        *)
CallerManager == [c \in Caller |-> IF c = c2 THEN m2 ELSE m1]
AllKinds == Kind

VARIABLES
  machine,
  punctual, pStatus, pLease, broadcast, evidence, outcome, pClaim,
  pc, job, left, asleep, beat, due, failed, result, cleaned

prepVars ==
  <<punctual, pStatus, pLease, broadcast, evidence, outcome, pClaim,
    pc, job, left, asleep, beat, due, failed, result, cleaned>>

Prep == INSTANCE ProofPreparation WITH
  Note <- {n1, n2}, LeaseDuration <- 3, JobTimeout <- 3, Self <- m1, Plan <- o1,
  status <- pStatus, lease <- pLease, claim <- pClaim

ASSUME Prep!PreparationAssumption

MCInit == machine \in {"calls", "preparation"} /\ Init /\ Prep!Init

MCNext ==
  \/ machine = "calls" /\ Next /\ UNCHANGED <<machine, prepVars>>
  \/ machine = "preparation" /\ Prep!Next /\ UNCHANGED <<machine, vars>>

MCSpec ==
  /\ MCInit /\ [][MCNext]_<<machine, vars, prepVars>>
  /\ WF_prepVars(Prep!Steady(Prep!Client)) /\ WF_prepVars(Prep!Steady(Prep!TimerFires))
  /\ WF_prepVars(Prep!Steady(Prep!BeatEnds)) /\ WF_prepVars(Prep!Steady(Prep!Tick))

PreparationIsSafe == Prep!PreparationIsSafe
PrepareEnds == Prep!PrepareEnds

------------------------------------------------------------------------------
(* Histories of calls that are small in one way each.                      *)

Quiet(c) == call[c] = NoCall
Absent(m) == claim[m] = {} /\ \A o \in Op : lease[o].owner # m
OneOperation == status[o2] = NoRecord

(* one operation and two calls, of two managers, or of one while nobody    *)
(* else spends the note; or a call for o1 while the note is reserved for   *)
(* o2 and released again                                                   *)
SmallInOneWay ==
  \/ OneOperation /\ Quiet(c3)
  \/ OneOperation /\ Quiet(c2) /\ Absent(m2) /\ (spent => net[o1] = "included")
  \/ /\ Quiet(c2) /\ Quiet(c3)
     /\ status[o2] \in {NoRecord, "Reserved", "Released"}
     /\ call[c1] # NoCall => call[c1].op = o1
     /\ mark[o1] \cap {"handed", "attempt"} = {}
==============================================================================

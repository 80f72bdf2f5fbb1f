-------------------------- MODULE ReservationStatus --------------------------
(***************************************************************************)
(* The vocabulary of src/privacy/reservation.js: the statuses of a         *)
(* note reservation, which of them lock the note, the transition table     *)
(* both the manager and the store consult, and the two sets of transitions *)
(* that are about the worker lease.                                        *)
(***************************************************************************)

NoRecord == "NoRecord"   \* no reservation is stored under this id

Status ==
  {"Discovered", "Available", "Reserved", "Proving", "ProofReady",
   "Submitted", "ConfirmedSpent", "Failed", "ReplanRequired", "Released",
   "Unknown", "ManualReview"}

(* Statuses that keep the note from being selected by another operation. *)
Active ==
  {"Reserved", "Proving", "ProofReady", "Submitted", "Unknown",
   "ManualReview"}

OperationStatus ==
  {"Planned", "Proving", "ProofReady", "Submitted", "Succeeded", "Failed",
   "ReplanRequired", "Unknown", "ManualReview", "ConflictSpent"}

AllowedTransitions ==
     {"Discovered"} \X {"Available", "Failed"}
  \cup {"Available"} \X {"Reserved"}
  \cup {"Reserved"} \X {"Proving", "Released", "ReplanRequired", "ManualReview"}
  \cup {"Proving"} \X {"ProofReady", "Reserved", "ReplanRequired", "ManualReview"}
  \cup {"ProofReady"} \X {"Submitted", "Unknown", "ConfirmedSpent",
                          "ReplanRequired", "ManualReview"}
  \cup {"Submitted"} \X {"ConfirmedSpent", "Failed", "Unknown",
                         "ReplanRequired", "ManualReview"}
  \cup {"Unknown"} \X {"ConfirmedSpent", "Failed", "ReplanRequired", "ManualReview"}
  \cup {"ManualReview"} \X {"ConfirmedSpent", "Failed", "Released", "ReplanRequired"}
  \cup {"Failed"} \X {"ReplanRequired"}
  \cup {"Released"} \X {"Available"}
  \cup {"ReplanRequired"} \X {"Reserved", "Failed", "ManualReview"}

(* Transitions for which the store demands the current worker lease. *)
LeaseRequired ==
     {<<"Reserved", "Proving">>}
  \cup {"Proving"} \X {"Reserved", "ProofReady", "ReplanRequired", "ManualReview"}
  \cup {"ProofReady"} \X {"Submitted", "Unknown", "ReplanRequired", "ManualReview"}

(* Those any manager of the owner may take once the lease has expired. *)
ExpiredLeaseRecovery ==
  {<<"Proving", "ReplanRequired">>, <<"Proving", "ManualReview">>,
   <<"ProofReady", "ManualReview">>}

CanTransition(from, to) == <<from, to>> \in AllowedTransitions
==============================================================================

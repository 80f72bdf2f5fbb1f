---------------------------- MODULE ManagerCalls ----------------------------
(***************************************************************************)
(* A call of NoteReservationManager (src/privacy/reservation.js) is two    *)
(* steps: it reads the records, decides and builds its patch from what it  *)
(* read, metadata and lease expiry included; then the store commits the    *)
(* patch by compare-and-set on the status.  Calls of one or of several     *)
(* managers overlap.  ReservationStore takes each call as one step; here   *)
(* the time between is open, and every operation has one record, all on    *)
(* the same note.                                                          *)
(***************************************************************************)
EXTENDS Naturals, ReservationStatus

CONSTANTS
  Op, Manager, NoManager, LeaseDuration, Free, Spent,  \* see ReservationStore
  Asked,      \* the kinds of call made
  Caller,     \* calls that may be under way at once
  ManagerOf   \* the manager each is made on

ASSUME CallerAssumption ==
  /\ ManagerOf \in [Caller -> Manager] /\ NoManager \notin Manager
  /\ LeaseDuration \in Nat \ {0}
  /\ Free \notin Op /\ Spent \notin Op /\ Free # Spent

VARIABLES
  status, lease,    \* of the record of each operation
  count, inFlight,  \* broadcast_attempt_count, broadcast_in_flight
  mark,             \* evidence in its metadata
  claim,            \* the operations whose claim token a manager holds
  call,             \* what each caller is about to commit
  armed,            \* operations marked by a caller that now sends
  net,              \* what became of their payloads
  spent             \* is the note's nullifier on the chain

recordVars == <<status, lease, count, inFlight, mark>>
worldVars == <<armed, net, spent>>
vars == <<recordVars, claim, call, worldVars>>

NoLease == [owner |-> NoManager, ttl |-> 0]
NoCall == [kind |-> "none"]

Kind ==
  {"prove", "renew", "ready", "handoff", "attempt", "rejected", "submitted", "unknown",
   "failed", "recover", "replan", "review", "resolve", "revive", "included", "spent"}

ASSUME AskedAssumption == Asked \subseteq Kind

(* protectedMetadataEvidenceFields; failed and rejected stand for evidence *)
(* the store does not protect.                                             *)
Protected == {"handed", "attempt", "included", "approved", "authoritative"}
Mark == Protected \cup {"failed", "rejected"}

Init ==
  /\ status = [o \in Op |-> NoRecord] /\ lease = [o \in Op |-> NoLease]
  /\ count = [o \in Op |-> 0] /\ inFlight = [o \in Op |-> FALSE]
  /\ mark = [o \in Op |-> {}]
  /\ claim = [m \in Manager |-> {}]
  /\ call = [c \in Caller |-> NoCall]
  /\ armed = {} /\ net = [o \in Op |-> "none"] /\ spent = FALSE

------------------------------------------------------------------------------
(* What a call asks of the records.                                        *)

Target(kind, from) ==
  CASE kind = "prove" -> "Proving"
    [] kind = "ready" -> "ProofReady"
    [] kind \in {"renew", "handoff", "attempt"} -> from
    [] kind \in {"submitted", "included"} -> "Submitted"
    [] kind = "unknown" -> "Unknown"
    [] kind \in {"rejected", "failed", "recover", "replan"} -> "ReplanRequired"
    [] kind = "review" -> "ManualReview"
    [] kind = "resolve" -> "Released"
    [] kind = "revive" -> "Reserved"
    [] kind = "spent" -> "ConfirmedSpent"

Holds(m, o) == o \in claim[m] /\ lease[o].owner = m /\ lease[o].ttl > 0
Expired(o) == lease[o].owner # NoManager /\ lease[o].ttl = 0

LeaseAllows(m, o, to) ==
  <<status[o], to>> \in LeaseRequired =>
    \/ IF <<status[o], to>> = <<"Reserved", "Proving">> THEN o \in claim[m] ELSE Holds(m, o)
    \/ <<status[o], to>> \in ExpiredLeaseRecovery /\ Expired(o)

Broadcasted(o) == count[o] > 0 \/ inFlight[o] \/ "handed" \in mark[o]

(* The conditions of a kind of call on the record as it is.                *)
Legal(m, o, kind) ==
  LET at(from) == status[o] \in from
      ready == status[o] = "ProofReady"
      attempted == inFlight[o] /\ count[o] > 0
  IN  CASE kind = "prove" -> at({"Reserved"}) /\ LeaseAllows(m, o, "Proving")
        [] kind = "renew" -> at(Active) /\ Holds(m, o)
        [] kind = "ready" -> at({"Proving"}) /\ Holds(m, o)
        [] kind = "handoff" -> ready /\ Holds(m, o) /\ count[o] = 0 /\ ~inFlight[o]
        [] kind = "attempt" ->
             ready /\ Holds(m, o) /\ count[o] = 0 /\ ~inFlight[o] /\ "handed" \notin mark[o]
        [] kind = "rejected" -> ready /\ Holds(m, o) /\ "handed" \notin mark[o] /\ attempted
        [] kind = "submitted" -> ready /\ Holds(m, o) /\ attempted
        [] kind = "unknown" -> (ready /\ Holds(m, o) /\ attempted) \/ at({"Submitted"})
        [] kind = "failed" ->
             /\ (ready /\ Holds(m, o)) \/ at({"Submitted", "Unknown"})
             /\ count[o] > 0
        [] kind = "recover" -> ready /\ Expired(o) /\ attempted
        [] kind = "replan" ->
             /\ at({"Reserved", "Proving"}) \/ (ready /\ ~Broadcasted(o))
             /\ LeaseAllows(m, o, "ReplanRequired")
        [] kind = "review" ->
             /\ CanTransition(status[o], "ManualReview")
             /\ LeaseAllows(m, o, "ManualReview")
        [] kind = "resolve" -> at({"ManualReview"})
        [] kind = "revive" -> at({"ReplanRequired"})
        [] kind = "included" -> ready /\ "handed" \in mark[o] /\ count[o] = 0 /\ ~inFlight[o]
        [] kind = "spent" -> at(Status \ {"ConfirmedSpent"})

(* Evidence a caller has of the chain when it decides.                     *)
Evident(o, kind) ==
  CASE kind = "failed" -> net[o] = "failed" /\ ~spent
    [] kind = "recover" -> net[o] = "failed"
    [] kind = "rejected" -> net[o] = "refused"
    [] kind = "submitted" -> net[o] \in {"sent", "included"}
    [] kind = "included" -> net[o] = "included"
    [] kind = "spent" -> spent
    [] OTHER -> TRUE

Adds(kind) ==
  CASE kind = "handoff" -> {"handed"}
    [] kind = "attempt" -> {"attempt"}
    [] kind = "included" -> {"included"}
    [] kind = "resolve" -> {"approved"}
    [] kind = "recover" -> {"failed", "authoritative"}
    [] kind = "failed" -> {"failed"}
    [] kind = "rejected" -> {"rejected"}
    [] OTHER -> {}

------------------------------------------------------------------------------
(* The calls.                                                              *)

(* markBroadcastAttempting leaves the marks to the store to judge.         *)
Decides(m, o, kind) ==
  IF kind = "attempt" THEN status[o] = "ProofReady" /\ Holds(m, o) ELSE Legal(m, o, kind)

(* Handoff and attempt carry the expiry they read, the others their own.   *)
Read(c, o, kind) ==
  /\ call[c] = NoCall
  /\ Decides(ManagerOf[c], o, kind)
  /\ Evident(o, kind)
  /\ call' = [call EXCEPT ![c] =
       [op |-> o, kind |-> kind, from |-> status[o], mark |-> mark[o], count |-> count[o],
        sure |-> kind # "recover",
        ttl |-> IF kind \in {"handoff", "attempt"} THEN lease[o].ttl ELSE LeaseDuration]]
  /\ UNCHANGED <<recordVars, claim, worldVars>>

(* Recovery queries the nullifiers after it has read the records.          *)
Confirm(c) ==
  /\ call[c] # NoCall /\ ~call[c].sure
  /\ ~spent
  /\ call' = [call EXCEPT ![c].sure = TRUE]
  /\ UNCHANGED <<recordVars, claim, worldVars>>

(* mutation: metadata is written as the manager merged it *)
KeepsNothing(w) == TRUE

(* assertReservationEvidencePatchMonotonic on metadata; a renewal has none.*)
KeepsEvidence(w) == w.kind = "renew" \/ mark[w.op] \cap Protected \subseteq w.mark

Blocked(o) == \E other \in Op \ {o} : status[other] \in Active \cup {"ConfirmedSpent"}

(* mutation: the status compared, the manager's checks are trusted *)
TrustsTheCaller(m, w) ==
  /\ status[w.op] = w.from
  /\ w.kind = "renew" => w.ttl > 0 /\ lease[w.op].ttl <= w.ttl
  /\ Target(w.kind, w.from) \in Active => ~Blocked(w.op)
  /\ KeepsEvidence(w)

(* mutation: the note is looked at when the operation is created only *)
IgnoresOthers(m, w) ==
  /\ status[w.op] = w.from
  /\ Legal(m, w.op, w.kind)
  /\ w.kind = "renew" => w.ttl > 0 /\ lease[w.op].ttl <= w.ttl
  /\ KeepsEvidence(w)

(* What the store checks again, on the record as it is now.                *)
Accepts(m, w) ==
  /\ status[w.op] = w.from
  /\ Legal(m, w.op, w.kind)
  /\ w.kind = "renew" => w.ttl > 0 /\ lease[w.op].ttl <= w.ttl
  /\ w.kind = "prove" => w.ttl > 0
  /\ w.kind \in {"failed", "recover"} => w.count = count[w.op]
  /\ Target(w.kind, w.from) \in Active => ~Blocked(w.op)
  /\ KeepsEvidence(w)

CountAfter(w) ==
  IF w.kind = "attempt" THEN w.count + 1
  ELSE IF w.kind = "included" THEN 1
  ELSE count[w.op]

Commit(c) ==
  LET w == call[c]
      o == w.op
      m == ManagerOf[c]
      to == Target(w.kind, w.from)
  IN  /\ w # NoCall /\ w.sure
      /\ Accepts(m, w)
      /\ status' = [status EXCEPT ![o] = to]
      /\ lease' = [lease EXCEPT ![o] =
           IF to \in {"Proving", "ProofReady"} THEN [owner |-> m, ttl |-> w.ttl] ELSE NoLease]
      /\ count' = [count EXCEPT ![o] = CountAfter(w)]
      /\ inFlight' = [inFlight EXCEPT ![o] =
           w.kind = "attempt" \/ (@ /\ to = "ProofReady")]
      /\ mark' = [mark EXCEPT ![o] = IF w.kind = "renew" THEN @ ELSE w.mark \cup Adds(w.kind)]
      /\ armed' = IF w.kind = "attempt" THEN armed \cup {o} ELSE armed
      /\ call' = [call EXCEPT ![c] = NoCall]
      /\ UNCHANGED <<claim, net, spent>>

Throw(c) ==
  /\ call[c] # NoCall
  /\ IF call[c].sure THEN ~Accepts(ManagerOf[c], call[c])
                      ELSE spent
  /\ call' = [call EXCEPT ![c] = NoCall]
  /\ UNCHANGED <<recordVars, claim, worldVars>>

(* createReservationBatch and releaseReservationBatch are the store's own. *)
Create(m, o) ==
  /\ status[o] = NoRecord /\ ~Blocked(o)
  /\ status' = [status EXCEPT ![o] = "Reserved"]
  /\ claim' = [claim EXCEPT ![m] = @ \cup {o}]
  /\ UNCHANGED <<lease, count, inFlight, mark, call, worldVars>>

Release(o) ==
  /\ status[o] = "Reserved"
  /\ status' = [status EXCEPT ![o] = "Released"]
  /\ lease' = [lease EXCEPT ![o] = NoLease]
  /\ UNCHANGED <<count, inFlight, mark, claim, call, worldVars>>

------------------------------------------------------------------------------
(* The chain, the clock and crashes.                                       *)

Send(o) ==
  /\ net[o] = "none" /\ (o \in armed \/ "handed" \in mark[o])
  /\ \E fate \in {"sent"} \cup (IF o \in armed THEN {"refused"} ELSE {}) :
       net' = [net EXCEPT ![o] = fate]
  /\ armed' = armed \ {o}
  /\ UNCHANGED <<recordVars, claim, call, spent>>

Settle(o) ==
  /\ net[o] = "sent"
  /\ \/ ~spent /\ spent' = TRUE /\ net' = [net EXCEPT ![o] = "included"]
     \/ UNCHANGED spent /\ net' = [net EXCEPT ![o] = "failed"]
  /\ UNCHANGED <<recordVars, claim, call, armed>>

SpendElsewhere ==
  /\ ~spent /\ spent' = TRUE
  /\ UNCHANGED <<recordVars, claim, call, armed, net>>

Less(k) == IF k = 0 THEN 0 ELSE k - 1

Tick ==
  /\ \E o \in Op : lease[o].ttl > 0
  /\ lease' = [o \in Op |-> [lease[o] EXCEPT !.ttl = Less(@)]]
  /\ call' = [c \in Caller |->
       IF call[c] = NoCall THEN NoCall ELSE [call[c] EXCEPT !.ttl = Less(@)]]
  /\ UNCHANGED <<status, count, inFlight, mark, claim, worldVars>>

Crash(m) ==
  /\ claim[m] # {}
  /\ armed' = armed \ claim[m]
  /\ claim' = [claim EXCEPT ![m] = {}]
  /\ call' = [c \in Caller |-> IF ManagerOf[c] = m THEN NoCall ELSE call[c]]
  /\ UNCHANGED <<recordVars, net, spent>>

CallStep(c) == (\E o \in Op, kind \in Asked : Read(c, o, kind)) \/ Confirm(c) \/ Commit(c) \/ Throw(c)

Next ==
  \/ \E c \in Caller : CallStep(c)
  \/ \E m \in Manager : Crash(m) \/ \E o \in Op : Create(m, o)
  \/ \E o \in Op : Release(o) \/ Send(o) \/ Settle(o)
  \/ SpendElsewhere \/ Tick

Spec == Init /\ [][Next]_vars

------------------------------------------------------------------------------
(* The variables keep their ranges. *)
Pending ==
  [op : Op, kind : Kind, from : Status, mark : SUBSET Mark, count : 0 .. 1,
   sure : BOOLEAN, ttl : 0 .. LeaseDuration]

TypeOK ==
  /\ status \in [Op -> Status \cup {NoRecord}]
  /\ lease \in [Op -> [owner : Manager \cup {NoManager}, ttl : 0 .. LeaseDuration]]
  /\ count \in [Op -> 0 .. 1] /\ inFlight \in [Op -> BOOLEAN]
  /\ mark \in [Op -> SUBSET Mark] /\ claim \in [Manager -> SUBSET Op]
  /\ call \in [Caller -> Pending \cup {NoCall}]
  /\ armed \subseteq Op /\ spent \in BOOLEAN
  /\ net \in [Op -> {"none", "sent", "refused", "included", "failed"}]

(* A handoff and an attempt, or two attempts, may both have read a record  *)
(* none had touched, and both leave its status as it is: the payload still *)
(* crosses one boundary (assertManagedBroadcastAttemptMutation).           *)
OneBoundary ==
  \A o \in Op : ~("handed" \in mark[o] /\ "attempt" \in mark[o])

(* No stale write takes back what recovery relies on.                      *)
EvidenceKept ==
  [][\A o \in Op :
       /\ mark[o] \cap Protected \subseteq mark'[o]
       /\ count[o] <= count'[o]
       /\ status[o] = "ConfirmedSpent" => status'[o] = "ConfirmedSpent"]_vars

(* A decision on old records never lets go of a payload that has paid or   *)
(* may still pay: one a caller is about to send, a relay has, or a node.   *)
MayPay(o) ==
  o \in armed \/ net[o] \in {"sent", "included"} \/ ("handed" \in mark[o] /\ net[o] = "none")

LivePayloadIsHeld ==
  \A o \in Op :
    MayPay(o) =>
      \/ status[o] \in {"ProofReady", "Submitted", "Unknown", "ManualReview", "ConfirmedSpent"}
      \/ "approved" \in mark[o]

(* Recovery of an expired attempt commits on records read before its query *)
(* of the nullifiers; what it settles is an attempt that has failed.       *)
RecoveredWasAttempted ==
  \A o \in Op : "authoritative" \in mark[o] => "attempt" \in mark[o] /\ net[o] = "failed"

(* Three ways a snapshot could cost a payment its note.                    *)
SnapshotsAreSafe == TypeOK /\ OneBoundary /\ LivePayloadIsHeld /\ RecoveredWasAttempted

HolderOfNote ==
  IF \E o \in Op : status[o] = "ConfirmedSpent" THEN Spent
  ELSE IF \E o \in Op : status[o] \in Active THEN CHOOSE o \in Op : status[o] \in Active
  ELSE Free

Ownership == INSTANCE NoteOwnership WITH Note <- {"note"}, holder <- [n \in {"note"} |-> HolderOfNote]

(* Deciding on a snapshot and committing by compare-and-set still gives    *)
(* note ownership: two operations are never both let through.              *)
ImplementsOwnership == Ownership!Spec
==============================================================================

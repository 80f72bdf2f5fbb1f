-------------------------- MODULE ManagerCallsProofs --------------------------
(***************************************************************************)
(* Deciding on a snapshot and committing by compare-and-set is safe for    *)
(* every number of managers, calls and operations.                         *)
(***************************************************************************)
EXTENDS ManagerCalls, TLAPS

(* What a call under way has read is not ahead of the records, and what it *)
(* knows of the chain is final.                                            *)
Fits(c) ==
  LET w == call[c]
  IN  /\ w.mark \cap Protected \subseteq mark[w.op]
      /\ w.count <= count[w.op]
      /\ w.kind = "rejected" => net[w.op] = "refused"
      /\ w.kind \in {"failed", "recover"} => net[w.op] = "failed"

CallsFit == \A c \in Caller : call[c] # NoCall => Fits(c)

(* A payload is sent only past a mark, and once.                           *)
Sound(o) ==
  /\ "attempt" \in mark[o] => count[o] = 1
  /\ inFlight[o] => "attempt" \in mark[o]
  /\ o \in armed => "attempt" \in mark[o] /\ net[o] = "none"
  /\ net[o] # "none" => {"attempt", "handed"} \cap mark[o] # {}
  /\ ~("handed" \in mark[o] /\ "attempt" \in mark[o])
  /\ MayPay(o) =>
       \/ status[o] \in {"ProofReady", "Submitted", "Unknown", "ManualReview", "ConfirmedSpent"}
       \/ "approved" \in mark[o]
  /\ "authoritative" \in mark[o] => "attempt" \in mark[o] /\ net[o] = "failed"

IInv == TypeOK /\ CallsFit /\ \A o \in Op : Sound(o)

------------------------------------------------------------------------------
(* The kinds of call.                                                      *)

LEMMA LegalStatus ==
  ASSUME NEW m, NEW o, NEW kind \in Kind, Legal(m, o, kind)
  PROVE  status[o] \in Status \ {"ConfirmedSpent"}
  BY DEF Legal, Kind, Status, Active, CanTransition, AllowedTransitions

LEMMA TargetStatus ==
  ASSUME NEW kind \in Kind, NEW from \in Status
  PROVE  Target(kind, from) \in Status
  BY DEF Target, Kind, Status

LEMMA AddsMarks ==
  ASSUME NEW kind \in Kind
  PROVE  Adds(kind) \in SUBSET Mark
  BY DEF Adds, Kind, Mark, Protected

(* What each kind finds on the record it is committed to, and leaves there.*)
LEMMA LegalFinds ==
  ASSUME TypeOK, NEW m, NEW o \in Op, NEW kind \in Kind, Legal(m, o, kind)
  PROVE  /\ kind \in {"handoff", "attempt", "included"} => count[o] = 0 /\ ~inFlight[o]
         /\ kind = "attempt" => "handed" \notin mark[o]
         /\ kind = "recover" => inFlight[o]
         /\ kind \in {"renew", "handoff", "attempt"} => status[o] \in Active
         /\ kind = "replan" => \/ status[o] \in {"Reserved", "Proving"}
                               \/ count[o] = 0 /\ ~inFlight[o] /\ "handed" \notin mark[o]
         /\ kind = "prove" => status[o] = "Reserved"
         /\ kind = "revive" => status[o] = "ReplanRequired"
         /\ kind \in {"handoff", "attempt"} => status[o] = "ProofReady"
<1>1. kind = "handoff" => count[o] = 0 /\ ~inFlight[o] /\ status[o] = "ProofReady"
  BY DEF Legal
<1>2. kind = "attempt" => /\ count[o] = 0 /\ ~inFlight[o] /\ status[o] = "ProofReady"
                          /\ "handed" \notin mark[o]
  BY DEF Legal
<1>3. kind = "included" => count[o] = 0 /\ ~inFlight[o]
  BY DEF Legal
<1>4. kind = "recover" => inFlight[o]
  BY DEF Legal
<1>5. kind = "renew" => status[o] \in Active
  BY DEF Legal
<1>6. kind = "replan" => \/ status[o] \in {"Reserved", "Proving"}
                         \/ ~Broadcasted(o) /\ count[o] \in Nat
  BY DEF Legal, TypeOK
<1>7. kind = "prove" => status[o] = "Reserved"
  BY DEF Legal
<1>8. kind = "revive" => status[o] = "ReplanRequired"
  BY DEF Legal
<1>9. ~Broadcasted(o) /\ count[o] \in Nat => count[o] = 0 /\ ~inFlight[o] /\ "handed" \notin mark[o]
  BY DEF Broadcasted
<1>10. "ProofReady" \in Active
  BY DEF Active
<1>11. QED
  BY <1>1, <1>2, <1>3, <1>4, <1>5, <1>6, <1>7, <1>8, <1>9, <1>10

LEMMA CommitFields ==
  ASSUME TypeOK, NEW c \in Caller, Fits(c), Commit(c)
  PROVE  LET w == call[c]
             o == w.op
             to == Target(w.kind, status[o])
         IN  /\ w \in Pending /\ o \in Op /\ w.kind \in Kind
             /\ Legal(ManagerOf[c], o, w.kind)
             /\ status' = [status EXCEPT ![o] = to] /\ to \in Status
             /\ count' = [count EXCEPT ![o] = IF w.kind \in {"attempt", "included"} THEN 1 ELSE @]
             /\ inFlight' = [inFlight EXCEPT ![o] = w.kind = "attempt" \/ (@ /\ to = "ProofReady")]
             /\ mark' \in [Op -> SUBSET Mark]
             /\ \A p \in Op \ {o} : mark'[p] = mark[p]
             /\ mark'[o] \cap Protected = (mark[o] \cup Adds(w.kind)) \cap Protected
<1> DEFINE w == call[c]
           o == w.op
           m == ManagerOf[c]
           to == Target(w.kind, w.from)
<1>1. w \in Pending
  BY DEF TypeOK, Commit
<1>2. o \in Op /\ w.kind \in Kind /\ w.from \in Status /\ w.mark \in SUBSET Mark /\ w.count \in 0 .. 1
  BY <1>1 DEF Pending
<1>3. Accepts(m, w) /\ w # NoCall
  BY DEF Commit
<1>4. status[o] = w.from /\ Legal(m, o, w.kind)
  BY <1>3 DEF Accepts
<1>5. to \in Status
  BY <1>2, TargetStatus
<1>6. status' = [status EXCEPT ![o] = to]
  BY DEF Commit
<1>7. inFlight' = [inFlight EXCEPT ![o] = w.kind = "attempt" \/ (@ /\ to = "ProofReady")]
  BY DEF Commit
<1>8. count' = [count EXCEPT ![o] = IF w.kind \in {"attempt", "included"} THEN 1 ELSE @]
  <2>1. count' = [count EXCEPT ![o] = CountAfter(w)]
    BY DEF Commit
  <2>2. w.count <= count[o] /\ count[o] \in 0 .. 1
    BY <1>2 DEF Fits, TypeOK
  <2>3. w.kind = "attempt" => w.count = 0
    BY <1>2, <1>4, <2>2, LegalFinds
  <2>4. CountAfter(w) = IF w.kind \in {"attempt", "included"} THEN 1 ELSE count[o]
    BY <2>3 DEF CountAfter
  <2>5. QED
    BY <2>1, <2>4
<1>9. /\ mark' \in [Op -> SUBSET Mark]
      /\ \A p \in Op \ {o} : mark'[p] = mark[p]
      /\ mark'[o] \cap Protected = (mark[o] \cup Adds(w.kind)) \cap Protected
  <2>1. mark' = [mark EXCEPT ![o] = IF w.kind = "renew" THEN @ ELSE w.mark \cup Adds(w.kind)]
    BY DEF Commit
  <2>2. mark \in [Op -> SUBSET Mark] /\ Adds(w.kind) \in SUBSET Mark
    BY <1>2, AddsMarks DEF TypeOK
  <2>3. w.kind = "renew" => Adds(w.kind) = {}
    BY DEF Adds
  <2>4. w.kind # "renew" => mark[o] \cap Protected \subseteq w.mark
    BY <1>3 DEF Accepts, KeepsEvidence
  <2>5. w.mark \cap Protected \subseteq mark[o]
    BY DEF Fits
  <2>6. QED
    BY <1>2, <2>1, <2>2, <2>3, <2>4, <2>5
<1>10. QED
  BY <1>1, <1>2, <1>4, <1>5, <1>6, <1>7, <1>8, <1>9

------------------------------------------------------------------------------
(* A commit keeps the invariant.                                           *)

LEMMA CommitType ==
  ASSUME TypeOK, NEW c \in Caller, Fits(c), Commit(c)
  PROVE  TypeOK'
<1> DEFINE w == call[c]
           o == w.op
           m == ManagerOf[c]
           to == Target(w.kind, status[o])
<1>1. /\ w \in Pending /\ o \in Op /\ w.kind \in Kind
      /\ status' = [status EXCEPT ![o] = to] /\ to \in Status
      /\ count' = [count EXCEPT ![o] = IF w.kind \in {"attempt", "included"} THEN 1 ELSE @]
      /\ inFlight' = [inFlight EXCEPT ![o] = w.kind = "attempt" \/ (@ /\ to = "ProofReady")]
      /\ mark' \in [Op -> SUBSET Mark]
  BY CommitFields
<1>2. status' \in [Op -> Status \cup {NoRecord}]
  BY <1>1 DEF TypeOK
<1>3. lease' \in [Op -> [owner : Manager \cup {NoManager}, ttl : 0 .. LeaseDuration]]
  <2>1. m \in Manager /\ w.ttl \in 0 .. LeaseDuration
    BY <1>1, CallerAssumption DEF Pending
  <2>2. NoLease \in [owner : Manager \cup {NoManager}, ttl : 0 .. LeaseDuration]
    BY CallerAssumption DEF NoLease
  <2>3. lease' = [lease EXCEPT ![o] =
          IF Target(w.kind, w.from) \in {"Proving", "ProofReady"}
          THEN [owner |-> m, ttl |-> w.ttl] ELSE NoLease]
    BY DEF Commit
  <2>4. QED
    BY <2>1, <2>2, <2>3 DEF TypeOK
<1>4. count' \in [Op -> 0 .. 1] /\ inFlight' \in [Op -> BOOLEAN]
  BY <1>1 DEF TypeOK
<1>5. call' \in [Caller -> Pending \cup {NoCall}] /\ armed' \subseteq Op
  BY <1>1 DEF TypeOK, Commit
<1>6. QED
  BY <1>1, <1>2, <1>3, <1>4, <1>5 DEF TypeOK, Commit

LEMMA CommitSound ==
  ASSUME TypeOK, NEW c \in Caller, Fits(c), Commit(c), \A p \in Op : Sound(p), NEW p \in Op
  PROVE  Sound(p)'
<1> DEFINE w == call[c]
           o == w.op
           kind == w.kind
           to == Target(kind, status[o])
<1>1. /\ o \in Op /\ kind \in Kind /\ Legal(ManagerOf[c], o, kind)
      /\ status' = [status EXCEPT ![o] = to]
      /\ count' = [count EXCEPT ![o] = IF kind \in {"attempt", "included"} THEN 1 ELSE @]
      /\ inFlight' = [inFlight EXCEPT ![o] = kind = "attempt" \/ (@ /\ to = "ProofReady")]
      /\ \A q \in Op \ {o} : mark'[q] = mark[q]
      /\ mark'[o] \cap Protected = (mark[o] \cup Adds(kind)) \cap Protected
  BY CommitFields
<1>2. /\ armed' = IF kind = "attempt" THEN armed \cup {o} ELSE armed
      /\ net' = net
  BY DEF Commit
<1>3. CASE p # o
  BY <1>1, <1>2, <1>3 DEF Sound, MayPay, TypeOK
<1>4. CASE p = o
  <2>1. /\ status'[o] = to
        /\ count'[o] = IF kind \in {"attempt", "included"} THEN 1 ELSE count[o]
        /\ inFlight'[o] = (kind = "attempt" \/ (inFlight[o] /\ to = "ProofReady"))
    BY <1>1 DEF TypeOK
  <2>2. \A k \in {"handed", "attempt", "approved", "authoritative"} :
          k \in mark'[o] <=> k \in mark[o] \/ k \in Adds(kind)
    BY <1>1 DEF Protected
  <2>3. /\ "handed" \in Adds(kind) <=> kind = "handoff"
        /\ "attempt" \in Adds(kind) <=> kind = "attempt"
        /\ "approved" \in Adds(kind) <=> kind = "resolve"
        /\ "authoritative" \in Adds(kind) <=> kind = "recover"
    BY <1>1 DEF Adds, Kind
  <2>4. Sound(o) /\ count[o] \in 0 .. 1
    BY <1>1 DEF TypeOK
  <2>5. /\ kind \in {"handoff", "attempt", "included"} => count[o] = 0 /\ ~inFlight[o]
        /\ kind = "attempt" => "handed" \notin mark[o]
        /\ kind = "recover" => inFlight[o]
    BY <1>1, LegalFinds
  <2>6. kind \in {"failed", "recover"} => net[o] = "failed"
    BY DEF Fits
  <2>7. kind = "rejected" => net[o] = "refused"
    BY DEF Fits
  <2>8. "attempt" \in mark'[o] => count'[o] = 1
    BY <2>1, <2>2, <2>3, <2>4 DEF Sound
  <2>9. inFlight'[o] => "attempt" \in mark'[o]
    BY <2>1, <2>2, <2>3, <2>4 DEF Sound
  <2>10. o \in armed' => "attempt" \in mark'[o] /\ net'[o] = "none"
    BY <1>2, <2>2, <2>3, <2>4, <2>5 DEF Sound
  <2>11. net'[o] # "none" => {"attempt", "handed"} \cap mark'[o] # {}
    BY <1>2, <2>2, <2>4 DEF Sound
  <2>12. ~("handed" \in mark'[o] /\ "attempt" \in mark'[o])
    BY <2>2, <2>3, <2>4, <2>5 DEF Sound
  <2>13. "authoritative" \in mark'[o] => "attempt" \in mark'[o] /\ net'[o] = "failed"
    BY <1>2, <2>2, <2>3, <2>4, <2>5, <2>6 DEF Sound
  <2>14. MayPay(p)' =>
           \/ status'[o] \in {"ProofReady", "Submitted", "Unknown", "ManualReview", "ConfirmedSpent"}
           \/ "approved" \in mark'[o]
    <3>1. CASE kind \in {"ready", "submitted", "included", "unknown", "review", "spent"}
      BY <2>1, <3>1 DEF Target
    <3>2. CASE kind \in {"handoff", "attempt"}
      <4>1. status[o] = "ProofReady"
        BY <1>1, <3>2, LegalFinds
      <4>2. to = status[o]
        BY <3>2 DEF Target
      <4>3. QED
        BY <2>1, <4>1, <4>2
    <3>3. CASE kind \in {"rejected", "failed", "recover"}
      <4>1. net'[o] \notin {"none", "sent", "included"}
        BY <1>2, <2>6, <2>7, <3>3
      <4>2. QED
        BY <1>4, <2>10, <4>1 DEF MayPay
    <3>4. CASE kind = "resolve"
      BY <2>2, <2>3, <3>4
    <3>5. CASE kind \in {"renew", "prove", "revive", "replan"}
      <4>1. MayPay(p)' => MayPay(o)
        BY <1>2, <1>4, <2>2, <2>3, <3>5 DEF MayPay
      <4>2. CASE kind = "renew"
        <5>1. to = status[o]
          BY <4>2 DEF Target
        <5>2. QED
          BY <2>1, <2>2, <2>4, <4>1, <5>1 DEF Sound
      <4>3. CASE status[o] \in {"Reserved", "Proving", "ReplanRequired"}
        BY <2>2, <2>4, <4>1, <4>3 DEF Sound
      <4>4. CASE count[o] = 0 /\ ~inFlight[o] /\ "handed" \notin mark[o]
        <5>1. "attempt" \notin mark[o]
          BY <2>4, <4>4 DEF Sound
        <5>2. ~MayPay(o)
          BY <2>4, <4>4, <5>1 DEF Sound, MayPay
        <5>3. QED
          BY <4>1, <5>2
      <4>5. QED
        BY <1>1, <3>5, <4>2, <4>3, <4>4, LegalFinds
    <3>6. QED
      BY <1>1, <3>1, <3>2, <3>3, <3>4, <3>5 DEF Kind
  <2>15. QED
    BY <1>4, <2>8, <2>9, <2>10, <2>11, <2>12, <2>13, <2>14 DEF Sound
<1>5. QED
  BY <1>3, <1>4

(* The records a call has read are only overtaken.                         *)
LEMMA CommitFits ==
  ASSUME TypeOK, NEW c \in Caller, Fits(c), Commit(c), NEW d \in Caller,
         call'[d] # NoCall, Fits(d)
  PROVE  Fits(d)'
<1> DEFINE w == call[c]
           o == w.op
<1>1. /\ o \in Op
      /\ count' = [count EXCEPT ![o] = IF w.kind \in {"attempt", "included"} THEN 1 ELSE @]
      /\ \A q \in Op \ {o} : mark'[q] = mark[q]
      /\ mark'[o] \cap Protected = (mark[o] \cup Adds(w.kind)) \cap Protected
  BY CommitFields
<1>2. call'[d] = call[d] /\ call[d] \in Pending /\ net' = net
  BY DEF Commit, TypeOK
<1>3. call[d].op \in Op /\ call[d].count \in 0 .. 1
  BY <1>2 DEF Pending
<1>4. \A q \in Op : mark[q] \cap Protected \subseteq mark'[q] /\ count[q] <= count'[q]
  BY <1>1 DEF TypeOK
<1>5. QED
  <2>1. call[d].mark \cap Protected \subseteq mark'[call[d].op]
    BY <1>3, <1>4 DEF Fits
  <2>2. count[call[d].op] \in 0 .. 1 /\ count'[call[d].op] \in 0 .. 1
    BY <1>1, <1>3 DEF TypeOK
  <2>3. call[d].count <= count'[call[d].op]
    BY <1>3, <1>4, <2>2 DEF Fits
  <2>4. QED
    BY <1>2, <2>1, <2>3 DEF Fits

------------------------------------------------------------------------------
(* So do the other steps.                                                  *)

LEMMA ReadStep ==
  ASSUME IInv, NEW c \in Caller, NEW o \in Op, NEW kind \in Asked, Read(c, o, kind)
  PROVE  IInv'
<1> DEFINE new == [op |-> o, kind |-> kind, from |-> status[o], mark |-> mark[o],
                   count |-> count[o], sure |-> kind # "recover",
                   ttl |-> IF kind \in {"handoff", "attempt"} THEN lease[o].ttl
                           ELSE LeaseDuration]
<1>1. kind \in Kind
  BY AskedAssumption
<1>2. status[o] \in Status
  BY <1>1, LegalStatus DEF Read, Decides, Status
<1>3. call' = [call EXCEPT ![c] = new]
  BY DEF Read
<1>4. new \in Pending
  BY <1>1, <1>2, CallerAssumption DEF IInv, TypeOK, Pending
<1>5. TypeOK'
  BY <1>3, <1>4 DEF IInv, TypeOK, Read, recordVars, worldVars
<1>6. ASSUME NEW d \in Caller, call'[d] # NoCall
      PROVE  Fits(d)'
  <2>1. CASE d = c
    <3>1. call'[d] = new
      BY <1>3, <2>1 DEF IInv, TypeOK
    <3>2. /\ kind = "rejected" => net[o] = "refused"
          /\ kind \in {"failed", "recover"} => net[o] = "failed"
      BY DEF Read, Evident
    <3>3. new.mark = mark[o] /\ new.count = count[o] /\ new.op = o /\ new.kind = kind
      OBVIOUS
    <3>4. count[o] <= count[o]
      BY DEF IInv, TypeOK
    <3>5. net' = net /\ mark' = mark /\ count' = count
      BY DEF Read, recordVars, worldVars
    <3> HIDE DEF new
    <3>6. QED
      BY <3>1, <3>2, <3>3, <3>4, <3>5 DEF Fits
  <2>2. CASE d # c
    BY <1>3, <1>6, <2>2 DEF IInv, TypeOK, CallsFit, Fits, Read, recordVars, worldVars
  <2>3. QED
    BY <2>1, <2>2
<1>7. ASSUME NEW p \in Op
      PROVE  Sound(p)'
  BY DEF IInv, Sound, MayPay, Read, recordVars, worldVars
<1>8. QED
  BY <1>5, <1>6, <1>7 DEF IInv, CallsFit

LEMMA ConfirmStep ==
  ASSUME IInv, NEW c \in Caller, Confirm(c)
  PROVE  IInv'
<1>1. call' = [call EXCEPT ![c] = [call[c] EXCEPT !.sure = TRUE]] /\ call[c] \in Pending
  BY DEF Confirm, IInv, TypeOK
<1>2. [call[c] EXCEPT !.sure = TRUE] \in Pending
  BY <1>1 DEF Pending
<1>3. TypeOK'
  BY <1>1, <1>2 DEF IInv, TypeOK, Confirm, recordVars, worldVars
<1>4. ASSUME NEW d \in Caller, call'[d] # NoCall
      PROVE  Fits(d)'
  <2>1. /\ call[d] # NoCall
        /\ call'[d] = IF d = c THEN [call[d] EXCEPT !.sure = TRUE] ELSE call[d]
    BY <1>1, <1>4 DEF IInv, TypeOK, Confirm
  <2>2. call[d] \in Pending
    BY <2>1 DEF IInv, TypeOK
  <2>3. /\ call'[d].op = call[d].op /\ call'[d].mark = call[d].mark
        /\ call'[d].count = call[d].count /\ call'[d].kind = call[d].kind
    BY <2>1, <2>2 DEF Pending
  <2>4. QED
    BY <2>1, <2>3 DEF IInv, CallsFit, Fits, Confirm, recordVars, worldVars
<1>5. ASSUME NEW p \in Op
      PROVE  Sound(p)'
  BY DEF IInv, Sound, MayPay, Confirm, recordVars, worldVars
<1>6. QED
  BY <1>3, <1>4, <1>5 DEF IInv, CallsFit

(* A step that only ends calls and leaves the rest as it is.               *)
LEMMA ThrowStep ==
  ASSUME IInv, NEW c \in Caller, Throw(c)
  PROVE  IInv'
<1>1. call' = [call EXCEPT ![c] = NoCall] /\ UNCHANGED <<recordVars, claim, worldVars>>
  BY DEF Throw
<1>2. TypeOK'
  BY <1>1 DEF IInv, TypeOK, recordVars, worldVars
<1>3. ASSUME NEW d \in Caller, call'[d] # NoCall
      PROVE  Fits(d)'
  BY <1>1, <1>3 DEF IInv, TypeOK, CallsFit, Fits, recordVars, worldVars
<1>4. ASSUME NEW p \in Op
      PROVE  Sound(p)'
  BY <1>1 DEF IInv, Sound, MayPay, recordVars, worldVars
<1>5. QED
  BY <1>2, <1>3, <1>4 DEF IInv, CallsFit

LEMMA CommitStep ==
  ASSUME IInv, NEW c \in Caller, Commit(c)
  PROVE  IInv'
<1>1. TypeOK /\ Fits(c) /\ \A p \in Op : Sound(p)
  BY DEF IInv, CallsFit, Commit
<1>2. ASSUME NEW d \in Caller, call'[d] # NoCall
      PROVE  Fits(d)'
  <2>1. call[d] # NoCall
    BY <1>2 DEF Commit, IInv, TypeOK
  <2>2. QED
    BY <1>1, <1>2, <2>1, CommitFits DEF IInv, CallsFit
<1>3. QED
  BY <1>1, <1>2, CommitType, CommitSound DEF IInv, CallsFit

LEMMA CreateStep ==
  ASSUME IInv, NEW m \in Manager, NEW o \in Op, Create(m, o)
  PROVE  IInv'
<1>1. TypeOK'
  BY DEF IInv, TypeOK, Create, worldVars, Status
<1>2. CallsFit'
  BY DEF IInv, CallsFit, Fits, Create, worldVars
<1>3. ASSUME NEW p \in Op
      PROVE  Sound(p)'
  BY DEF IInv, TypeOK, Sound, MayPay, Create, worldVars, NoRecord
<1>4. QED
  BY <1>1, <1>2, <1>3 DEF IInv

LEMMA ReleaseStep ==
  ASSUME IInv, NEW o \in Op, Release(o)
  PROVE  IInv'
<1>1. TypeOK'
  <2>1. NoLease \in [owner : Manager \cup {NoManager}, ttl : 0 .. LeaseDuration]
    BY CallerAssumption DEF NoLease
  <2>2. QED
    BY <2>1 DEF IInv, TypeOK, Release, worldVars, Status
<1>2. CallsFit'
  BY DEF IInv, CallsFit, Fits, Release, worldVars
<1>3. ASSUME NEW p \in Op
      PROVE  Sound(p)'
  BY DEF IInv, TypeOK, Sound, MayPay, Release, worldVars
<1>4. QED
  BY <1>1, <1>2, <1>3 DEF IInv

(* What the network says of a payload is final but for none and sent.      *)
LEMMA NetStep ==
  ASSUME IInv, NEW o \in Op, Send(o) \/ Settle(o)
  PROVE  IInv'
<1>1. /\ net' \in [Op -> {"none", "sent", "refused", "included", "failed"}]
      /\ \A p \in Op : net[p] \in {"refused", "failed"} => net'[p] = net[p]
      /\ \A p \in Op \ {o} : net'[p] = net[p]
      /\ net'[o] # "none" /\ (net[o] # "none" \/ o \in armed \/ "handed" \in mark[o])
      /\ net'[o] \in {"sent", "included"} =>
           net[o] = "sent" \/ (net[o] = "none" /\ (o \in armed \/ "handed" \in mark[o]))
  BY DEF Send, Settle, IInv, TypeOK
<1>2. armed' = armed \ {o} \/ (armed' = armed /\ net[o] # "none")
  BY DEF Send, Settle
<1>3. UNCHANGED <<recordVars, claim, call>>
  BY DEF Send, Settle
<1>4. TypeOK'
  BY <1>1, <1>2, <1>3 DEF IInv, TypeOK, recordVars, Send, Settle
<1>5. ASSUME NEW d \in Caller, call'[d] # NoCall
      PROVE  Fits(d)'
  <2>1. call[d] # NoCall /\ call[d].op \in Op
    BY <1>3, <1>5 DEF IInv, TypeOK, Pending
  <2>2. QED
    BY <1>1, <1>3, <2>1 DEF IInv, CallsFit, Fits, recordVars
<1>6. ASSUME NEW p \in Op
      PROVE  Sound(p)'
  <2>1. Sound(p) /\ Sound(o)
    BY DEF IInv
  <2>2. MayPay(p)' => MayPay(p)
    BY <1>1, <1>2, <1>3 DEF MayPay, recordVars
  <2>3. QED
    BY <1>1, <1>2, <1>3, <2>1, <2>2 DEF Sound, recordVars
<1>7. QED
  BY <1>4, <1>5, <1>6 DEF IInv, CallsFit

LEMMA TickStep ==
  ASSUME IInv, Tick
  PROVE  IInv'
<1>1. \A k \in 0 .. LeaseDuration : Less(k) \in 0 .. LeaseDuration
  BY CallerAssumption DEF Less
<1>2. ASSUME NEW d \in Caller, call[d] # NoCall
      PROVE  /\ call'[d] \in Pending
             /\ call'[d].op = call[d].op /\ call'[d].mark = call[d].mark
             /\ call'[d].count = call[d].count /\ call'[d].kind = call[d].kind
  <2>1. call[d] \in Pending /\ call'[d] = [call[d] EXCEPT !.ttl = Less(@)]
    BY <1>2 DEF IInv, TypeOK, Tick
  <2>2. QED
    BY <1>1, <2>1 DEF Pending
<1>3. \A d \in Caller : call[d] = NoCall => call'[d] = NoCall
  BY DEF Tick
<1>4. TypeOK'
  <2>1. \A o \in Op : [lease[o] EXCEPT !.ttl = Less(@)]
                        \in [owner : Manager \cup {NoManager}, ttl : 0 .. LeaseDuration]
    BY <1>1 DEF IInv, TypeOK
  <2>2. lease' \in [Op -> [owner : Manager \cup {NoManager}, ttl : 0 .. LeaseDuration]]
    BY <2>1 DEF Tick
  <2>3. call' = [d \in Caller |-> call'[d]]
    BY DEF Tick
  <2>4. call' \in [Caller -> Pending \cup {NoCall}]
    BY <1>2, <1>3, <2>3
  <2>5. QED
    BY <2>2, <2>4 DEF IInv, TypeOK, Tick, worldVars
<1>5. ASSUME NEW d \in Caller, call'[d] # NoCall
      PROVE  Fits(d)'
  BY <1>2, <1>3, <1>5 DEF IInv, CallsFit, Fits, Tick, worldVars
<1>6. ASSUME NEW p \in Op
      PROVE  Sound(p)'
  BY DEF IInv, Sound, MayPay, Tick, worldVars
<1>7. QED
  BY <1>4, <1>5, <1>6 DEF IInv, CallsFit

LEMMA CrashStep ==
  ASSUME IInv, NEW m \in Manager, Crash(m)
  PROVE  IInv'
<1>1. TypeOK'
  BY DEF IInv, TypeOK, Crash, recordVars
<1>2. CallsFit'
  BY DEF IInv, CallsFit, Fits, Crash, recordVars
<1>3. ASSUME NEW p \in Op
      PROVE  Sound(p)'
  BY DEF IInv, Sound, MayPay, Crash, recordVars
<1>4. QED
  BY <1>1, <1>2, <1>3 DEF IInv

LEMMA SpendElsewhereStep ==
  ASSUME IInv, SpendElsewhere \/ UNCHANGED vars
  PROVE  IInv'
<1>1. UNCHANGED <<recordVars, claim, call, armed, net>> /\ spent' \in BOOLEAN
  BY DEF SpendElsewhere, vars, worldVars, IInv, TypeOK
<1>2. QED
  BY <1>1 DEF IInv, TypeOK, CallsFit, Fits, Sound, MayPay, recordVars

LEMMA NextStep ==
  ASSUME IInv, [Next]_vars
  PROVE  IInv'
<1>1. ASSUME NEW c \in Caller, CallStep(c)
      PROVE  IInv'
  BY <1>1, ReadStep, ConfirmStep, CommitStep, ThrowStep DEF CallStep
<1>2. QED
  BY <1>1, CrashStep, CreateStep, ReleaseStep, NetStep, SpendElsewhereStep, TickStep DEF Next

LEMMA InitIInv == Init => IInv
<1> SUFFICES ASSUME Init PROVE IInv
  OBVIOUS
<1>1. TypeOK
  <2>1. lease \in [Op -> [owner : Manager \cup {NoManager}, ttl : 0 .. LeaseDuration]]
    BY CallerAssumption DEF Init, NoLease
  <2>2. mark \in [Op -> SUBSET Mark] /\ claim \in [Manager -> SUBSET Op]
    BY DEF Init
  <2>3. /\ status \in [Op -> Status \cup {NoRecord}]
        /\ call \in [Caller -> Pending \cup {NoCall}]
        /\ net \in [Op -> {"none", "sent", "refused", "included", "failed"}]
    BY DEF Init
  <2>4. count \in [Op -> 0 .. 1] /\ inFlight \in [Op -> BOOLEAN]
    BY DEF Init
  <2>5. armed \subseteq Op /\ spent \in BOOLEAN
    BY DEF Init
  <2>6. QED
    BY <2>1, <2>2, <2>3, <2>4, <2>5 DEF TypeOK
<1>2. CallsFit
  BY DEF Init, CallsFit
<1>3. \A o \in Op : Sound(o)
  BY DEF Init, Sound, MayPay
<1>4. QED
  BY <1>1, <1>2, <1>3 DEF IInv

(* What every state between the calls' reads and writes keeps.              *)
THEOREM Invariance == Spec => []IInv
<1>1. IInv /\ [Next]_vars => IInv'
  BY NextStep
<1>2. QED
  BY <1>1, InitIInv, PTL DEF Spec

(* No snapshot costs a payment its note: one boundary is crossed, what may *)
(* still pay is held, and what recovery settles had failed.                *)
THEOREM DecisionsOnSnapshotsAreSafe == Spec => []SnapshotsAreSafe
<1>1. IInv => SnapshotsAreSafe
  BY DEF IInv, Sound, SnapshotsAreSafe, OneBoundary, LivePayloadIsHeld, RecoveredWasAttempted
<1>2. QED
  BY <1>1, Invariance, PTL

------------------------------------------------------------------------------
(* No stale write takes evidence back.                                     *)
Keeps(o) ==
  /\ mark[o] \cap Protected \subseteq mark'[o]
  /\ count[o] <= count'[o]
  /\ status[o] = "ConfirmedSpent" => status'[o] = "ConfirmedSpent"

LEMMA CommitKeeps ==
  ASSUME IInv, NEW c \in Caller, Commit(c), NEW p \in Op
  PROVE  Keeps(p)
<1> DEFINE w == call[c]
           o == w.op
<1>1. TypeOK /\ Fits(c)
  BY DEF IInv, CallsFit, Commit
<1>2. /\ o \in Op /\ w.kind \in Kind /\ Legal(ManagerOf[c], o, w.kind)
      /\ status' = [status EXCEPT ![o] = Target(w.kind, status[o])]
      /\ count' = [count EXCEPT ![o] = IF w.kind \in {"attempt", "included"} THEN 1 ELSE @]
      /\ \A q \in Op \ {o} : mark'[q] = mark[q]
      /\ mark'[o] \cap Protected = (mark[o] \cup Adds(w.kind)) \cap Protected
  BY <1>1, CommitFields
<1>3. status[o] # "ConfirmedSpent"
  BY <1>2, LegalStatus
<1>4. mark[p] \cap Protected \subseteq mark'[p]
  BY <1>2
<1>5. count[p] <= count'[p]
  BY <1>1, <1>2 DEF TypeOK
<1>6. status[p] = "ConfirmedSpent" => status'[p] = "ConfirmedSpent"
  BY <1>1, <1>2, <1>3 DEF TypeOK
<1>7. QED
  BY <1>4, <1>5, <1>6 DEF Keeps

(* However calls interleave, no write built on an old snapshot takes back   *)
(* the evidence of a spend, or of a broadcast that may have happened.       *)
THEOREM EvidenceIsKept == Spec => EvidenceKept
<1>1. ASSUME IInv, [Next]_vars, NEW p \in Op
      PROVE  Keeps(p)
  <2>1. CASE UNCHANGED <<count, mark>> /\ (status' = status \/ \E o \in Op :
               status[o] # "ConfirmedSpent" /\ \E s \in Status : status' = [status EXCEPT ![o] = s])
    BY <1>1, <2>1 DEF Keeps, IInv, TypeOK
  <2>2. CASE \E c \in Caller : Commit(c)
    BY <1>1, <2>2, CommitKeeps
  <2>3. CASE \E m \in Manager, o \in Op : Create(m, o)
    BY <2>1, <2>3 DEF Create, Status, NoRecord
  <2>4. CASE \E o \in Op : Release(o)
    BY <2>1, <2>4 DEF Release, Status
  <2>5. CASE UNCHANGED <<status, count, mark>>
    BY <2>1, <2>5
  <2>6. QED
    BY <1>1, <2>2, <2>3, <2>4, <2>5
       DEF Next, CallStep, Read, Confirm, Throw, Send, Settle, SpendElsewhere, Tick, Crash,
           vars, recordVars
<1> DEFINE Kept == \A o \in Op : /\ mark[o] \cap Protected \subseteq mark'[o]
                                 /\ count[o] <= count'[o]
                                 /\ status[o] = "ConfirmedSpent" => status'[o] = "ConfirmedSpent"
<1>2. IInv /\ [Next]_vars => Kept
  BY <1>1 DEF Keeps
<1> HIDE DEF Kept
<1>3. []IInv /\ [][Next]_vars => [][Kept]_vars
  BY <1>2, PTL
<1>4. QED
  BY <1>3, Invariance DEF Spec, EvidenceKept, Kept

------------------------------------------------------------------------------
(* Note ownership.  The note is one: at most one operation locks it, and a *)
(* status that locks it is entered only past Blocked.                      *)
OneLocks == \A o1, o2 \in Op : status[o1] \in Active /\ status[o2] \in Active => o1 = o2

(* The steps seen through status alone.                                    *)
Moves(o, to) ==
  /\ status' = [status EXCEPT ![o] = to]
  /\ to \in Status
  /\ to \in Active => ~Blocked(o)
  /\ status[o] # "ConfirmedSpent"

LEMMA StatusMoves ==
  ASSUME IInv, [Next]_vars
  PROVE  UNCHANGED status \/ \E o \in Op : \E to \in Status : Moves(o, to)
<1>1. ASSUME NEW c \in Caller, Commit(c)
      PROVE  \E o \in Op : \E to \in Status : Moves(o, to)
  <2> DEFINE w == call[c]
  <2>1. TypeOK /\ Fits(c)
    BY <1>1 DEF IInv, CallsFit, Commit
  <2>2. /\ w.op \in Op /\ w.kind \in Kind /\ Legal(ManagerOf[c], w.op, w.kind)
        /\ status' = [status EXCEPT ![w.op] = Target(w.kind, status[w.op])]
        /\ Target(w.kind, status[w.op]) \in Status
    BY <1>1, <2>1, CommitFields
  <2>3. Target(w.kind, status[w.op]) \in Active => ~Blocked(w.op)
    BY <1>1 DEF Commit, Accepts
  <2>4. QED
    BY <2>2, <2>3, LegalStatus DEF Moves
<1>2. ASSUME NEW m \in Manager, NEW o \in Op, Create(m, o)
      PROVE  Moves(o, "Reserved")
  BY <1>2 DEF Create, Moves, Status, NoRecord
<1>3. ASSUME NEW o \in Op, Release(o)
      PROVE  Moves(o, "Released")
  BY <1>3 DEF Release, Moves, Status, Active
<1>4. {"Reserved", "Released"} \subseteq Status
  BY DEF Status
<1>5. QED
  BY <1>1, <1>2, <1>3, <1>4
     DEF Next, CallStep, Read, Confirm, Throw, Send, Settle, SpendElsewhere, Tick, Crash,
         vars, recordVars

LEMMA OneLocksStep ==
  ASSUME IInv, OneLocks, [Next]_vars
  PROVE  OneLocks'
<1>1. CASE UNCHANGED status
  BY <1>1 DEF OneLocks
<1>2. CASE \E o \in Op : \E to \in Status : Moves(o, to)
  BY <1>2 DEF OneLocks, Moves, Blocked, IInv, TypeOK
<1>3. QED
  BY <1>1, <1>2, StatusMoves

LEMMA HolderKnown ==
  ASSUME OneLocks
  PROVE  /\ (\E o \in Op : status[o] = "ConfirmedSpent") => HolderOfNote = Spent
         /\ (\A o \in Op : status[o] # "ConfirmedSpent") =>
              \A o \in Op : status[o] \in Active => HolderOfNote = o
         /\ (\A o \in Op : status[o] \notin Active \cup {"ConfirmedSpent"}) => HolderOfNote = Free
<1>1. ASSUME NEW o \in Op, status[o] \in Active, \A p \in Op : status[p] # "ConfirmedSpent"
      PROVE  HolderOfNote = o
  <2>1. (CHOOSE p \in Op : status[p] \in Active) = o
    BY <1>1 DEF OneLocks
  <2>2. QED
    BY <1>1, <2>1 DEF HolderOfNote
<1>2. QED
  BY <1>1 DEF HolderOfNote

holderBar == [n \in {"note"} |-> HolderOfNote]

LEMMA OwnershipStep ==
  ASSUME IInv, OneLocks, OneLocks', [Next]_vars
  PROVE  [Ownership!Next]_holderBar
<1>1. CASE UNCHANGED status
  BY <1>1 DEF holderBar, HolderOfNote
<1>2. CASE \E o \in Op : \E to \in Status : Moves(o, to)
  <2>1. PICK o \in Op, to \in Status : Moves(o, to)
    BY <1>2
  <2>2. /\ \A p \in Op : status'[p] = IF p = o THEN to ELSE status[p]
        /\ to \in Active => \A p \in Op \ {o} : status[p] \notin Active \cup {"ConfirmedSpent"}
        /\ status[o] # "ConfirmedSpent"
    BY <2>1 DEF Moves, Blocked, IInv, TypeOK
  <2>3. CASE \E p \in Op : status'[p] = "ConfirmedSpent"
    <3>1. HolderOfNote' = Spent
      BY <2>3 DEF HolderOfNote
    <3>2. Ownership!Spend({"note"})
      BY <3>1 DEF Ownership!Spend, holderBar
    <3>3. QED
      BY <3>2 DEF Ownership!Next
  <2>4. CASE to \in Active /\ \A p \in Op : status'[p] # "ConfirmedSpent"
    <3>1. HolderOfNote' = o
      BY <2>2, <2>4, HolderKnown DEF HolderOfNote, OneLocks
    <3>2. CASE status[o] \in Active
      <4>1. HolderOfNote = o
        BY <2>2, <2>4, <3>2, HolderKnown
      <4>2. QED
        BY <3>1, <4>1 DEF holderBar
    <3>3. CASE status[o] \notin Active
      <4>1. HolderOfNote = Free
        BY <2>2, <2>4, <3>3, HolderKnown
      <4>2. Ownership!Acquire(o, {"note"})
        BY <3>1, <4>1, CallerAssumption DEF Ownership!Acquire, holderBar
      <4>3. QED
        BY <4>2 DEF Ownership!Next
    <3>4. QED
      BY <3>2, <3>3
  <2>5. CASE to \notin Active /\ \A p \in Op : status'[p] # "ConfirmedSpent"
    <3>1. \A p \in Op : status[p] # "ConfirmedSpent"
      BY <2>2, <2>5
    <3>2. CASE \E p \in Op \ {o} : status[p] \in Active
      <4>1. PICK p \in Op \ {o} : status[p] \in Active
        BY <3>2
      <4>2. HolderOfNote = p
        BY <3>1, <4>1, HolderKnown
      <4>3. HolderOfNote' = p
        BY <2>2, <2>5, <4>1 DEF HolderOfNote, OneLocks
      <4>4. QED
        BY <4>2, <4>3 DEF holderBar
    <3>3. CASE \A p \in Op \ {o} : status[p] \notin Active
      <4>1. HolderOfNote' = Free
        BY <2>2, <2>5, <3>3 DEF HolderOfNote
      <4>2. HolderOfNote \in {o, Free}
        BY <3>1, <3>3, HolderKnown
      <4>3. Ownership!GiveBack(o)
        BY <4>1, <4>2 DEF Ownership!GiveBack, holderBar
      <4>4. QED
        BY <4>3 DEF Ownership!Next
    <3>4. QED
      BY <3>2, <3>3
  <2>6. QED
    BY <2>3, <2>4, <2>5
<1>3. QED
  BY <1>1, <1>2, StatusMoves

(* Two operations are never both let through, however their calls overlap. *)
THEOREM CallsImplementOwnership == Spec => ImplementsOwnership
<1>1. Init => OneLocks
  BY DEF Init, OneLocks, Active, NoRecord
<1>2. Init => Ownership!Init
  BY DEF Init, Ownership!Init, HolderOfNote, Active, NoRecord
<1>3. IInv /\ OneLocks /\ [Next]_vars => OneLocks'
  BY OneLocksStep
<1>4. IInv /\ OneLocks /\ OneLocks' /\ [Next]_vars => [Ownership!Next]_holderBar
  BY OwnershipStep
<1>5. QED
  BY <1>1, <1>2, <1>3, <1>4, Invariance, PTL
     DEF Spec, ImplementsOwnership, Ownership!Spec, holderBar
==============================================================================

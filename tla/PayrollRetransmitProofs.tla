----------------------- MODULE PayrollRetransmitProofs -----------------------
(***************************************************************************)
(* One payment, however many processes sign it, crash, come back and send  *)
(* it again: one transaction, marked before it is sent, each send decided  *)
(* on a look at the chain of its own.                                      *)
(***************************************************************************)
EXTENDS PayrollRetransmit, FiniteSetTheorems, TLAPS

(* The records of calls and decisions.                                     *)
RecordStatus ==
  {"NoRecord", "Reserved", "Proving", "ProofReady", "Submitted", "Unknown",
   "ReplanRequired", "ManualReview", "ConfirmedSpent", "Released"}
Place ==
  {"idle", "inspected", "before", "mark", "send", "answer", "resolved", "unknown",
   "reconcile", "done"}
Seen == {"", "not-found", "failed", "succeeded"}
Beat == {"off", "ok", "failed"}
Result == {"", "thrown", "flagged", "returned", "none", "paid", "failed", "review"}
Lease == [owner : Process \cup {NoProcess}, ttl : 0 .. LeaseDuration]
Call ==
  [at : Place, tx : Tx \cup {NoTx}, seen : Seen, read : RecordStatus \cup {""},
   until : 0 .. DecisionTTL, beat : Beat, end : Result]
Decision == [tx : Tx, ttl : 0 .. DecisionTTL, id : Nat]

Typed ==
  /\ status \in RecordStatus
  /\ lease \in Lease
  /\ marked \in Tx \cup {NoTx} /\ inFlight \in BOOLEAN
  /\ inFlight => marked # NoTx /\ status = "ProofReady"
  /\ have \in [Process -> SUBSET Tx] /\ disk \subseteq Tx
  /\ decision \in [Process -> SUBSET Decision] /\ issued \in Nat
  /\ task \in [Task -> Call] /\ sends \in Nat
  /\ net \in [Tx -> {"none", "pending", "included", "failed"}]
  /\ landed \in [Tx -> 0 .. DecisionTTL]
  /\ spent \in BOOLEAN /\ expired \in BOOLEAN

(* What the record says of the bytes on the chain.                         *)
ChainFits ==
  /\ status \in {"NoRecord", "Reserved", "Proving"} => marked = NoTx
  /\ \A x \in Tx :
       /\ net[x] # "none" => marked = x
       /\ net[x] = "included" => spent
       /\ net[x] # "included" => landed[x] = 0

(* What a call knows of them, wherever it is.                              *)
Armed == {"before", "mark", "send"}

TaskFits(t) ==
  LET k == task[t]
  IN  /\ k.at \notin {"idle", "done"} => k.tx \in Tx
      /\ k.at \in {"send", "answer", "resolved", "unknown", "reconcile"} => marked = k.tx
      /\ k.at = "reconcile" => k.seen # ""
      /\ k.at = "reconcile" /\ k.seen = "failed" => net[k.tx] = "failed"
      /\ k.at = "reconcile" /\ k.seen = "succeeded" => net[k.tx] = "included"
      /\ k.at \in Armed /\ net[k.tx] = "included" => landed[k.tx] + k.until <= DecisionTTL
      /\ k.end = "returned" => /\ k.tx \in Tx /\ marked = k.tx
                               /\ status \notin {"Reserved", "Proving", "ProofReady"}
      /\ k.end = "paid" => k.tx \in Tx /\ net[k.tx] = "included"

DecisionFits(d) == net[d.tx] = "included" => landed[d.tx] + d.ttl <= DecisionTTL

Fits ==
  /\ ChainFits
  /\ \A t \in Task : TaskFits(t)
  /\ \A p \in Process : \A d \in decision[p] : DecisionFits(d)
  /\ LivePayloadIsHeld

(* Every send still to come has its decision, and no decision serves twice.*)
Inspecting == {t \in Task : task[t].at = "inspected"}
Arming == {t \in Task : task[t].at \in Armed}
Ids == UNION {{d.id : d \in decision[p]} : p \in Process}

OneUse ==
  \A p \in Process : \A d \in decision[p] :
    /\ d.id < issued
    /\ \A q \in Process : \A e \in decision[q] : d.id = e.id => p = q /\ d = e

Counting ==
  /\ OneUse
  /\ issued + Cardinality(Inspecting) <= MaxDecisions
  /\ sends + Cardinality(Arming) + Cardinality(Ids) <= issued

IInv == Typed /\ Fits /\ Counting

------------------------------------------------------------------------------
(* The records of calls.                                                   *)

LEMMA IdleCall ==
  /\ Idle \in Call
  /\ Idle.at = "idle" /\ Idle.tx = NoTx /\ Idle.end = "" /\ Idle.until = 0
  BY PayrollAssumption DEF Idle, Call, Place, Seen, Beat, Result

LEMMA Stepped ==
  ASSUME NEW k \in Call, NEW at \in Place, NEW m, m = [k EXCEPT !.at = at]
  PROVE  /\ m \in Call
         /\ m.at = at /\ m.tx = k.tx /\ m.seen = k.seen /\ m.until = k.until /\ m.end = k.end
  BY DEF Call

LEMMA Beaten ==
  ASSUME NEW k \in Call, NEW at \in Place, NEW b \in Beat, NEW m,
         m = [k EXCEPT !.at = at, !.beat = b]
  PROVE  /\ m \in Call
         /\ m.at = at /\ m.tx = k.tx /\ m.seen = k.seen /\ m.until = k.until /\ m.end = k.end
  BY DEF Call

LEMMA OnlyBeaten ==
  ASSUME NEW k \in Call, NEW b \in Beat, NEW m, m = [k EXCEPT !.beat = b]
  PROVE  /\ m \in Call
         /\ m.at = k.at /\ m.tx = k.tx /\ m.seen = k.seen /\ m.until = k.until /\ m.end = k.end
  BY DEF Call

LEMMA Ended ==
  ASSUME NEW k \in Call, NEW e \in Result, NEW m,
         m = [k EXCEPT !.at = "done", !.beat = "off", !.end = e]
  PROVE  m \in Call /\ m.at = "done" /\ m.tx = k.tx /\ m.end = e
  BY DEF Call, Place, Beat

LEMMA Aged ==
  ASSUME NEW k \in Call, NEW m, m = [k EXCEPT !.until = Less(@)]
  PROVE  /\ m \in Call
         /\ m.at = k.at /\ m.tx = k.tx /\ m.seen = k.seen /\ m.end = k.end
         /\ m.until = Less(k.until)
<1>1. m = [k EXCEPT !.until = Less(k.until)]
  BY DEF Call
<1>2. k.until \in 0 .. DecisionTTL
  BY DEF Call
<1>3. Less(k.until) \in 0 .. DecisionTTL
  BY <1>2, PayrollAssumption DEF Less
<1>4. QED
  BY <1>1, <1>3 DEF Call

LEMMA AgedDecision ==
  ASSUME NEW d \in Decision, NEW m, m = [d EXCEPT !.ttl = Less(@)]
  PROVE  /\ m \in Decision /\ m.tx = d.tx /\ m.id = d.id /\ m.ttl = Less(d.ttl)
  BY PayrollAssumption DEF Decision, Less

LEMMA Leases ==
  /\ \A p \in Process : LeaseOf(p) \in Lease
  /\ NoLease \in Lease
  /\ \A p \in Process : [NoLease EXCEPT !.owner = p] \in Lease
  /\ \A l \in Lease : [l EXCEPT !.ttl = Less(@)] \in Lease /\ [l EXCEPT !.owner = NoProcess] \in Lease
  BY PayrollAssumption DEF LeaseOf, NoLease, Lease, Less

(* One call goes on, the others stand.                                     *)
LEMMA Gone ==
  ASSUME Typed, NEW t \in Task, NEW k \in Call, Goto(t, k)
  PROVE  /\ task' \in [Task -> Call] /\ task'[t] = k
         /\ \A u \in Task \ {t} : task'[u] = task[u]
  BY DEF Typed, Goto

LEMMA Steps ==
  ASSUME Typed, NEW t \in Task, NEW at \in Place, Step(t, at)
  PROVE  /\ task' \in [Task -> Call]
         /\ \A u \in Task \ {t} : task'[u] = task[u]
         /\ task'[t].at = at /\ task'[t].tx = task[t].tx /\ task'[t].seen = task[t].seen
         /\ task'[t].until = task[t].until /\ task'[t].end = task[t].end
<1>1. task[t] \in Call
  BY DEF Typed
<1>2. [task[t] EXCEPT !.at = at] \in Call
  BY <1>1, Stepped
<1>3. /\ task' \in [Task -> Call] /\ task'[t] = [task[t] EXCEPT !.at = at]
      /\ \A u \in Task \ {t} : task'[u] = task[u]
  BY <1>2, Gone DEF Step
<1>4. QED
  BY <1>1, <1>3, Stepped

LEMMA Ends ==
  ASSUME Typed, NEW t \in Task, NEW e \in Result, End(t, e)
  PROVE  /\ task' \in [Task -> Call]
         /\ \A u \in Task \ {t} : task'[u] = task[u]
         /\ task'[t].at = "done" /\ task'[t].tx = task[t].tx /\ task'[t].end = e
<1>1. task[t] \in Call
  BY DEF Typed
<1>2. [task[t] EXCEPT !.at = "done", !.beat = "off", !.end = e] \in Call
  BY <1>1, Ended
<1>3. /\ task' \in [Task -> Call]
      /\ task'[t] = [task[t] EXCEPT !.at = "done", !.beat = "off", !.end = e]
      /\ \A u \in Task \ {t} : task'[u] = task[u]
  BY <1>2, Gone DEF End
<1>4. QED
  BY <1>1, <1>3 DEF Call

------------------------------------------------------------------------------
(* Types.                                                                  *)

LEMMA InitTyped == Init => Typed
<1> SUFFICES ASSUME Init PROVE Typed
  OBVIOUS
<1>1. task \in [Task -> Call] /\ lease \in Lease
  BY IdleCall, Leases DEF Init
<1>2. landed \in [Tx -> 0 .. DecisionTTL] /\ decision \in [Process -> SUBSET Decision]
  BY PayrollAssumption DEF Init
<1>3. QED
  BY <1>1, <1>2 DEF Init, Typed, RecordStatus

(* The calls of the manager before anything is sent.                       *)
LEMMA PrepareTyped ==
  ASSUME Typed, NEW p \in Process,
         \/ Reserve(p) \/ Claim(p) \/ Prove(p)
         \/ \E x \in Tx : Sign(p, x) \/ Save(p, x) \/ Resume(p, x)
  PROVE  Typed'
<1>1. CASE Reserve(p)
  <2>1. lease' \in Lease
    BY <1>1, Leases DEF Reserve
  <2>2. QED
    BY <1>1, <2>1 DEF Typed, Reserve, RecordStatus, memoryVars, chainVars
<1>2. CASE Claim(p)
  <2>1. lease' \in Lease
    BY <1>2, Leases DEF Claim
  <2>2. QED
    BY <1>2, <2>1 DEF Typed, Claim, RecordStatus, memoryVars, chainVars
<1>3. CASE Prove(p)
  <2>1. lease' \in Lease
    BY <1>3, Leases DEF Prove
  <2>2. QED
    BY <1>3, <2>1 DEF Typed, Prove, RecordStatus, memoryVars, chainVars
<1>4. CASE \E x \in Tx : Sign(p, x) \/ Save(p, x) \/ Resume(p, x)
  <2>1. have' \in [Process -> SUBSET Tx] /\ disk' \subseteq Tx
    BY <1>4 DEF Typed, Sign, Save, Resume
  <2>2. UNCHANGED <<recordVars, decision, issued, task, sends, chainVars>>
    BY <1>4 DEF Sign, Save, Resume
  <2>3. QED
    BY <2>1, <2>2 DEF Typed, recordVars, chainVars
<1>5. QED
  BY <1>1, <1>2, <1>3, <1>4

(* The chain, the clock, other sessions and crashes.                       *)
LEMMA WorldTyped ==
  ASSUME Typed,
         \/ \E x \in Tx : Settle(x)
         \/ OthersLetGo \/ ScanFindsSpent \/ SpendElsewhere \/ Expire \/ Tick
         \/ \E p \in Process : Crash(p)
  PROVE  Typed'
<1>1. CASE \E x \in Tx : Settle(x)
  <2>1. PICK x \in Tx : Settle(x)
    BY <1>1
  <2>2. net' \in [Tx -> {"none", "pending", "included", "failed"}]
    BY <2>1 DEF Typed, Settle
  <2>3. spent' \in BOOLEAN
    BY <2>1 DEF Typed, Settle
  <2>4. UNCHANGED <<recordVars, memoryVars, task, sends, landed, expired>>
    BY <2>1 DEF Settle
  <2>5. QED
    BY <2>2, <2>3, <2>4 DEF Typed, recordVars, memoryVars
<1>2. CASE OthersLetGo
  BY <1>2, Leases DEF Typed, OthersLetGo, RecordStatus, memoryVars, chainVars
<1>3. CASE ScanFindsSpent
  BY <1>3, Leases DEF Typed, ScanFindsSpent, RecordStatus, memoryVars, chainVars
<1>4. CASE SpendElsewhere \/ Expire
  <2>1. UNCHANGED <<recordVars, memoryVars, task, sends, net, landed>>
    BY <1>4 DEF SpendElsewhere, Expire
  <2>2. spent' \in BOOLEAN
    BY <1>4 DEF Typed, SpendElsewhere, Expire
  <2>3. expired' \in BOOLEAN
    BY <1>4 DEF Typed, SpendElsewhere, Expire
  <2>4. QED
    BY <2>1, <2>2, <2>3 DEF Typed, recordVars, memoryVars
<1>5. CASE Tick
  <2>1. \A t \in Task : [task[t] EXCEPT !.until = Less(@)] \in Call
    BY Aged DEF Typed
  <2>2. task' \in [Task -> Call]
    BY <1>5, <2>1 DEF Tick
  <2>3. \A p \in Process : \A d \in decision[p] : [d EXCEPT !.ttl = Less(@)] \in Decision
    BY AgedDecision DEF Typed
  <2>4. decision' \in [Process -> SUBSET Decision]
    BY <1>5, <2>3 DEF Tick
  <2>5. lease' \in Lease
    BY <1>5, Leases DEF Tick, Typed
  <2>6. landed' \in [Tx -> 0 .. DecisionTTL]
    BY <1>5, PayrollAssumption DEF Tick, Typed
  <2>7. QED
    BY <1>5, <2>2, <2>4, <2>5, <2>6 DEF Tick, Typed
<1>6. CASE \E p \in Process : Crash(p)
  <2>1. PICK p \in Process : Crash(p)
    BY <1>6
  <2>2. lease' \in Lease
    BY <2>1, Leases DEF Crash, Typed
  <2>3. task' \in [Task -> Call]
    BY <2>1, IdleCall DEF Crash, Typed
  <2>4. have' \in [Process -> SUBSET Tx] /\ decision' \in [Process -> SUBSET Decision]
    BY <2>1 DEF Crash, Typed
  <2>5. QED
    BY <2>1, <2>2, <2>3, <2>4 DEF Crash, Typed, chainVars
<1>7. QED
  BY <1>1, <1>2, <1>3, <1>4, <1>5, <1>6

------------------------------------------------------------------------------
(* What is known stays known.                                              *)

RecordMoves ==
  /\ marked' = marked \/ marked = NoTx
  /\ status' \in {"NoRecord", "Reserved", "Proving"} => marked' = NoTx
  /\ status' \in {"Reserved", "Proving", "ProofReady"} => status' = status \/ marked = NoTx

FitsAfter(t) == TaskFits(t)'

(* A decision is made of bytes that are not on the chain.                  *)
Decided ==
  \A p \in Process : \A d \in decision'[p] : d \in decision[p] \/ (d.tx \in Tx /\ ~spent)

(* Nothing of what is let go may still be included.                        *)
LetsGo ==
  /\ \A u \in Task : task'[u] = task[u] \/ task'[u].at # "send"
  /\ \/ status' = status /\ marked' = marked
     \/ \A x \in Tx : marked = x => net[x] = "failed"

LEMMA StillFits ==
  ASSUME Typed, Fits, NEW u \in Task, task'[u] = task[u], UNCHANGED chainVars, RecordMoves
  PROVE  FitsAfter(u)
<1>1. TaskFits(u) /\ task[u] \in Call
  BY DEF Fits, Typed
<1>2. net' = net /\ landed' = landed
  BY DEF chainVars
<1>3. marked = task[u].tx /\ task[u].tx \in Tx => marked' = marked /\ marked # NoTx
  BY PayrollAssumption DEF RecordMoves
<1>4. task[u].at \in {"send", "answer", "resolved", "unknown", "reconcile"} =>
        marked' = task[u].tx
  BY <1>1, <1>3 DEF TaskFits
<1>5. task[u].end = "returned" =>
        /\ task[u].tx \in Tx /\ marked' = task[u].tx
        /\ status' \notin {"Reserved", "Proving", "ProofReady"}
  BY <1>1, <1>3 DEF TaskFits, RecordMoves
<1>6. QED
  BY <1>1, <1>2, <1>4, <1>5 DEF FitsAfter, TaskFits

LEMMA QuietChain ==
  ASSUME Typed, Fits, UNCHANGED chainVars, RecordMoves,
         \A u \in Task : task'[u] = task[u] \/ FitsAfter(u),
         Decided,
         status' \in {"ReplanRequired", "Released"} => LetsGo
  PROVE  Fits'
<1>1. net' = net /\ landed' = landed /\ spent' = spent
  BY DEF chainVars
<1>2. ChainFits'
  <2>1. ChainFits
    BY DEF Fits
  <2>2. ASSUME NEW x \in Tx, net[x] # "none" PROVE marked' = x
    BY <2>1, <2>2, PayrollAssumption DEF ChainFits, RecordMoves
  <2>3. QED
    BY <1>1, <2>1, <2>2 DEF ChainFits, RecordMoves
<1>3. ASSUME NEW u \in Task PROVE FitsAfter(u)
  BY StillFits
<1>4. ASSUME NEW p \in Process, NEW d \in decision'[p] PROVE DecisionFits(d)'
  <2>1. CASE d \in decision[p]
    <3>1. DecisionFits(d)
      BY <2>1 DEF Fits
    <3>2. QED
      BY <1>1, <3>1 DEF DecisionFits
  <2>2. CASE d.tx \in Tx /\ ~spent
    BY <1>1, <2>2 DEF DecisionFits, Fits, ChainFits
  <2>3. QED
    BY <2>1, <2>2 DEF Decided
<1>5. LivePayloadIsHeld'
  <2> SUFFICES ASSUME status' \in {"ReplanRequired", "Released"}
               PROVE  /\ \A x \in Tx : net'[x] \notin {"pending", "included"}
                      /\ \A t \in Task : task'[t].at = "send" /\ Fresh(t)'
                           => net'[task'[t].tx] = "failed"
    BY DEF LivePayloadIsHeld
  <2>1. LetsGo
    OBVIOUS
  <2>2. CASE status' = status /\ marked' = marked
    <3>1. LivePayloadIsHeld
      BY DEF Fits
    <3>2. QED
      BY <1>1, <2>1, <2>2, <3>1 DEF LivePayloadIsHeld, LetsGo, Fresh
  <2>3. CASE \A x \in Tx : marked = x => net[x] = "failed"
    <3>1. ASSUME NEW x \in Tx PROVE net'[x] \notin {"pending", "included"}
      BY <1>1, <2>3 DEF Fits, ChainFits
    <3>2. ASSUME NEW t \in Task, task'[t].at = "send" PROVE net'[task'[t].tx] = "failed"
      <4>1. task'[t] = task[t]
        BY <2>1, <3>2 DEF LetsGo
      <4>2. TaskFits(t)
        BY DEF Fits
      <4>3. task[t].tx \in Tx /\ marked = task[t].tx
        BY <3>2, <4>1, <4>2 DEF TaskFits
      <4>4. QED
        BY <1>1, <2>3, <4>1, <4>3
    <3>3. QED
      BY <3>1, <3>2
  <2>4. QED
    BY <2>1, <2>2, <2>3 DEF LetsGo
<1>6. QED
  BY <1>2, <1>3, <1>4, <1>5 DEF Fits, FitsAfter

------------------------------------------------------------------------------
(* Calls that leave the record as it is.                                   *)

Same == UNCHANGED <<recordVars, sends, chainVars, have, disk>>

LEMMA SameRecord ==
  ASSUME Typed, Fits, Same,
         task' \in [Task -> Call],
         decision' \in [Process -> SUBSET Decision], issued' \in Nat,
         \A u \in Task : task'[u] = task[u] \/ (FitsAfter(u) /\ task'[u].at # "send"),
         Decided
  PROVE  Typed' /\ Fits'
<1>1. Typed'
  BY DEF Typed, Same, recordVars, chainVars
<1>2. RecordMoves /\ UNCHANGED chainVars
  BY DEF RecordMoves, Same, recordVars, Fits, ChainFits
<1>3. LetsGo
  BY DEF LetsGo, Same, recordVars
<1>4. QED
  BY <1>1, <1>2, <1>3, QuietChain

LEMMA OneCall ==
  ASSUME Typed, Fits, Same, NEW t \in Task,
         task' \in [Task -> Call], \A u \in Task \ {t} : task'[u] = task[u],
         FitsAfter(t) /\ task'[t].at # "send",
         decision' \in [Process -> SUBSET Decision], issued' \in Nat,
         Decided
  PROVE  Typed' /\ Fits'
<1>1. \A u \in Task : task'[u] = task[u] \/ (FitsAfter(u) /\ task'[u].at # "send")
  OBVIOUS
<1>2. QED
  BY <1>1, SameRecord

LEMMA OneCallOnly ==
  ASSUME Typed, Fits, Same, UNCHANGED <<decision, issued>>, NEW t \in Task,
         task' \in [Task -> Call], \A u \in Task \ {t} : task'[u] = task[u],
         FitsAfter(t) /\ task'[t].at # "send"
  PROVE  Typed' /\ Fits'
<1>1. decision' \in [Process -> SUBSET Decision] /\ issued' \in Nat /\ Decided
  BY DEF Typed, Decided
<1>2. QED
  BY <1>1, OneCall

LEMMA InspectFits ==
  ASSUME Typed, Fits, NEW t \in Task, NEW x \in Tx, Inspect(t, x)
  PROVE  Typed' /\ Fits'
<1> DEFINE k == [Idle EXCEPT !.at = "inspected", !.tx = x, !.seen = Observed(x)]
<1>1. Observed(x) \in Seen
  BY DEF Observed, Seen
<1>2. k \in Call /\ k.at = "inspected" /\ k.tx = x /\ k.end = ""
  <2>1. Idle \in Call /\ Idle.end = "" /\ "inspected" \in Place
    BY IdleCall DEF Place
  <2>2. QED
    BY <1>1, <2>1 DEF Call
<1>3. Goto(t, k) /\ Same /\ UNCHANGED <<decision, issued>>
  BY DEF Inspect, Same, memoryVars
<1> HIDE DEF k
<1>4. /\ task' \in [Task -> Call] /\ task'[t] = k
      /\ \A u \in Task \ {t} : task'[u] = task[u]
  BY <1>2, <1>3, Gone
<1>5. FitsAfter(t) /\ task'[t].at # "send"
  BY <1>2, <1>4 DEF FitsAfter, TaskFits, Armed
<1>6. QED
  BY <1>3, <1>4, <1>5, OneCallOnly

LEMMA IdleFits ==
  ASSUME NEW u \in Task, task'[u] = Idle
  PROVE  FitsAfter(u) /\ task'[u].at # "send"
  BY IdleCall DEF FitsAfter, TaskFits, Armed

LEMMA DecideFits ==
  ASSUME Typed, Fits, NEW t \in Task, Decide(t)
  PROVE  Typed' /\ Fits'
<1>1. Goto(t, Idle) /\ Same
  BY DEF Decide, Same
<1>2. /\ task' \in [Task -> Call] /\ task'[t] = Idle
      /\ \A u \in Task \ {t} : task'[u] = task[u]
  BY <1>1, IdleCall, Gone
<1>3. TaskFits(t) /\ task[t].at = "inspected" /\ ProcessOf[t] \in Process
  BY PayrollAssumption DEF Fits, Decide
<1>4. CASE SafeToSend(task[t].seen)
  <2> DEFINE d == [tx |-> task[t].tx, ttl |-> DecisionTTL, id |-> issued]
  <2>1. d \in Decision /\ d.tx \in Tx
    BY <1>3, PayrollAssumption DEF Decision, TaskFits, Typed
  <2>2. ~spent /\ issued' = issued + 1
    BY <1>4 DEF Decide, SafeToSend
  <2>3. decision' = [decision EXCEPT ![ProcessOf[t]] = @ \cup {d}]
    BY <1>4 DEF Decide
  <2> HIDE DEF d
  <2>4. decision' \in [Process -> SUBSET Decision]
    BY <2>1, <2>3 DEF Typed
  <2>5. \A p \in Process : \A e \in decision'[p] : e \in decision[p] \/ e = d
    BY <2>3 DEF Typed
  <2>6. issued' \in Nat /\ Decided
    BY <2>1, <2>2, <2>5 DEF Typed, Decided
  <2>7. QED
    BY <1>1, <1>2, <2>1, <2>2, <2>4, <2>5, <2>6, IdleFits, OneCall
<1>5. CASE ~SafeToSend(task[t].seen)
  <2>1. UNCHANGED <<decision, issued>>
    BY <1>5 DEF Decide
  <2>2. QED
    BY <1>1, <1>2, <2>1, IdleFits, OneCallOnly
<1>6. QED
  BY <1>4, <1>5

LEMMA RetransmitFits ==
  ASSUME Typed, Fits, NEW t \in Task, NEW d \in decision[ProcessOf[t]], Retransmit(t, d)
  PROVE  Typed' /\ Fits'
<1>1. ProcessOf[t] \in Process /\ d \in Decision /\ DecisionFits(d)
  BY PayrollAssumption DEF Typed, Fits
<1>2. d.tx \in Tx /\ d.ttl \in 0 .. DecisionTTL
  BY <1>1 DEF Decision
<1>3. Same /\ UNCHANGED issued
  BY DEF Retransmit, Same
<1>4. decision' = [decision EXCEPT ![ProcessOf[t]] = @ \ {d}]
  BY DEF Retransmit, Consume
<1>5. /\ decision' \in [Process -> SUBSET Decision]
      /\ issued' \in Nat /\ Decided
  BY <1>3, <1>4 DEF Typed, Decided
<1>6. CASE d.ttl > 0 /\ ~expired
  <2> DEFINE k == [Idle EXCEPT !.at = "before", !.tx = d.tx, !.until = d.ttl]
  <2>1. k \in Call /\ k.at = "before" /\ k.tx = d.tx /\ k.until = d.ttl /\ k.end = ""
    <3>1. Idle \in Call /\ Idle.end = "" /\ "before" \in Place
      BY IdleCall DEF Place
    <3>2. QED
      BY <1>2, <3>1 DEF Call
  <2>2. Goto(t, k)
    BY <1>6 DEF Retransmit
  <2> HIDE DEF k
  <2>3. /\ task' \in [Task -> Call] /\ task'[t] = k
        /\ \A u \in Task \ {t} : task'[u] = task[u]
    BY <2>1, <2>2, Gone
  <2>4. net' = net /\ landed' = landed
    BY <1>3 DEF Same, chainVars
  <2>5. FitsAfter(t) /\ task'[t].at # "send"
    BY <1>1, <1>2, <2>1, <2>3, <2>4 DEF FitsAfter, TaskFits, DecisionFits, Armed
  <2>6. QED
    BY <1>3, <1>5, <2>3, <2>5, OneCall
<1>7. CASE ~(d.ttl > 0 /\ ~expired)
  <2> DEFINE k == [Idle EXCEPT !.at = "done", !.end = "thrown"]
  <2>1. k \in Call /\ k.at = "done" /\ k.end = "thrown"
    <3>1. Idle \in Call /\ "done" \in Place /\ "thrown" \in Result
      BY IdleCall DEF Place, Result
    <3>2. QED
      BY <3>1 DEF Call
  <2>2. Goto(t, k)
    BY <1>7 DEF Retransmit
  <2> HIDE DEF k
  <2>3. /\ task' \in [Task -> Call] /\ task'[t] = k
        /\ \A u \in Task \ {t} : task'[u] = task[u]
    BY <2>1, <2>2, Gone
  <2>4. FitsAfter(t) /\ task'[t].at # "send"
    BY <2>1, <2>3 DEF FitsAfter, TaskFits, Armed
  <2>5. QED
    BY <1>3, <1>5, <2>3, <2>4, OneCall
<1>8. QED
  BY <1>6, <1>7

LEMMA AgainFits ==
  ASSUME Typed, Fits, NEW t \in Task, Again(t)
  PROVE  Typed' /\ Fits'
<1>1. Goto(t, Idle) /\ Same /\ UNCHANGED <<decision, issued>>
  BY DEF Again, Same, memoryVars
<1>2. /\ task' \in [Task -> Call] /\ task'[t] = Idle
      /\ \A u \in Task \ {t} : task'[u] = task[u]
  BY <1>1, IdleCall, Gone
<1>3. QED
  BY <1>1, <1>2, IdleFits, OneCallOnly

LEMMA StartReconcileFits ==
  ASSUME Typed, Fits, NEW t \in Task, NEW x \in Tx, StartReconcile(t, x)
  PROVE  Typed' /\ Fits'
<1> DEFINE k == [Idle EXCEPT !.at = "reconcile", !.tx = x, !.seen = Observed(x),
                             !.read = status]
<1>1. /\ Observed(x) \in Seen \ {""}
      /\ Observed(x) = "failed" => net[x] = "failed"
      /\ Observed(x) = "succeeded" => net[x] = "included"
  BY DEF Observed, Seen
<1>2. k \in Call /\ k.at = "reconcile" /\ k.tx = x /\ k.seen = Observed(x) /\ k.end = ""
  <2>1. Idle \in Call /\ Idle.end = "" /\ "reconcile" \in Place /\ status \in RecordStatus
    BY IdleCall DEF Place, Typed
  <2>2. QED
    BY <1>1, <2>1 DEF Call
<1>3. Goto(t, k) /\ Same /\ UNCHANGED <<decision, issued>> /\ marked = x
  BY DEF StartReconcile, Same, memoryVars
<1> HIDE DEF k
<1>4. /\ task' \in [Task -> Call] /\ task'[t] = k
      /\ \A u \in Task \ {t} : task'[u] = task[u]
  BY <1>2, <1>3, Gone
<1>5. net' = net /\ marked' = marked
  BY <1>3 DEF Same, chainVars, recordVars
<1>6. FitsAfter(t) /\ task'[t].at # "send"
  BY <1>1, <1>2, <1>3, <1>4, <1>5 DEF FitsAfter, TaskFits, Armed
<1>7. QED
  BY <1>3, <1>4, <1>6, OneCallOnly

LEMMA AnswerFits ==
  ASSUME Typed, Fits, NEW t \in Task, Answer(t)
  PROVE  Typed' /\ Fits'
<1>1. PICK at \in {"resolved", "unknown"} : Step(t, at)
  BY DEF Answer
<1>2. task[t].at = "answer" /\ Same /\ UNCHANGED <<decision, issued>>
  BY DEF Answer, Same, memoryVars
<1>3. /\ task' \in [Task -> Call]
      /\ \A u \in Task \ {t} : task'[u] = task[u]
      /\ task'[t].at = at /\ task'[t].tx = task[t].tx /\ task'[t].end = task[t].end
  BY <1>1, Steps DEF Place
<1>4. TaskFits(t)
  BY DEF Fits
<1>5. UNCHANGED <<net, marked, status>>
  BY <1>2 DEF Same, chainVars, recordVars
<1>6. FitsAfter(t) /\ task'[t].at # "send"
  BY <1>2, <1>3, <1>4, <1>5 DEF FitsAfter, TaskFits, Armed
<1>7. QED
  BY <1>2, <1>3, <1>6, OneCallOnly

------------------------------------------------------------------------------
(* Calls that write the record.                                            *)

RecordTyped ==
  /\ status \in RecordStatus /\ lease \in Lease
  /\ marked \in Tx \cup {NoTx} /\ inFlight \in BOOLEAN
  /\ inFlight => marked # NoTx /\ status = "ProofReady"

LEMMA OneWrite ==
  ASSUME Typed, Fits, UNCHANGED <<memoryVars, sends, chainVars>>, NEW t \in Task,
         task' \in [Task -> Call], \A u \in Task \ {t} : task'[u] = task[u],
         FitsAfter(t), RecordTyped', RecordMoves,
         status' \in {"ReplanRequired", "Released"} => LetsGo
  PROVE  Typed' /\ Fits'
<1>1. UNCHANGED <<have, disk, decision, issued, sends, net, landed, spent, expired>>
  BY DEF memoryVars, chainVars
<1>2. Typed'
  BY <1>1 DEF Typed, RecordTyped
<1>3. \A u \in Task : task'[u] = task[u] \/ FitsAfter(u)
  OBVIOUS
<1>4. Decided /\ UNCHANGED chainVars
  BY <1>1 DEF Decided
<1>5. QED
  BY <1>2, <1>3, <1>4, QuietChain

(* A call that only renews its lease.                                      *)
LEMMA OneRenewal ==
  ASSUME Typed, Fits, UNCHANGED <<status, marked, inFlight, memoryVars, sends, chainVars>>,
         lease' \in Lease, NEW t \in Task,
         task' \in [Task -> Call], \A u \in Task \ {t} : task'[u] = task[u],
         FitsAfter(t), task'[t].at = "send" => task'[t] = task[t]
  PROVE  Typed' /\ Fits'
<1>1. RecordTyped'
  BY DEF RecordTyped, Typed
<1>2. RecordMoves
  BY DEF RecordMoves, Fits, ChainFits
<1>3. LetsGo
  BY DEF LetsGo
<1>4. QED
  BY <1>1, <1>2, <1>3, OneWrite

LEMMA BeforeMarkerFits ==
  ASSUME Typed, Fits, NEW t \in Task, BeforeMarker(t)
  PROVE  Typed' /\ Fits'
<1>1. /\ task[t].at = "before" /\ TaskFits(t) /\ task[t] \in Call
      /\ UNCHANGED <<status, marked, inFlight, memoryVars, sends, chainVars>>
      /\ net' = net /\ landed' = landed /\ ProcessOf[t] \in Process
  BY PayrollAssumption DEF BeforeMarker, Fits, Typed, chainVars
<1>2. lease' \in Lease
  BY <1>1, Leases DEF BeforeMarker, Typed
<1>3. CASE Step(t, "mark")
  <2>1. /\ task' \in [Task -> Call] /\ \A u \in Task \ {t} : task'[u] = task[u]
        /\ task'[t].at = "mark" /\ task'[t].tx = task[t].tx
        /\ task'[t].until = task[t].until /\ task'[t].end = task[t].end
    BY <1>3, Steps DEF Place
  <2>2. FitsAfter(t)
    BY <1>1, <2>1 DEF FitsAfter, TaskFits, Armed
  <2>3. QED
    BY <1>1, <1>2, <2>1, <2>2, OneRenewal
<1>4. ASSUME NEW e \in {"flagged", "thrown"}, End(t, e)
      PROVE  Typed' /\ Fits'
  <2>1. /\ task' \in [Task -> Call] /\ \A u \in Task \ {t} : task'[u] = task[u]
        /\ task'[t].at = "done" /\ task'[t].tx = task[t].tx /\ task'[t].end = e
    BY <1>4, Ends DEF Result
  <2>2. FitsAfter(t)
    BY <1>1, <1>4, <2>1 DEF FitsAfter, TaskFits, Armed
  <2>3. QED
    BY <1>1, <1>2, <2>1, <2>2, OneRenewal
<1>5. Step(t, "mark") \/ \E e \in {"flagged", "thrown"} : End(t, e)
  BY DEF BeforeMarker
<1>6. QED
  BY <1>3, <1>4, <1>5

LEMMA HeartbeatFits ==
  ASSUME Typed, Fits, NEW t \in Task, Heartbeat(t)
  PROVE  Typed' /\ Fits'
<1>1. /\ TaskFits(t) /\ task[t] \in Call /\ ProcessOf[t] \in Process
      /\ UNCHANGED <<status, marked, inFlight, memoryVars, sends, chainVars>>
      /\ net' = net /\ landed' = landed
  BY PayrollAssumption DEF Heartbeat, Fits, Typed, chainVars
<1>2. lease' \in Lease
  BY <1>1, Leases DEF Heartbeat, Typed
<1>3. CASE task' = task
  <2>1. FitsAfter(t)
    BY <1>1, <1>3 DEF FitsAfter, TaskFits
  <2>2. task' \in [Task -> Call]
    BY <1>3 DEF Typed
  <2>3. QED
    BY <1>1, <1>2, <1>3, <2>1, <2>2, OneRenewal
<1>4. CASE Goto(t, [task[t] EXCEPT !.beat = "failed"])
  <2> DEFINE k == [task[t] EXCEPT !.beat = "failed"]
  <2>1. /\ k \in Call /\ k.at = task[t].at /\ k.tx = task[t].tx /\ k.seen = task[t].seen
        /\ k.until = task[t].until /\ k.end = task[t].end
    BY <1>1 DEF Call, Beat
  <2>2. Goto(t, k)
    BY <1>4
  <2> HIDE DEF k
  <2>3. /\ task' \in [Task -> Call] /\ task'[t] = k
        /\ \A u \in Task \ {t} : task'[u] = task[u]
    BY <2>1, <2>2, Gone
  <2>4. FitsAfter(t)
    BY <1>1, <2>1, <2>3 DEF FitsAfter, TaskFits
  <2>5. RecordTyped' /\ RecordMoves
    BY <1>1, <1>2 DEF RecordTyped, RecordMoves, Typed, Fits, ChainFits
  <2>6. Typed'
    BY <1>1, <2>3, <2>5 DEF Typed, RecordTyped, memoryVars, chainVars
  <2>7. QED
    <3>1. ChainFits' /\ \A p \in Process : \A d \in decision'[p] : DecisionFits(d)'
      BY <1>1 DEF Fits, ChainFits, DecisionFits, memoryVars, chainVars
    <3>2. \A u \in Task : TaskFits(u)'
      <4>1. ASSUME NEW u \in Task \ {t} PROVE TaskFits(u)'
        BY <1>1, <2>3, <2>5, StillFits DEF FitsAfter
      <4>2. QED
        BY <2>4, <4>1 DEF FitsAfter
    <3>3. LivePayloadIsHeld'
      BY <1>1, <2>1, <2>3 DEF Fits, LivePayloadIsHeld, Fresh
    <3>4. QED
      BY <2>6, <3>1, <3>2, <3>3 DEF Fits
<1>5. QED
  BY <1>3, <1>4 DEF Heartbeat


(* The marker binds the record to these bytes for good.                    *)
LEMMA MarkFits ==
  ASSUME Typed, Fits, NEW t \in Task, Mark(t)
  PROVE  Typed' /\ Fits'
<1>1. /\ task[t].at = "mark" /\ TaskFits(t) /\ task[t] \in Call /\ ProcessOf[t] \in Process
      /\ UNCHANGED <<status, memoryVars, sends, chainVars>>
      /\ net' = net /\ landed' = landed /\ status' = status /\ task[t].tx \in Tx
  BY PayrollAssumption DEF Mark, Fits, Typed, chainVars, TaskFits
<1>2. CASE /\ MayMark(t) /\ Matches(task[t].tx)
           /\ marked' = task[t].tx /\ inFlight' = TRUE /\ lease' = LeaseOf(ProcessOf[t])
           /\ \/ Goto(t, [task[t] EXCEPT !.at = "send", !.beat = "ok"])
              \/ End(t, "flagged")
  <2>1. status = "ProofReady" /\ (marked' = marked \/ marked = NoTx)
    BY <1>2 DEF MayMark, Matches
  <2>2. RecordMoves
    BY <1>1, <2>1 DEF RecordMoves
  <2>3. RecordTyped'
    BY <1>1, <1>2, <2>1, Leases, PayrollAssumption DEF RecordTyped, RecordStatus
  <2>4. CASE Goto(t, [task[t] EXCEPT !.at = "send", !.beat = "ok"])
    <3> DEFINE k == [task[t] EXCEPT !.at = "send", !.beat = "ok"]
    <3>1. /\ k \in Call /\ k.at = "send" /\ k.tx = task[t].tx
          /\ k.until = task[t].until /\ k.end = task[t].end
      BY <1>1 DEF Call, Beat, Place
    <3>2. Goto(t, k)
      BY <2>4
    <3> HIDE DEF k
    <3>3. /\ task' \in [Task -> Call] /\ task'[t] = k
          /\ \A u \in Task \ {t} : task'[u] = task[u]
      BY <3>1, <3>2, Gone
    <3>4. FitsAfter(t)
      <4>1. task[t].end = "returned" => FALSE
        BY <1>1, <2>1 DEF TaskFits
      <4>2. QED
        BY <1>1, <1>2, <3>1, <3>3, <4>1 DEF FitsAfter, TaskFits, Armed
    <3>5. QED
      BY <1>1, <2>1, <2>2, <2>3, <3>3, <3>4, OneWrite
  <2>5. CASE End(t, "flagged")
    <3>1. /\ task' \in [Task -> Call] /\ \A u \in Task \ {t} : task'[u] = task[u]
          /\ task'[t].at = "done" /\ task'[t].tx = task[t].tx /\ task'[t].end = "flagged"
      BY <2>5, Ends DEF Result
    <3>2. FitsAfter(t)
      BY <3>1 DEF FitsAfter, TaskFits, Armed
    <3>3. QED
      BY <1>1, <2>1, <2>2, <2>3, <3>1, <3>2, OneWrite
  <2>6. QED
    BY <1>2, <2>4, <2>5
<1>3. CASE /\ status \in {"Submitted", "Unknown"} /\ Matches(task[t].tx) /\ marked # NoTx
           /\ Step(t, "send")
           /\ UNCHANGED <<lease, marked, inFlight>>
  <2>1. marked = task[t].tx
    BY <1>3 DEF Matches
  <2>2. /\ task' \in [Task -> Call] /\ \A u \in Task \ {t} : task'[u] = task[u]
        /\ task'[t].at = "send" /\ task'[t].tx = task[t].tx
        /\ task'[t].until = task[t].until /\ task'[t].end = task[t].end
    BY <1>3, Steps DEF Place
  <2>3. FitsAfter(t)
    BY <1>1, <1>3, <2>1, <2>2 DEF FitsAfter, TaskFits, Armed
  <2>4. RecordMoves /\ RecordTyped'
    BY <1>1, <1>3 DEF RecordMoves, RecordTyped, Typed, Fits, ChainFits
  <2>5. QED
    BY <1>1, <1>3, <2>2, <2>3, <2>4, OneWrite
<1>4. CASE MarkFails(t) /\ UNCHANGED <<lease, marked, inFlight>>
  <2>1. /\ task' \in [Task -> Call] /\ \A u \in Task \ {t} : task'[u] = task[u]
        /\ task'[t].at = "done" /\ task'[t].tx = task[t].tx /\ task'[t].end = "flagged"
    BY <1>4, Ends DEF MarkFails, Result
  <2>2. FitsAfter(t)
    BY <2>1 DEF FitsAfter, TaskFits, Armed
  <2>3. lease' \in Lease
    BY <1>4 DEF Typed
  <2>4. QED
    BY <1>1, <1>4, <2>1, <2>2, <2>3, OneRenewal
<1>5. QED
  BY <1>2, <1>3, <1>4 DEF Mark

LEMMA ResolvedFits ==
  ASSUME Typed, Fits, NEW t \in Task, RecordResolved(t)
  PROVE  Typed' /\ Fits'
<1>1. /\ task[t].at = "resolved" /\ TaskFits(t) /\ task[t] \in Call
      /\ UNCHANGED <<memoryVars, sends, chainVars>>
      /\ net' = net /\ landed' = landed /\ task[t].tx \in Tx /\ marked = task[t].tx
  BY DEF RecordResolved, Fits, Typed, chainVars, TaskFits
<1>2. CASE End(t, "returned") /\ UNCHANGED recordVars
           /\ status \in {"Submitted", "Unknown", "ConfirmedSpent"}
  <2>1. /\ task' \in [Task -> Call] /\ \A u \in Task \ {t} : task'[u] = task[u]
        /\ task'[t].at = "done" /\ task'[t].tx = task[t].tx /\ task'[t].end = "returned"
    BY <1>2, Ends DEF Result
  <2>2. UNCHANGED <<status, lease, marked, inFlight>>
    BY <1>2 DEF recordVars
  <2>3. FitsAfter(t)
    BY <1>1, <1>2, <2>1, <2>2 DEF FitsAfter, TaskFits, Armed
  <2>4. lease' \in Lease
    BY <2>2 DEF Typed
  <2>5. QED
    BY <1>1, <2>1, <2>2, <2>3, <2>4, OneRenewal
<1>3. CASE /\ End(t, "returned") /\ status = "ProofReady"
           /\ status' = "Submitted" /\ lease' = NoLease /\ inFlight' = FALSE /\ UNCHANGED marked
  <2>1. /\ task' \in [Task -> Call] /\ \A u \in Task \ {t} : task'[u] = task[u]
        /\ task'[t].at = "done" /\ task'[t].tx = task[t].tx /\ task'[t].end = "returned"
    BY <1>3, Ends DEF Result
  <2>2. FitsAfter(t)
    BY <1>1, <1>3, <2>1 DEF FitsAfter, TaskFits, Armed
  <2>3. RecordMoves
    BY <1>3 DEF RecordMoves
  <2>4. RecordTyped'
    BY <1>3, Leases DEF RecordTyped, RecordStatus, Typed
  <2>5. QED
    BY <1>1, <1>3, <2>1, <2>2, <2>3, <2>4, OneWrite
<1>4. CASE Step(t, "unknown") /\ UNCHANGED recordVars
  <2>1. /\ task' \in [Task -> Call] /\ \A u \in Task \ {t} : task'[u] = task[u]
        /\ task'[t].at = "unknown" /\ task'[t].tx = task[t].tx
        /\ task'[t].end = task[t].end
    BY <1>4, Steps DEF Place
  <2>2. UNCHANGED <<status, lease, marked, inFlight>>
    BY <1>4 DEF recordVars
  <2>3. FitsAfter(t)
    BY <1>1, <2>1, <2>2 DEF FitsAfter, TaskFits, Armed
  <2>4. lease' \in Lease
    BY <2>2 DEF Typed
  <2>5. QED
    BY <1>1, <2>1, <2>2, <2>3, <2>4, OneRenewal
<1>5. QED
  BY <1>2, <1>3, <1>4 DEF RecordResolved

LEMMA UnknownFits ==
  ASSUME Typed, Fits, NEW t \in Task, RecordUnknown(t)
  PROVE  Typed' /\ Fits'
<1>1. UNCHANGED <<memoryVars, sends, chainVars>> /\ End(t, "flagged")
  BY DEF RecordUnknown
<1>2. /\ task' \in [Task -> Call] /\ \A u \in Task \ {t} : task'[u] = task[u]
      /\ task'[t].at = "done" /\ task'[t].tx = task[t].tx /\ task'[t].end = "flagged"
  BY <1>1, Ends DEF Result
<1>3. FitsAfter(t)
  BY <1>2 DEF FitsAfter, TaskFits, Armed
<1>4. CASE UNCHANGED recordVars
  <2>1. UNCHANGED <<status, lease, marked, inFlight>> /\ lease' \in Lease
    BY <1>4 DEF recordVars, Typed
  <2>2. QED
    BY <1>1, <1>2, <1>3, <2>1, OneRenewal
<1>5. CASE status' = "Unknown" /\ lease' = NoLease /\ inFlight' = FALSE /\ UNCHANGED marked
  <2>1. RecordMoves
    BY <1>5 DEF RecordMoves
  <2>2. RecordTyped'
    BY <1>5, Leases DEF RecordTyped, RecordStatus, Typed
  <2>3. QED
    BY <1>1, <1>2, <1>3, <1>5, <2>1, <2>2, OneWrite
<1>6. QED
  BY <1>4, <1>5 DEF RecordUnknown


(* A payment that has failed for good lets go of its inputs.               *)
LEMMA ReconcileFits ==
  ASSUME Typed, Fits, NEW t \in Task, Reconcile(t)
  PROVE  Typed' /\ Fits'
<1>1. /\ task[t].at = "reconcile" /\ TaskFits(t) /\ task[t] \in Call
      /\ UNCHANGED <<memoryVars, sends, chainVars>>
      /\ net' = net /\ landed' = landed /\ task[t].tx \in Tx /\ marked = task[t].tx
  BY DEF Reconcile, Fits, Typed, chainVars, TaskFits
<1> DEFINE result == Reconciled(task[t].seen)
<1>2. /\ result = "Succeeded" => task[t].seen = "succeeded"
      /\ result = "Failed" => task[t].seen = "failed"
  <2>1. task[t].seen \in {"not-found", "failed", "succeeded"}
    BY <1>1 DEF TaskFits, Call, Seen
  <2>2. QED
    BY <2>1 DEF Reconciled
<1> HIDE DEF result
<1>3. ASSUME NEW e \in {"none", "failed", "review"}, End(t, e)
      PROVE  /\ task' \in [Task -> Call] /\ \A u \in Task \ {t} : task'[u] = task[u]
             /\ task'[t].at = "done" /\ FitsAfter(t)
  <2>1. /\ task' \in [Task -> Call] /\ \A u \in Task \ {t} : task'[u] = task[u]
        /\ task'[t].at = "done" /\ task'[t].end = e
    BY <1>3, Ends DEF Result
  <2>2. QED
    BY <1>3, <2>1 DEF FitsAfter, TaskFits, Armed
<1>4. ASSUME NEW e \in {"none", "failed", "review"}, End(t, e), UNCHANGED recordVars
      PROVE  Typed' /\ Fits'
  <2>1. UNCHANGED <<status, lease, marked, inFlight>> /\ lease' \in Lease
    BY <1>4 DEF recordVars, Typed
  <2>2. QED
    BY <1>1, <1>3, <1>4, <2>1, OneRenewal
<1>5. CASE /\ status' = "ConfirmedSpent" /\ lease' = NoLease /\ inFlight' = FALSE
           /\ UNCHANGED marked /\ End(t, "paid") /\ result = "Succeeded"
  <2>1. /\ task' \in [Task -> Call] /\ \A u \in Task \ {t} : task'[u] = task[u]
        /\ task'[t].at = "done" /\ task'[t].tx = task[t].tx /\ task'[t].end = "paid"
    BY <1>5, Ends DEF Result
  <2>2. FitsAfter(t)
    BY <1>1, <1>2, <1>5, <2>1 DEF FitsAfter, TaskFits, Armed
  <2>3. RecordMoves /\ RecordTyped'
    BY <1>5, Leases DEF RecordMoves, RecordTyped, RecordStatus, Typed
  <2>4. QED
    BY <1>1, <1>5, <2>1, <2>2, <2>3, OneWrite
<1>6. CASE /\ status \in {"Submitted", "Unknown"} /\ result = "Failed" /\ End(t, "failed")
           /\ status' = "ReplanRequired" /\ lease' = NoLease /\ UNCHANGED <<marked, inFlight>>
  <2>1. RecordMoves
    BY <1>6 DEF RecordMoves
  <2>2. RecordTyped'
    BY <1>6, Leases DEF RecordTyped, RecordStatus, Typed
  <2>3. net[marked] = "failed"
    BY <1>1, <1>2, <1>6 DEF TaskFits
  <2>4. /\ task' \in [Task -> Call] /\ \A u \in Task \ {t} : task'[u] = task[u]
        /\ task'[t].at = "done" /\ FitsAfter(t)
    BY <1>3, <1>6
  <2>5. LetsGo
    BY <2>3, <2>4 DEF LetsGo
  <2>6. QED
    BY <1>1, <2>1, <2>2, <2>4, <2>5, OneWrite
<1>7. CASE /\ status' = "ManualReview" /\ lease' = NoLease /\ inFlight' = FALSE
           /\ UNCHANGED marked /\ End(t, "review")
  <2>1. RecordMoves /\ RecordTyped'
    BY <1>7, Leases DEF RecordMoves, RecordTyped, RecordStatus, Typed
  <2>2. /\ task' \in [Task -> Call] /\ \A u \in Task \ {t} : task'[u] = task[u]
        /\ task'[t].at = "done" /\ FitsAfter(t)
    BY <1>3, <1>7
  <2>3. QED
    BY <1>1, <1>7, <2>1, <2>2, OneWrite
<1>8. QED
  BY <1>4, <1>5, <1>6, <1>7 DEF Reconcile, result

------------------------------------------------------------------------------
(* The bytes go out.                                                       *)

LEMMA SendFits ==
  ASSUME Typed, Fits, NEW t \in Task, Send(t)
  PROVE  Typed' /\ Fits'
<1> DEFINE x == task[t].tx
<1>1. /\ task[t].at = "send" /\ TaskFits(t) /\ task[t] \in Call
      /\ UNCHANGED <<recordVars, memoryVars, landed, spent, expired>>
      /\ UNCHANGED <<status, marked>> /\ x \in Tx /\ marked = x
  BY DEF Send, Fits, Typed, TaskFits, recordVars
<1>2. CASE /\ Fresh(t) /\ Step(t, "answer") /\ sends' = sends + 1
           /\ net' = [net EXCEPT ![x] = IF @ = "none" THEN "pending" ELSE @]
  <2>1. /\ task' \in [Task -> Call] /\ \A u \in Task \ {t} : task'[u] = task[u]
        /\ task'[t].at = "answer" /\ task'[t].tx = x
        /\ task'[t].until = task[t].until /\ task'[t].end = task[t].end
    BY <1>2, Steps DEF Place
  <2>2. /\ net' \in [Tx -> {"none", "pending", "included", "failed"}]
        /\ \A y \in Tx : y # x \/ net[y] # "none" => net'[y] = net[y]
        /\ net[x] = "none" => net'[x] = "pending"
    BY <1>1, <1>2 DEF Typed
  <2>3. Typed'
    BY <1>1, <1>2, <2>1, <2>2 DEF Typed, recordVars, memoryVars
  <2>4. ChainFits'
    BY <1>1, <2>2 DEF Fits, ChainFits
  <2>5. ASSUME NEW u \in Task PROVE TaskFits(u)'
    <3>1. TaskFits(u)
      BY DEF Fits
    <3>2. task'[u].tx = task[u].tx /\ task'[u].end = task[u].end
      BY <2>1
    <3>3. CASE u = t
      BY <1>1, <2>1, <2>2, <3>1, <3>3 DEF TaskFits, Armed
    <3>4. CASE u # t
      <4>1. \A y \in Tx : /\ net'[y] = "included" <=> net[y] = "included"
                          /\ net'[y] = "failed" <=> net[y] = "failed"
        BY <1>1, <2>2
      <4>2. task'[u] = task[u]
        BY <2>1, <3>4
      <4>3. QED
        BY <1>1, <3>1, <4>1, <4>2 DEF TaskFits, Armed
    <3>5. QED
      BY <3>3, <3>4
  <2>6. ASSUME NEW p \in Process, NEW d \in decision'[p] PROVE DecisionFits(d)'
    <3>1. d \in decision[p] /\ d.tx \in Tx
      BY <1>1 DEF memoryVars, Typed, Decision
    <3>2. DecisionFits(d)
      BY <3>1 DEF Fits
    <3>3. QED
      BY <1>1, <2>2, <3>1, <3>2 DEF DecisionFits
  <2>7. LivePayloadIsHeld'
    <3>1. LivePayloadIsHeld
      BY DEF Fits
    <3>2. status \in {"ReplanRequired", "Released"} => net[x] = "failed"
      BY <1>1, <1>2, <3>1 DEF LivePayloadIsHeld
    <3>3. status \in {"ReplanRequired", "Released"} => \A y \in Tx : net'[y] = net[y]
      BY <2>2, <3>2
    <3>4. ASSUME NEW u \in Task, task'[u].at = "send"
          PROVE  task'[u] = task[u] /\ task[u].tx \in Tx
      BY <2>1, <3>4 DEF Fits, TaskFits
    <3>5. QED
      BY <1>1, <3>1, <3>3, <3>4 DEF LivePayloadIsHeld, Fresh
  <2>8. QED
    BY <2>3, <2>4, <2>5, <2>6, <2>7 DEF Fits
<1>3. CASE Step(t, "unknown") /\ UNCHANGED <<sends, net>>
  <2>1. /\ task' \in [Task -> Call] /\ \A u \in Task \ {t} : task'[u] = task[u]
        /\ task'[t].at = "unknown" /\ task'[t].tx = task[t].tx /\ task'[t].end = task[t].end
    BY <1>3, Steps DEF Place
  <2>2. Same /\ UNCHANGED <<decision, issued>>
    BY <1>1, <1>3 DEF Same, memoryVars, chainVars
  <2>3. FitsAfter(t) /\ task'[t].at # "send"
    BY <1>1, <1>3, <2>1 DEF FitsAfter, TaskFits, Armed
  <2>4. QED
    BY <2>1, <2>2, <2>3, OneCallOnly
<1>4. QED
  BY <1>2, <1>3 DEF Send


------------------------------------------------------------------------------
(* Everybody else.                                                         *)

LEMMA InitFits == Init => Fits
<1> SUFFICES ASSUME Init PROVE Fits
  OBVIOUS
<1>1. ChainFits
  BY DEF Init, ChainFits
<1>2. ASSUME NEW t \in Task PROVE TaskFits(t)
  <2>1. task[t] = Idle
    BY DEF Init
  <2>2. QED
    BY <2>1, IdleCall DEF TaskFits, Armed
<1>3. QED
  BY <1>1, <1>2 DEF Fits, Init, LivePayloadIsHeld

(* Steps that only move the record.                                        *)
LEMMA OnlyRecord ==
  ASSUME Typed, Fits, UNCHANGED <<memoryVars, task, chainVars>>, RecordMoves,
         status' \in {"ReplanRequired", "Released"} => LetsGo
  PROVE  Fits'
<1>1. \A u \in Task : task'[u] = task[u] \/ FitsAfter(u)
  OBVIOUS
<1>2. Decided /\ UNCHANGED chainVars
  BY DEF Decided, memoryVars
<1>3. QED
  BY <1>1, <1>2, QuietChain

LEMMA PrepareFits ==
  ASSUME Typed, Fits, NEW p \in Process,
         \/ Reserve(p) \/ Claim(p) \/ Prove(p)
         \/ \E x \in Tx : Sign(p, x) \/ Save(p, x) \/ Resume(p, x)
  PROVE  Fits'
<1>1. CASE Reserve(p) \/ Claim(p) \/ Prove(p)
  <2>1. /\ UNCHANGED <<marked, memoryVars, task, chainVars>>
        /\ status \in {"NoRecord", "Reserved", "Proving"}
    BY <1>1 DEF Reserve, Claim, Prove
  <2>2. marked = NoTx
    BY <2>1 DEF Fits, ChainFits
  <2>3. RecordMoves /\ LetsGo
    BY <2>1, <2>2, PayrollAssumption DEF RecordMoves, LetsGo
  <2>4. QED
    BY <2>1, <2>3, OnlyRecord
<1>2. CASE \E x \in Tx : Sign(p, x) \/ Save(p, x) \/ Resume(p, x)
  <2>1. UNCHANGED <<recordVars, decision, task, chainVars>>
    BY <1>2 DEF Sign, Save, Resume
  <2>2. UNCHANGED <<status, marked, decision, task, net, landed, spent>>
    BY <2>1 DEF recordVars, chainVars
  <2>3. QED
    BY <2>2 DEF Fits, ChainFits, TaskFits, DecisionFits, LivePayloadIsHeld, Fresh
<1>3. QED
  BY <1>1, <1>2

LEMMA OthersFit ==
  ASSUME Typed, Fits, OthersLetGo \/ ScanFindsSpent
  PROVE  Fits'
<1>1. UNCHANGED <<marked, memoryVars, task, chainVars>>
  BY DEF OthersLetGo, ScanFindsSpent
<1>2. RecordMoves
  BY <1>1 DEF RecordMoves, OthersLetGo, ScanFindsSpent
<1>3. ASSUME status' \in {"ReplanRequired", "Released"} PROVE LetsGo
  <2>1. marked = NoTx \/ net[marked] = "failed"
    BY <1>3 DEF OthersLetGo, ScanFindsSpent, Fits, ChainFits
  <2>2. QED
    BY <1>1, <2>1, PayrollAssumption DEF LetsGo
<1>4. QED
  BY <1>1, <1>2, <1>3, OnlyRecord

LEMMA SettleFits ==
  ASSUME Typed, Fits, NEW x \in Tx, Settle(x)
  PROVE  Fits'
<1>1. /\ UNCHANGED <<status, marked, task, decision, landed>> /\ net[x] = "pending"
      /\ \A y \in Tx : y # x => net'[y] = net[y]
      /\ net'[x] \in {"none", "failed", "included"} /\ landed[x] = 0
      /\ spent => spent'
      /\ net'[x] = "included" => spent'
  BY DEF Settle, recordVars, memoryVars, Typed, Fits, ChainFits
<1>2. ChainFits'
  BY <1>1 DEF Fits, ChainFits
<1>3. ASSUME NEW u \in Task PROVE TaskFits(u)'
  <2>1. TaskFits(u) /\ task[u] \in Call /\ task'[u] = task[u]
    BY <1>1 DEF Fits, Typed
  <2>2. task[u].until \in 0 .. DecisionTTL
    BY <2>1 DEF Call
  <2>3. task[u].tx = x \/ (task[u].tx \in Tx => net'[task[u].tx] = net[task[u].tx])
    BY <1>1
  <2>4. task[u].tx = x => 0 + task[u].until <= DecisionTTL
    BY <2>2, PayrollAssumption
  <2>5. QED
    BY <1>1, <2>1, <2>3, <2>4 DEF TaskFits, Armed
<1>4. ASSUME NEW p \in Process, NEW d \in decision'[p] PROVE DecisionFits(d)'
  <2>1. DecisionFits(d) /\ d \in Decision
    BY <1>1 DEF Fits, Typed
  <2>2. d.tx \in Tx /\ d.ttl \in 0 .. DecisionTTL
    BY <2>1 DEF Decision
  <2>3. d.tx = x => 0 + d.ttl <= DecisionTTL
    BY <2>2, PayrollAssumption
  <2>4. QED
    BY <1>1, <2>1, <2>2, <2>3 DEF DecisionFits
<1>5. LivePayloadIsHeld'
  BY <1>1 DEF Fits, LivePayloadIsHeld
<1>6. QED
  BY <1>2, <1>3, <1>4, <1>5 DEF Fits

LEMMA ElsewhereFits ==
  ASSUME Typed, Fits, SpendElsewhere \/ Expire
  PROVE  Fits'
<1>1. UNCHANGED <<recordVars, memoryVars, task, net, landed>> /\ (spent => spent')
  BY DEF SpendElsewhere, Expire
<1>2. UNCHANGED <<status, marked, decision, task, net, landed>>
  BY <1>1 DEF recordVars, memoryVars
<1>3. QED
  BY <1>1, <1>2 DEF Fits, ChainFits, TaskFits, DecisionFits, LivePayloadIsHeld, Fresh

LEMMA TickFits ==
  ASSUME Typed, Fits, Tick
  PROVE  Fits'
<1>1. /\ UNCHANGED <<status, marked, net, spent>>
      /\ \A x \in Tx :
           landed'[x] = IF net[x] = "included" /\ landed[x] < DecisionTTL
                        THEN landed[x] + 1 ELSE landed[x]
  BY DEF Tick
<1>2. ASSUME NEW x \in Tx, NEW u \in 0 .. DecisionTTL, landed[x] + u <= DecisionTTL
      PROVE  landed'[x] + Less(u) <= DecisionTTL
  <2>1. landed[x] \in 0 .. DecisionTTL
    BY DEF Typed
  <2>2. QED
    BY <1>1, <1>2, <2>1, PayrollAssumption DEF Less
<1>3. ChainFits'
  BY <1>1 DEF Fits, ChainFits
<1>4. \A u \in Task :
        /\ task'[u].at = task[u].at /\ task'[u].tx = task[u].tx
        /\ task'[u].seen = task[u].seen /\ task'[u].end = task[u].end
        /\ task'[u].until = Less(task[u].until)
        /\ task[u].until \in 0 .. DecisionTTL
  <2>1. ASSUME NEW u \in Task
        PROVE  task[u] \in Call /\ task'[u] = [task[u] EXCEPT !.until = Less(@)]
    BY DEF Tick, Typed
  <2>2. QED
    BY <2>1, Aged DEF Call
<1>5. ASSUME NEW u \in Task PROVE TaskFits(u)'
  <2>1. TaskFits(u)
    BY DEF Fits
  <2>2. QED
    BY <1>1, <1>2, <1>4, <2>1 DEF TaskFits, Armed
<1>6. ASSUME NEW p \in Process, NEW e \in decision'[p] PROVE DecisionFits(e)'
  <2>1. PICK d \in decision[p] : e = [d EXCEPT !.ttl = Less(@)]
    BY DEF Tick
  <2>2. d \in Decision /\ DecisionFits(d)
    BY DEF Typed, Fits
  <2>3. e.tx = d.tx /\ e.ttl = Less(d.ttl) /\ d.ttl \in 0 .. DecisionTTL /\ d.tx \in Tx
    BY <2>1, <2>2, AgedDecision DEF Decision
  <2>4. QED
    BY <1>1, <1>2, <2>2, <2>3 DEF DecisionFits
<1>7. LivePayloadIsHeld'
  <2>1. \A u \in Task : Fresh(u)' => Fresh(u)
    BY <1>4, PayrollAssumption DEF Fresh, Less
  <2>2. QED
    BY <1>1, <1>4, <2>1 DEF Fits, LivePayloadIsHeld
<1>8. QED
  BY <1>3, <1>5, <1>6, <1>7 DEF Fits

LEMMA CrashFits ==
  ASSUME Typed, Fits, NEW p \in Process, Crash(p)
  PROVE  Fits'
<1>1. /\ UNCHANGED <<status, marked>> /\ UNCHANGED chainVars
      /\ \A u \in Task : task'[u] = task[u] \/ task'[u] = Idle
      /\ decision' = [decision EXCEPT ![p] = {}]
  BY DEF Crash
<1>2. \A u \in Task : task'[u] = task[u] \/ (FitsAfter(u) /\ task'[u].at # "send")
  BY <1>1, IdleFits
<1>3. Decided
  BY <1>1 DEF Decided, Typed
<1>4. RecordMoves
  BY <1>1 DEF RecordMoves, Fits, ChainFits
<1>5. LetsGo
  BY <1>1, <1>2 DEF LetsGo
<1>6. QED
  BY <1>1, <1>2, <1>3, <1>4, <1>5, QuietChain


------------------------------------------------------------------------------
(* Counting.                                                               *)

LEMMA Finite ==
  ASSUME Typed, OneUse
  PROVE  /\ IsFiniteSet(Inspecting) /\ Cardinality(Inspecting) \in Nat
         /\ IsFiniteSet(Arming) /\ Cardinality(Arming) \in Nat
         /\ IsFiniteSet(Ids) /\ Cardinality(Ids) \in Nat
<1>1. IsFiniteSet(Inspecting) /\ IsFiniteSet(Arming)
  <2>1. Inspecting \subseteq Task /\ Arming \subseteq Task
    BY DEF Inspecting, Arming
  <2>2. QED
    BY <2>1, PayrollAssumption, FS_Subset
<1>2. IsFiniteSet(Ids)
  <2>1. ASSUME NEW i \in Ids PROVE i \in 0 .. issued - 1
    <3>1. \E p \in Process : \E d \in decision[p] : i = d.id
      BY DEF Ids
    <3>2. PICK p \in Process : \E d \in decision[p] : i = d.id
      BY <3>1
    <3>3. PICK d \in decision[p] : i = d.id
      BY <3>2
    <3>4. d \in Decision /\ d.id < issued
      BY <3>3 DEF Typed, OneUse
    <3>5. QED
      BY <3>3, <3>4 DEF Typed, Decision
  <2>2. IsFiniteSet(0 .. issued - 1)
    BY FS_Interval DEF Typed
  <2>3. QED
    BY <2>1, <2>2, FS_Subset
<1>3. QED
  BY <1>1, <1>2, FS_CardinalityType

(* Calls look no more often and are armed no more often than before.       *)
MovesOn ==
  \A u \in Task :
    \/ task'[u].at = task[u].at
    \/ task'[u].at \notin {"inspected", "before", "mark", "send"}
    \/ task[u].at \in {"before", "mark"} /\ task'[u].at \in {"mark", "send"}

LEMMA FewerCalls ==
  ASSUME Typed, OneUse, MovesOn
  PROVE  /\ Cardinality(Inspecting') <= Cardinality(Inspecting)
         /\ Cardinality(Arming') <= Cardinality(Arming)
         /\ Cardinality(Inspecting') \in Nat /\ Cardinality(Arming') \in Nat
<1>1. Inspecting' \subseteq Inspecting /\ Arming' \subseteq Arming
  BY DEF MovesOn, Inspecting, Arming, Armed
<1>2. QED
  BY <1>1, Finite, FS_Subset, FS_CardinalityType

LEMMA FewerDecisions ==
  ASSUME Typed, OneUse, UNCHANGED issued,
         \A p \in Process : decision'[p] \subseteq decision[p]
  PROVE  /\ OneUse'
         /\ Cardinality(Ids') <= Cardinality(Ids) /\ Cardinality(Ids') \in Nat
<1>1. Ids' \subseteq Ids
  BY DEF Ids
<1>2. OneUse'
  BY DEF OneUse
<1>3. QED
  BY <1>1, <1>2, Finite, FS_Subset, FS_CardinalityType

LEMMA CountKept ==
  ASSUME Typed, Counting, UNCHANGED <<sends, issued>>, MovesOn,
         \A p \in Process : decision'[p] \subseteq decision[p]
  PROVE  Counting'
<1>1. /\ OneUse'
      /\ Cardinality(Ids') <= Cardinality(Ids) /\ Cardinality(Ids') \in Nat
  BY FewerDecisions DEF Counting
<1>2. /\ Cardinality(Inspecting') <= Cardinality(Inspecting)
      /\ Cardinality(Arming') <= Cardinality(Arming)
      /\ Cardinality(Inspecting') \in Nat /\ Cardinality(Arming') \in Nat
  BY FewerCalls DEF Counting
<1>3. /\ Cardinality(Ids) \in Nat /\ Cardinality(Inspecting) \in Nat
      /\ Cardinality(Arming) \in Nat
  BY Finite DEF Counting
<1>4. QED
  BY <1>1, <1>2, <1>3, PayrollAssumption DEF Counting, Typed


(* A call that only goes on.                                               *)
GoesOn(t) ==
  /\ \A u \in Task \ {t} : task'[u] = task[u]
  /\ \/ task'[t].at = task[t].at
     \/ task'[t].at \notin {"inspected", "before", "mark", "send"}
     \/ task[t].at \in {"before", "mark"} /\ task'[t].at \in {"mark", "send"}
  /\ \A p \in Process : decision'[p] \subseteq decision[p]
  /\ UNCHANGED <<sends, issued>>

LEMMA GoingOnCounts ==
  ASSUME Typed, Counting, NEW t \in Task, GoesOn(t)
  PROVE  Counting'
<1>1. MovesOn
  BY DEF GoesOn, MovesOn
<1>2. QED
  BY <1>1, CountKept DEF GoesOn

LEMMA EndGoesOn ==
  ASSUME Typed, NEW t \in Task, NEW e \in Result, End(t, e), UNCHANGED <<decision, sends, issued>>
  PROVE  GoesOn(t)
<1>1. task'[t].at = "done" /\ \A u \in Task \ {t} : task'[u] = task[u]
  BY Ends
<1>2. QED
  BY <1>1 DEF GoesOn

LEMMA StepGoesOn ==
  ASSUME Typed, NEW t \in Task, NEW at \in Place, Step(t, at), UNCHANGED <<decision, sends, issued>>,
         \/ at \notin {"inspected", "before", "mark", "send"}
         \/ task[t].at \in {"before", "mark"} /\ at \in {"mark", "send"}
  PROVE  GoesOn(t)
<1>1. task'[t].at = at /\ \A u \in Task \ {t} : task'[u] = task[u]
  BY Steps
<1>2. QED
  BY <1>1 DEF GoesOn

LEMMA QuietCounts ==
  ASSUME Typed, Counting, NEW t \in Task,
         \/ BeforeMarker(t) \/ Mark(t) \/ Heartbeat(t) \/ Answer(t)
         \/ RecordResolved(t) \/ RecordUnknown(t) \/ Reconcile(t) \/ Again(t)
         \/ \E x \in Tx : StartReconcile(t, x)
  PROVE  Counting'
<1>1. UNCHANGED <<decision, issued, sends>>
  BY DEF BeforeMarker, Mark, Heartbeat, Answer, RecordResolved, RecordUnknown, Reconcile, Again,
         StartReconcile, memoryVars
<1>2. ASSUME NEW e \in Result, End(t, e)
      PROVE  Counting'
  BY <1>1, <1>2, EndGoesOn, GoingOnCounts
<1>3. ASSUME NEW at \in {"answer", "resolved", "unknown"}, Step(t, at)
      PROVE  Counting'
  <2>1. at \in Place /\ at \notin {"inspected", "before", "mark", "send"}
    BY DEF Place
  <2>2. QED
    BY <1>1, <1>3, <2>1, StepGoesOn, GoingOnCounts
<1>4. ASSUME NEW at \in {"mark", "send"}, Step(t, at), task[t].at \in {"before", "mark"}
      PROVE  Counting'
  <2>1. at \in Place
    BY DEF Place
  <2>2. QED
    BY <1>1, <1>4, <2>1, StepGoesOn, GoingOnCounts
<1>5. ASSUME NEW k, Goto(t, k), k.at \notin {"inspected", "before", "mark", "send"}
      PROVE  Counting'
  <2>1. task'[t] = k /\ \A u \in Task \ {t} : task'[u] = task[u]
    BY <1>5 DEF Goto, Typed
  <2>2. GoesOn(t)
    BY <1>1, <1>5, <2>1 DEF GoesOn
  <2>3. QED
    BY <2>2, GoingOnCounts
<1>6. CASE BeforeMarker(t)
  <2>1. \/ Step(t, "mark") /\ task[t].at = "before"
        \/ End(t, "flagged") \/ End(t, "thrown")
    BY <1>6 DEF BeforeMarker
  <2>2. QED
    BY <2>1, <1>2, <1>4 DEF Result
<1>7. CASE Mark(t)
  <2>1. CASE Goto(t, [task[t] EXCEPT !.at = "send", !.beat = "ok"])
    <3>1. task[t].at = "mark" /\ task[t] \in Call
      BY <1>7 DEF Mark, Typed
    <3>2. /\ task'[t] = [task[t] EXCEPT !.at = "send", !.beat = "ok"]
          /\ \A u \in Task \ {t} : task'[u] = task[u]
      BY <2>1 DEF Goto, Typed
    <3>3. task'[t].at = "send"
      BY <3>1, <3>2 DEF Call
    <3>4. GoesOn(t)
      BY <1>1, <3>1, <3>2, <3>3 DEF GoesOn
    <3>5. QED
      BY <3>4, GoingOnCounts
  <2>2. \/ Goto(t, [task[t] EXCEPT !.at = "send", !.beat = "ok"])
        \/ Step(t, "send") /\ task[t].at = "mark"
        \/ End(t, "flagged")
    BY <1>7 DEF Mark, MarkFails
  <2>3. QED
    BY <2>1, <2>2, <1>2, <1>4 DEF Result
<1>8. CASE Heartbeat(t)
  <2>1. task[t] \in Call
    BY DEF Typed
  <2>2. /\ task'[t].at = task[t].at
        /\ \A u \in Task \ {t} : task'[u] = task[u]
    BY <1>8, <2>1 DEF Heartbeat, Goto, Typed, Call
  <2>3. GoesOn(t)
    BY <1>1, <2>2 DEF GoesOn
  <2>4. QED
    BY <2>3, GoingOnCounts
<1>9. CASE Answer(t)
  <2>1. Step(t, "resolved") \/ Step(t, "unknown")
    BY <1>9 DEF Answer
  <2>2. QED
    BY <2>1, <1>3
<1>10. CASE RecordResolved(t)
  <2>1. Step(t, "unknown") \/ End(t, "returned")
    BY <1>10 DEF RecordResolved
  <2>2. QED
    BY <2>1, <1>2, <1>3 DEF Result
<1>11. CASE RecordUnknown(t)
  <2>1. End(t, "flagged")
    BY <1>11 DEF RecordUnknown
  <2>2. QED
    BY <2>1, <1>2 DEF Result
<1>12. CASE Reconcile(t)
  <2>1. \E e \in {"none", "paid", "failed", "review"} : End(t, e)
    BY <1>12 DEF Reconcile
  <2>2. QED
    BY <2>1, <1>2 DEF Result
<1>13. CASE Again(t)
  <2>1. Goto(t, Idle) /\ Idle.at = "idle"
    BY <1>13, IdleCall DEF Again
  <2>2. QED
    BY <2>1, <1>5
<1>14. ASSUME NEW x \in Tx, StartReconcile(t, x)
       PROVE  Counting'
  <2> DEFINE k == [Idle EXCEPT !.at = "reconcile", !.tx = x, !.seen = Observed(x), !.read = status]
  <2>1. Goto(t, k)
    BY <1>14 DEF StartReconcile
  <2>2. k.at = "reconcile"
    BY DEF Idle
  <2>3. QED
    BY <2>1, <2>2, <1>5
<1>15. QED
  BY <1>6, <1>7, <1>8, <1>9, <1>10, <1>11, <1>12, <1>13, <1>14


LEMMA InspectCounts ==
  ASSUME Typed, Counting, NEW t \in Task, NEW x \in Tx, Inspect(t, x)
  PROVE  Counting'
<1> DEFINE k == [Idle EXCEPT !.at = "inspected", !.tx = x, !.seen = Observed(x)]
<1>1. k.at = "inspected"
  BY DEF Idle
<1>2. /\ Goto(t, k) /\ task[t].at = "idle"
      /\ issued + Cardinality(Inspecting) < MaxDecisions
      /\ UNCHANGED <<decision, issued, sends>>
  BY DEF Inspect, Inspecting, memoryVars
<1>3. task'[t] = k /\ \A u \in Task \ {t} : task'[u] = task[u]
  BY <1>2 DEF Goto, Typed
<1> HIDE DEF k
<1>4. Inspecting' = Inspecting \cup {t} /\ t \notin Inspecting
  BY <1>1, <1>2, <1>3 DEF Inspecting
<1>5. Arming' = Arming /\ Ids' = Ids
  BY <1>1, <1>2, <1>3 DEF Arming, Armed, Ids
<1>6. Cardinality(Inspecting') = Cardinality(Inspecting) + 1
  BY <1>4, Finite, FS_AddElement DEF Counting
<1>7. OneUse'
  BY <1>2 DEF Counting, OneUse
<1>8. Cardinality(Inspecting) \in Nat
  BY Finite DEF Counting
<1>9. QED
  BY <1>2, <1>5, <1>6, <1>7, <1>8, PayrollAssumption DEF Counting, Typed

LEMMA DecideCounts ==
  ASSUME Typed, Counting, NEW t \in Task, Decide(t)
  PROVE  Counting'
<1> DEFINE p == ProcessOf[t]
           d == [tx |-> task[t].tx, ttl |-> DecisionTTL, id |-> issued]
<1>1. /\ task[t].at = "inspected" /\ Goto(t, Idle) /\ sends' = sends
      /\ Idle.at = "idle" /\ p \in Process
  BY IdleCall, PayrollAssumption DEF Decide
<1>2. task'[t] = Idle /\ \A u \in Task \ {t} : task'[u] = task[u]
  BY <1>1 DEF Goto, Typed
<1>3. CASE UNCHANGED <<decision, issued>>
  <2>1. GoesOn(t)
    BY <1>1, <1>2, <1>3 DEF GoesOn
  <2>2. QED
    BY <2>1, GoingOnCounts
<1>4. CASE decision' = [decision EXCEPT ![p] = @ \cup {d}] /\ issued' = issued + 1
  <2>1. /\ \A q \in Process : decision'[q] = IF q = p THEN decision[q] \cup {d} ELSE decision[q]
        /\ d.id = issued
    BY <1>4 DEF Typed
  <2>2. \A q \in Process : \A e \in decision[q] : e.id < issued /\ e.id \in Nat
    BY DEF Counting, OneUse, Typed, Decision
  <2> HIDE DEF d, p
  <2>3. Ids' = Ids \cup {issued}
    <3>1. ASSUME NEW i \in Ids' PROVE i \in Ids \cup {issued}
      <4>1. PICK q \in Process : i \in {e.id : e \in decision'[q]}
        BY <3>1 DEF Ids
      <4>2. PICK e \in decision'[q] : i = e.id
        BY <4>1
      <4>3. e \in decision[q] \/ e = d
        BY <2>1, <4>2
      <4>4. QED
        BY <2>1, <4>2, <4>3 DEF Ids
    <3>2. ASSUME NEW i \in Ids PROVE i \in Ids'
      <4>1. PICK q \in Process : i \in {e.id : e \in decision[q]}
        BY <3>2 DEF Ids
      <4>2. PICK e \in decision[q] : i = e.id
        BY <4>1
      <4>3. e \in decision'[q]
        BY <2>1, <4>2
      <4>4. QED
        BY <4>2, <4>3 DEF Ids
    <3>3. issued \in Ids'
      <4>1. d \in decision'[p]
        BY <1>1, <2>1
      <4>2. QED
        BY <1>1, <2>1, <4>1 DEF Ids
    <3>4. QED
      BY <3>1, <3>2, <3>3
  <2>4. issued \notin Ids
    BY <2>2 DEF Ids, Typed
  <2>5. OneUse'
    <3>1. \A q \in Process : \A e \in decision'[q] :
            e.id < issued' /\ (e.id = issued => q = p /\ e = d)
      BY <1>1, <1>4, <2>1, <2>2 DEF Typed
    <3>2. ASSUME NEW q \in Process, NEW e \in decision'[q],
                 NEW r \in Process, NEW f \in decision'[r], e.id = f.id
          PROVE  q = r /\ e = f
      <4>1. CASE e.id = issued
        BY <3>1, <3>2, <4>1
      <4>2. CASE e.id # issued
        <5>1. e \in decision[q] /\ f \in decision[r]
          BY <2>1, <3>2, <4>2
        <5>2. QED
          BY <3>2, <5>1 DEF Counting, OneUse
      <4>3. QED
        BY <4>1, <4>2
    <3>3. QED
      BY <3>1, <3>2 DEF OneUse
  <2>6. Inspecting' = Inspecting \ {t} /\ t \in Inspecting /\ Arming' = Arming
    BY <1>1, <1>2 DEF Inspecting, Arming, Armed
  <2>7. /\ IsFiniteSet(Inspecting) /\ IsFiniteSet(Ids)
        /\ Cardinality(Inspecting) \in Nat /\ Cardinality(Arming) \in Nat
        /\ Cardinality(Ids) \in Nat
    BY Finite DEF Counting
  <2>8. Cardinality(Inspecting') = Cardinality(Inspecting) - 1
    BY <2>6, <2>7, FS_RemoveElement
  <2>9. Cardinality(Ids') = Cardinality(Ids) + 1
    BY <2>3, <2>4, <2>7, FS_AddElement
  <2>10. QED
    BY <1>1, <1>4, <2>5, <2>6, <2>7, <2>8, <2>9, PayrollAssumption DEF Counting, Typed
<1>5. QED
  BY <1>3, <1>4 DEF Decide

LEMMA RetransmitCounts ==
  ASSUME Typed, Counting, NEW t \in Task, NEW d \in decision[ProcessOf[t]], Retransmit(t, d)
  PROVE  Counting'
<1> DEFINE p == ProcessOf[t]
<1>1. /\ task[t].at = "idle" /\ p \in Process /\ UNCHANGED <<sends, issued>>
      /\ decision' = [decision EXCEPT ![p] = decision[p] \ {d}]
  BY PayrollAssumption DEF Retransmit, Consume, Typed
<1>2. \A q \in Process : decision'[q] = IF q = p THEN decision[q] \ {d} ELSE decision[q]
  BY <1>1 DEF Typed
<1> HIDE DEF p
<1>3. CASE ~(d.ttl > 0 /\ ~expired)
  <2> DEFINE k == [Idle EXCEPT !.at = "done", !.end = "thrown"]
  <2>1. Goto(t, k) /\ k.at = "done"
    BY <1>3 DEF Retransmit, Idle
  <2> HIDE DEF k
  <2>2. task'[t] = k /\ \A u \in Task \ {t} : task'[u] = task[u]
    BY <2>1 DEF Goto, Typed
  <2>3. GoesOn(t)
    BY <1>1, <1>2, <2>1, <2>2 DEF GoesOn
  <2>4. QED
    BY <2>3, GoingOnCounts
<1>4. CASE d.ttl > 0 /\ ~expired
  <2> DEFINE k == [Idle EXCEPT !.at = "before", !.tx = d.tx, !.until = d.ttl]
  <2>1. Goto(t, k) /\ k.at = "before"
    BY <1>4 DEF Retransmit, Idle
  <2> HIDE DEF k
  <2>2. task'[t] = k /\ \A u \in Task \ {t} : task'[u] = task[u]
    BY <2>1 DEF Goto, Typed
  <2>3. Arming' = Arming \cup {t} /\ t \notin Arming /\ Inspecting' = Inspecting
    BY <1>1, <2>1, <2>2 DEF Arming, Armed, Inspecting
  <2>4. \A q \in Process : \A e \in decision[q] : e.id = d.id => q = p /\ e = d
    BY <1>1 DEF Counting, OneUse, p
  <2>5. d \in decision[p]
    BY DEF p
  <2>6. Ids' = Ids \ {d.id} /\ d.id \in Ids
    <3>1. d.id \in Ids
      BY <1>1, <2>5 DEF Ids
    <3>2. ASSUME NEW i \in Ids' PROVE i \in Ids \ {d.id}
      <4>1. PICK q \in Process : i \in {e.id : e \in decision'[q]}
        BY <3>2 DEF Ids
      <4>2. PICK e \in decision'[q] : i = e.id
        BY <4>1
      <4>3. e \in decision[q] /\ ~(q = p /\ e = d)
        BY <1>2, <4>2
      <4>4. QED
        BY <2>4, <4>2, <4>3 DEF Ids
    <3>3. ASSUME NEW i \in Ids, i # d.id PROVE i \in Ids'
      <4>1. PICK q \in Process : i \in {e.id : e \in decision[q]}
        BY <3>3 DEF Ids
      <4>2. PICK e \in decision[q] : i = e.id
        BY <4>1
      <4>3. e \in decision'[q]
        BY <1>2, <3>3, <4>2
      <4>4. QED
        BY <4>2, <4>3 DEF Ids
    <3>4. QED
      BY <3>1, <3>2, <3>3
  <2>7. OneUse'
    <3>1. \A q \in Process : decision'[q] \subseteq decision[q]
      BY <1>2
    <3>2. QED
      BY <1>1, <3>1, FewerDecisions DEF Counting
  <2>8. /\ IsFiniteSet(Arming) /\ IsFiniteSet(Ids)
        /\ Cardinality(Inspecting) \in Nat /\ Cardinality(Arming) \in Nat
        /\ Cardinality(Ids) \in Nat
    BY Finite DEF Counting
  <2>9. Cardinality(Arming') = Cardinality(Arming) + 1
    BY <2>3, <2>8, FS_AddElement
  <2>10. Cardinality(Ids') = Cardinality(Ids) - 1
    BY <2>6, <2>8, FS_RemoveElement
  <2>11. QED
    BY <1>1, <2>3, <2>7, <2>8, <2>9, <2>10 DEF Counting, Typed
<1>5. QED
  BY <1>3, <1>4


LEMMA SendCounts ==
  ASSUME Typed, Counting, NEW t \in Task, Send(t)
  PROVE  Counting'
<1>1. task[t].at = "send" /\ UNCHANGED <<decision, issued>>
  BY DEF Send, memoryVars
<1>2. CASE Step(t, "unknown") /\ UNCHANGED sends
  <2>1. "unknown" \in Place /\ "unknown" \notin {"inspected", "before", "mark", "send"}
    BY DEF Place
  <2>2. QED
    BY <1>1, <1>2, <2>1, StepGoesOn, GoingOnCounts
<1>3. CASE Step(t, "answer") /\ sends' = sends + 1
  <2>1. task'[t].at = "answer" /\ \A u \in Task \ {t} : task'[u] = task[u]
    BY <1>3, Steps DEF Place
  <2>2. Arming' = Arming \ {t} /\ t \in Arming /\ Inspecting' = Inspecting
    BY <1>1, <2>1 DEF Arming, Armed, Inspecting
  <2>3. Ids' = Ids /\ OneUse'
    BY <1>1 DEF Ids, OneUse, Counting
  <2>4. /\ IsFiniteSet(Arming)
        /\ Cardinality(Inspecting) \in Nat /\ Cardinality(Arming) \in Nat
        /\ Cardinality(Ids) \in Nat
    BY Finite DEF Counting
  <2>5. Cardinality(Arming') = Cardinality(Arming) - 1
    BY <2>2, <2>4, FS_RemoveElement
  <2>6. QED
    BY <1>1, <1>3, <2>2, <2>3, <2>4, <2>5 DEF Counting, Typed
<1>4. QED
  BY <1>2, <1>3 DEF Send

LEMMA TickCounts ==
  ASSUME Typed, Counting, Tick
  PROVE  Counting'
<1> DEFINE Older(d) == [d EXCEPT !.ttl = Less(@)]
<1>1. UNCHANGED <<issued, sends>>
  BY DEF Tick
<1>2. \A u \in Task : task'[u].at = task[u].at
  <2>1. \A u \in Task : task[u] \in Call /\ task'[u] = [task[u] EXCEPT !.until = Less(@)]
    BY DEF Tick, Typed
  <2>2. QED
    BY <2>1, Aged
<1>3. Inspecting' = Inspecting /\ Arming' = Arming
  BY <1>2 DEF Inspecting, Arming
<1>4. \A p \in Process : decision'[p] = {Older(d) : d \in decision[p]}
  BY DEF Tick
<1>5. \A d \in Decision : Older(d).id = d.id
  BY DEF Decision
<1>6. \A p \in Process : \A d \in decision[p] : d \in Decision
  BY DEF Typed
<1> HIDE DEF Older
<1>7. \A p \in Process : {e.id : e \in decision'[p]} = {d.id : d \in decision[p]}
  <2>1. ASSUME NEW p \in Process, NEW d \in decision[p]
        PROVE  \E e \in decision'[p] : e.id = d.id
    BY <1>4, <1>5, <1>6, <2>1
  <2>2. ASSUME NEW p \in Process, NEW e \in decision'[p]
        PROVE  \E d \in decision[p] : e.id = d.id
    BY <1>4, <1>5, <1>6, <2>2
  <2>3. QED
    BY <2>1, <2>2
<1>8. Ids' = Ids
  BY <1>7 DEF Ids
<1>9. OneUse'
  <2>1. ASSUME NEW p \in Process, NEW e \in decision'[p]
        PROVE  \E d \in decision[p] : e = Older(d) /\ e.id = d.id
    BY <1>4, <1>5, <1>6, <2>1
  <2>2. ASSUME NEW p \in Process, NEW e \in decision'[p]
        PROVE  e.id < issued'
    BY <1>1, <2>1, <2>2 DEF Counting, OneUse
  <2>3. ASSUME NEW p \in Process, NEW e \in decision'[p],
               NEW q \in Process, NEW f \in decision'[q], e.id = f.id
        PROVE  p = q /\ e = f
    <3>1. PICK d \in decision[p] : e = Older(d) /\ e.id = d.id
      BY <2>1
    <3>2. PICK g \in decision[q] : f = Older(g) /\ f.id = g.id
      BY <2>1
    <3>3. p = q /\ d = g
      BY <2>3, <3>1, <3>2 DEF Counting, OneUse
    <3>4. QED
      BY <3>1, <3>2, <3>3
  <2>4. QED
    BY <2>2, <2>3 DEF OneUse
<1>10. QED
  BY <1>1, <1>3, <1>8, <1>9 DEF Counting

LEMMA CrashCounts ==
  ASSUME Typed, Counting, NEW p \in Process, Crash(p)
  PROVE  Counting'
<1>1. UNCHANGED <<issued, sends>> /\ Idle.at = "idle"
  BY IdleCall DEF Crash
<1>2. MovesOn
  BY <1>1 DEF Crash, MovesOn
<1>3. \A q \in Process : decision'[q] \subseteq decision[q]
  BY DEF Crash, Typed
<1>4. QED
  BY <1>1, <1>2, <1>3, CountKept

LEMMA ElseCounts ==
  ASSUME Typed, Counting, UNCHANGED <<task, decision, issued, sends>>
  PROVE  Counting'
<1>1. MovesOn
  BY DEF MovesOn
<1>2. QED
  BY <1>1, CountKept

LEMMA InitCounts == Init => Counting
<1> SUFFICES ASSUME Init PROVE Counting
  OBVIOUS
<1>1. Inspecting = {} /\ Arming = {} /\ Ids = {}
  BY IdleCall DEF Init, Inspecting, Arming, Armed, Ids
<1>2. OneUse
  BY DEF Init, OneUse
<1>3. QED
  BY <1>1, <1>2, FS_EmptySet, PayrollAssumption DEF Counting, Init

------------------------------------------------------------------------------
(* Every step.                                                             *)

LEMMA TaskStep ==
  ASSUME IInv, NEW t \in Task,
         \/ CallStep(t) \/ Heartbeat(t) \/ Again(t)
         \/ \E x \in Tx : Inspect(t, x) \/ StartReconcile(t, x)
         \/ \E d \in decision[ProcessOf[t]] : Retransmit(t, d)
  PROVE  IInv'
<1>1. Typed /\ Fits /\ Counting
  BY DEF IInv
<1>2. CASE Decide(t)
  BY <1>1, <1>2, DecideFits, DecideCounts DEF IInv
<1>3. CASE BeforeMarker(t)
  BY <1>1, <1>3, BeforeMarkerFits, QuietCounts DEF IInv
<1>4. CASE Mark(t)
  BY <1>1, <1>4, MarkFits, QuietCounts DEF IInv
<1>5. CASE Send(t)
  BY <1>1, <1>5, SendFits, SendCounts DEF IInv
<1>6. CASE Answer(t)
  BY <1>1, <1>6, AnswerFits, QuietCounts DEF IInv
<1>7. CASE RecordResolved(t)
  BY <1>1, <1>7, ResolvedFits, QuietCounts DEF IInv
<1>8. CASE RecordUnknown(t)
  BY <1>1, <1>8, UnknownFits, QuietCounts DEF IInv
<1>9. CASE Reconcile(t)
  BY <1>1, <1>9, ReconcileFits, QuietCounts DEF IInv
<1>10. CASE Heartbeat(t)
  BY <1>1, <1>10, HeartbeatFits, QuietCounts DEF IInv
<1>11. CASE Again(t)
  BY <1>1, <1>11, AgainFits, QuietCounts DEF IInv
<1>12. ASSUME NEW x \in Tx, Inspect(t, x)
       PROVE  IInv'
  BY <1>1, <1>12, InspectFits, InspectCounts DEF IInv
<1>13. ASSUME NEW x \in Tx, StartReconcile(t, x)
       PROVE  IInv'
  BY <1>1, <1>13, StartReconcileFits, QuietCounts DEF IInv
<1>14. ASSUME NEW d \in decision[ProcessOf[t]], Retransmit(t, d)
       PROVE  IInv'
  BY <1>1, <1>14, RetransmitFits, RetransmitCounts DEF IInv
<1>15. QED
  BY <1>2, <1>3, <1>4, <1>5, <1>6, <1>7, <1>8, <1>9, <1>10, <1>11, <1>12, <1>13, <1>14
     DEF CallStep

LEMMA NextStep == IInv /\ [Next]_vars => IInv'
<1> SUFFICES ASSUME IInv, [Next]_vars PROVE IInv'
  OBVIOUS
<1>1. Typed /\ Fits /\ Counting
  BY DEF IInv
<1>2. ASSUME NEW p \in Process,
             \/ Reserve(p) \/ Claim(p) \/ Prove(p)
             \/ \E x \in Tx : Sign(p, x) \/ Save(p, x) \/ Resume(p, x)
      PROVE  IInv'
  <2>1. UNCHANGED <<task, decision, issued, sends>>
    BY <1>2 DEF Reserve, Claim, Prove, Sign, Save, Resume, memoryVars
  <2>2. QED
    BY <1>1, <1>2, <2>1, PrepareTyped, PrepareFits, ElseCounts DEF IInv
<1>3. ASSUME NEW p \in Process, Crash(p)
      PROVE  IInv'
  BY <1>1, <1>3, WorldTyped, CrashFits, CrashCounts DEF IInv
<1>4. CASE Tick
  BY <1>1, <1>4, WorldTyped, TickFits, TickCounts DEF IInv
<1>5. ASSUME NEW x \in Tx, Settle(x)
      PROVE  IInv'
  <2>1. UNCHANGED <<task, decision, issued, sends>>
    BY <1>5 DEF Settle, memoryVars
  <2>2. QED
    BY <1>1, <1>5, <2>1, WorldTyped, SettleFits, ElseCounts DEF IInv
<1>6. CASE OthersLetGo \/ ScanFindsSpent
  <2>1. UNCHANGED <<task, decision, issued, sends>>
    BY <1>6 DEF OthersLetGo, ScanFindsSpent, memoryVars
  <2>2. QED
    BY <1>1, <1>6, <2>1, WorldTyped, OthersFit, ElseCounts DEF IInv
<1>7. CASE SpendElsewhere \/ Expire
  <2>1. UNCHANGED <<task, decision, issued, sends>>
    BY <1>7 DEF SpendElsewhere, Expire, memoryVars
  <2>2. QED
    BY <1>1, <1>7, <2>1, WorldTyped, ElsewhereFits, ElseCounts DEF IInv
<1>8. CASE UNCHANGED vars
  <2>1. UNCHANGED <<recordVars, memoryVars, task, sends, chainVars>>
    BY <1>8 DEF vars
  <2>2. Typed'
    BY <1>1, <2>1 DEF Typed, recordVars, memoryVars, chainVars
  <2>3. Fits'
    <3>1. RecordMoves /\ LetsGo
      BY <1>1, <2>1 DEF RecordMoves, LetsGo, recordVars, Fits, ChainFits
    <3>2. QED
      BY <1>1, <2>1, <3>1, OnlyRecord
  <2>4. QED
    BY <1>1, <2>1, <2>2, <2>3, ElseCounts DEF IInv, memoryVars
<1>9. CASE Next
  BY <1>2, <1>3, <1>4, <1>5, <1>6, <1>7, <1>9, TaskStep DEF Next
<1>10. QED
  BY <1>8, <1>9

(* Whatever processes do, and wherever they crash, the bytes on the chain, *)
(* the record, the calls under way and the decisions they hold agree.      *)
THEOREM Invariance == Spec => []IInv
<1>1. Init => IInv
  BY InitTyped, InitFits, InitCounts DEF IInv
<1>2. QED
  BY <1>1, NextStep, PTL DEF Spec


LEMMA InvariantIsSafe ==
  ASSUME IInv
  PROVE  PaymentIsSafe
<1>1. Typed /\ ChainFits /\ OneUse /\ \A t \in Task : TaskFits(t)
  BY DEF IInv, Fits, Counting
<1>2. /\ Cardinality(Inspecting) \in Nat /\ Cardinality(Arming) \in Nat
      /\ Cardinality(Ids) \in Nat
  BY <1>1, Finite
<1>3. sends <= issued /\ issued <= MaxDecisions
  BY <1>1, <1>2, PayrollAssumption DEF IInv, Counting, Typed
<1>4. TypeOK
  BY <1>1, <1>3, PayrollAssumption DEF TypeOK, Typed, RecordStatus, Lease
<1>5. OneTransaction /\ MarkedBeforeSent
  BY <1>1 DEF OneTransaction, MarkedBeforeSent, ChainFits
<1>6. LivePayloadIsHeld
  BY DEF IInv, Fits
<1>7. ReturnedIsRecorded
  BY <1>1 DEF ReturnedIsRecorded, TaskFits
<1>8. PaidIsPaid
  BY <1>1 DEF PaidIsPaid, TaskFits
<1>9. QED
  BY <1>3, <1>4, <1>5, <1>6, <1>7, <1>8 DEF PaymentIsSafe, SendsAreDecided

(* Whatever number of processes sign, crash, resume and retransmit one     *)
(* payment: one transaction is ever sent, it was on the record first, each *)
(* send used up a decision of its own, inputs whose payment may still      *)
(* happen are not let go, and what calls report is what happened.          *)
THEOREM PaymentsAreSafe == Spec => []PaymentIsSafe
<1>1. IInv => PaymentIsSafe
  BY InvariantIsSafe
<1>2. QED
  BY <1>1, Invariance, PTL

LateResend ==
  \A x \in Tx :
    net[x] = "included" /\ sends' > sends /\ (\E t \in Task : task[t].at = "send" /\ task[t].tx = x)
      => landed[x] < DecisionTTL

LEMMA OnlySendSends ==
  ASSUME [Next]_vars, sends' # sends
  PROVE  \E t \in Task : Send(t)
  BY DEF Next, CallStep, Decide, BeforeMarker, Mark, Answer, RecordResolved, RecordUnknown,
     Reconcile, Heartbeat, Again, Inspect, StartReconcile, Retransmit, Reserve, Claim, Prove,
     Crash, Sign, Save, Resume, Settle, OthersLetGo, ScanFindsSpent, SpendElsewhere, Expire,
     Tick, vars

LEMMA ResendStep == IInv /\ [Next]_vars => LateResend
<1> SUFFICES ASSUME IInv, [Next]_vars, NEW x \in Tx, net[x] = "included", sends' > sends
             PROVE  landed[x] < DecisionTTL
  BY DEF LateResend
<1>1. Typed /\ ChainFits /\ \A t \in Task : TaskFits(t)
  BY DEF IInv, Fits
<1>2. sends' # sends
  BY <1>1 DEF Typed
<1>3. PICK t \in Task : Send(t)
  BY <1>2, OnlySendSends
<1>4. task[t].at = "send" /\ task[t].until > 0
  BY <1>1, <1>2, <1>3 DEF Send, Fresh
<1>5. task[t].tx = x
  BY <1>1, <1>4 DEF ChainFits, TaskFits
<1>6. landed[x] + task[t].until <= DecisionTTL
  BY <1>1, <1>4, <1>5 DEF TaskFits, Armed
<1>7. landed[x] \in Nat /\ task[t].until \in Nat
  <2>1. task[t] \in Call /\ landed[x] \in 0 .. DecisionTTL
    BY <1>1 DEF Typed
  <2>2. task[t].until \in 0 .. DecisionTTL
    BY <2>1 DEF Call
  <2>3. QED
    BY <2>1, <2>2, PayrollAssumption
<1>8. QED
  BY <1>4, <1>6, <1>7, PayrollAssumption

(* A transaction that is already in a block is not sent again later than   *)
(* the lifetime of a decision made before it was, at any interleaving.     *)
THEOREM ResendsAreNotLate == Spec => NoLateResend
<1> HIDE DEF LateResend
<1>1. []IInv /\ [][Next]_vars => [][LateResend]_vars
  BY ResendStep, PTL
<1>2. QED
  BY <1>1, Invariance DEF Spec, NoLateResend, LateResend
==============================================================================

---------------------------- MODULE AdapterQuery ----------------------------
(***************************************************************************)
(* checkPrivacyStateAdapterNullifiers (src/transport/privacy-state.js):    *)
(* the status of nullifiers from an application's adapter, batch after     *)
(* batch, each with a timeout and retries.  An invocation the timeout gave *)
(* up goes on at the adapter and may answer at any later time; the chain   *)
(* moves meanwhile.                                                        *)
(***************************************************************************)
EXTENDS Naturals, Sequences, FiniteSets

CONSTANTS
  Nullifier,  \* the nullifiers asked about
  Batches,    \* their batches, in order (privacyNullifierBatchLimit)
  Retries     \* queryRetry.retries

QueryAssumption ==
  /\ Batches \in Seq(SUBSET Nullifier) /\ Retries \in Nat
  /\ UNION {Batches[i] : i \in 1 .. Len(Batches)} = Nullifier

VARIABLES
  used,      \* nullifiers on the chain
  batch,     \* the batch at work
  attempt,   \* its attempt
  phase,     \* of the query
  statuses,  \* what the query has combined
  flight,    \* invocations at the adapter, given up or not
  since      \* nullifiers used when the attempt at work began

vars == <<used, batch, attempt, phase, statuses, flight, since>>

(* parseNullifierUsage, per nullifier of a response.                       *)
Reply == {"used", "unused", "absent", "odd"}
Unasked == "unasked"

Init ==
  /\ used = {} /\ batch = 1 /\ attempt = 0 /\ phase = "call"
  /\ statuses = [n \in Nullifier |-> Unasked]
  /\ flight = {} /\ since = {}

Invoke ==
  /\ phase = "call" /\ batch <= Len(Batches)
  /\ flight' = flight \cup {[batch |-> batch, attempt |-> attempt, reply |-> <<>>]}
  /\ since' = used /\ phase' = "wait"
  /\ UNCHANGED <<used, batch, attempt, statuses>>

(* What an adapter may say: of the batch the truth, or part of it, or a    *)
(* contradiction; of what it was not asked, anything.                      *)
Truthful(reply, asked) ==
  \A n \in asked :
    reply[n] \in {IF n \in used THEN "used" ELSE "unused", "absent", "odd"}

Answer(f, reply) ==
  /\ f \in flight /\ f.reply = <<>>
  /\ Truthful(reply, Batches[f.batch])
  /\ \E n \in Nullifier : reply[n] # "absent"
  /\ flight' = (flight \ {f}) \cup {[f EXCEPT !.reply = reply]}
  /\ UNCHANGED <<used, batch, attempt, phase, statuses, since>>

(* mutation: whichever invocation answers is taken for the one at work *)
AnyAwaited(f) == phase = "wait"

(* The promise of an invocation settles once (invokeWithTimeout); only the *)
(* last one is still listened to.                                          *)
Awaited(f) == phase = "wait" /\ f.batch = batch /\ f.attempt = attempt

(* normalizePrivacyNullifierStatuses fails the whole batch on one of these.*)
Unresolved(reply, asked) == {n \in asked : reply[n] \in {"absent", "odd"}}

Combine(reply, asked) ==
  [n \in Nullifier |->
     IF n \in asked THEN reply[n] ELSE statuses[n]]

(* A late answer is dropped; the one awaited ends the batch or the query.  *)
Arrive(f) ==
  /\ f \in flight /\ f.reply # <<>>
  /\ flight' = flight \ {f}
  /\ IF ~Awaited(f) THEN UNCHANGED <<batch, attempt, phase, statuses>>
     ELSE IF Unresolved(f.reply, Batches[batch]) # {}
     THEN phase' = "threw" /\ UNCHANGED <<batch, attempt, statuses>>
     ELSE /\ statuses' = Combine(f.reply, Batches[batch])
          /\ batch' = batch + 1 /\ attempt' = 0 /\ phase' = "call"
  /\ UNCHANGED <<used, since>>

(* A retryable failure: a timeout, a network error, a retryable status.    *)
RetryOrThrow ==
  IF attempt < Retries THEN phase' = "call" /\ attempt' = attempt + 1
                       ELSE phase' = "threw" /\ UNCHANGED attempt

TimeOut ==
  /\ phase = "wait"
  /\ RetryOrThrow
  /\ UNCHANGED <<used, batch, statuses, flight, since>>

(* An invocation fails; a status outside retryStatuses is not retried.     *)
Fail(f) ==
  /\ f \in flight /\ f.reply = <<>>
  /\ flight' = flight \ {f}
  /\ IF ~Awaited(f) THEN UNCHANGED <<attempt, phase>>
     ELSE RetryOrThrow \/ (phase' = "threw" /\ UNCHANGED attempt)
  /\ UNCHANGED <<used, batch, statuses, since>>

Return ==
  /\ phase = "call" /\ batch > Len(Batches)
  /\ phase' = "done"
  /\ UNCHANGED <<used, batch, attempt, statuses, flight, since>>

Spend(n) ==
  /\ n \notin used /\ used' = used \cup {n}
  /\ UNCHANGED <<batch, attempt, phase, statuses, flight, since>>

Client == Invoke \/ Return

Next ==
  \/ Client \/ TimeOut
  \/ \E f \in flight :
       Arrive(f) \/ Fail(f) \/ \E reply \in [Nullifier -> Reply] : Answer(f, reply)
  \/ \E n \in Nullifier : Spend(n)

(* Code runs on and timers fire; the adapter owes nothing.                 *)
Spec == Init /\ [][Next]_vars /\ WF_vars(Client) /\ WF_vars(TimeOut)

------------------------------------------------------------------------------
(* The variables keep their ranges; no attempt has two invocations. *)
TypeOK ==
  /\ used \subseteq Nullifier /\ since \subseteq used
  /\ batch \in 1 .. Len(Batches) + 1 /\ attempt \in 0 .. Retries
  /\ phase \in {"call", "wait", "done", "threw"}
  /\ \A n \in Nullifier : statuses[n] \in Reply \cup {Unasked}
  /\ \A f \in flight :
       f.batch \in 1 .. Len(Batches) /\ f.attempt \in 0 .. Retries
  /\ \A f, g \in flight : f.batch = g.batch /\ f.attempt = g.attempt => f = g

(* A spend the query says is still unused was so after the attempt began   *)
(* that said it: an answer that comes after its timeout, or speaks of      *)
(* another batch, is not taken, however late it comes                      *)
(* (invokeWithTimeout, normalizePrivacyNullifierStatuses).                 *)
FreshStep ==
  \A n \in Nullifier :
    statuses'[n] # statuses[n] =>
      /\ statuses[n] = Unasked /\ n \in Batches[batch]
      /\ statuses'[n] = "unused" => n \notin since
      /\ statuses'[n] = "used" => n \in used
Fresh == [][FreshStep]_vars

(* A query that returns has an answer for every nullifier, which the       *)
(* adapter gave without contradiction; nothing unknown passes for unused.  *)
Complete == phase = "done" => \A n \in Nullifier : statuses[n] \in {"used", "unused"}

==============================================================================

----------------------------- MODULE RestQuery ------------------------------
(***************************************************************************)
(* REST reads of ClairveilJS (src/transport/cosmos-client.js): fetchJson,  *)
(* fetchJsonWithRetry, fetchNullifierJson, fetchMerklePathJson.  Reads run *)
(* side by side and share the endpoint that last answered; those that tell *)
(* what a wallet is about to spend stay on the configured one.             *)
(***************************************************************************)
EXTENDS Naturals, Sequences, FiniteSets

CONSTANTS
  Rest,        \* the configured endpoints, the first is the wallet's own
  Read,        \* reads under way at once
  Sensitive,   \* those of nullifiers and Merkle paths
  Scan,        \* those with failoverStatuses: an endpoint may not know them
  Failover,    \* nullifierFailover, merklePathFailover
  Retries,     \* queryRetry.retries
  BodyStalls   \* a response may stop after its headers

RestAssumption ==
  /\ Rest \in Seq({Rest[i] : i \in 1 .. Len(Rest)}) /\ Len(Rest) > 0
  /\ \A i, j \in 1 .. Len(Rest) : Rest[i] = Rest[j] => i = j
  /\ Sensitive \subseteq Read /\ Scan \subseteq Read /\ Sensitive \cap Scan = {}
  /\ Failover \in BOOLEAN /\ BodyStalls \in BOOLEAN /\ Retries \in Nat

VARIABLES
  active,   \* activeRestEndpoint
  phase,    \* of each read
  list,     \* the endpoints it may ask, in order
  index,    \* the one it is at
  attempt,  \* its attempt there
  masked,   \* its last failure that is not an endpoint lacking the query
  result,   \* what it gave its caller
  lacks,    \* endpoints that said they lack its query
  told      \* endpoints it was sent to

vars == <<active, phase, list, index, attempt, masked, result, lacks, told>>

Endpoint == {Rest[i] : i \in 1 .. Len(Rest)}
None == "none"

Init ==
  /\ active = Rest[1]
  /\ phase = [r \in Read |-> "idle"] /\ list = [r \in Read |-> <<>>]
  /\ index = [r \in Read |-> 1] /\ attempt = [r \in Read |-> 0]
  /\ masked = [r \in Read |-> FALSE] /\ result = [r \in Read |-> None]
  /\ lacks = [r \in Read |-> {}] /\ told = [r \in Read |-> {}]

MayFailOver(r) == r \notin Sensitive \/ Failover

(* mutation: a read that must stay starts at the endpoint in use *)
EndpointsInUse(r) ==
  IF MayFailOver(r) THEN <<active>> \o SelectSeq(Rest, LAMBDA e : e # active) ELSE <<active>>

Endpoints(r) ==
  IF MayFailOver(r) THEN <<active>> \o SelectSeq(Rest, LAMBDA e : e # active) ELSE <<Rest[1]>>

Start(r) ==
  /\ phase[r] = "idle"
  /\ list' = [list EXCEPT ![r] = Endpoints(r)]
  /\ phase' = [phase EXCEPT ![r] = "send"]
  /\ UNCHANGED <<active, index, attempt, masked, result, lacks, told>>

At(r) == list[r][index[r]]

Send(r) ==
  /\ phase[r] = "send"
  /\ told' = [told EXCEPT ![r] = @ \cup {At(r)}]
  /\ phase' = [phase EXCEPT ![r] = "headers"]
  /\ UNCHANGED <<active, list, index, attempt, masked, result, lacks>>

Headers(r) ==
  /\ phase[r] = "headers"
  /\ phase' = [phase EXCEPT ![r] = "body"]
  /\ UNCHANGED <<active, list, index, attempt, masked, result, lacks, told>>

Touches(r) == MayFailOver(r)

Body(r) ==
  /\ phase[r] = "body"
  /\ phase' = [phase EXCEPT ![r] = "done"]
  /\ result' = [result EXCEPT ![r] = "answer"]
  /\ active' = IF Touches(r) THEN At(r) ELSE active
  /\ UNCHANGED <<list, index, attempt, masked, lacks, told>>

Throws(r, error) ==
  /\ phase' = [phase EXCEPT ![r] = "done"]
  /\ result' = [result EXCEPT ![r] = error]

Last(r) == index[r] = Len(list[r])

NextEndpoint(r) ==
  /\ index' = [index EXCEPT ![r] = @ + 1]
  /\ attempt' = [attempt EXCEPT ![r] = 0]
  /\ phase' = [phase EXCEPT ![r] = "send"]
  /\ UNCHANGED result

(* A failure of which another try may not suffer.                          *)
Retry(r) ==
  /\ masked' = [masked EXCEPT ![r] = TRUE]
  /\ \/ /\ attempt[r] < Retries
        /\ attempt' = [attempt EXCEPT ![r] = @ + 1]
        /\ phase' = [phase EXCEPT ![r] = "send"]
        /\ UNCHANGED <<index, result>>
     \/ attempt[r] = Retries /\ ~Last(r) /\ NextEndpoint(r)
     \/ attempt[r] = Retries /\ Last(r) /\ Throws(r, "failed") /\ UNCHANGED <<index, attempt>>

(* The timer is cleared by the finally block, before the body is read.     *)
TimeOut(r) ==
  /\ phase[r] = "headers"
  /\ Retry(r)
  /\ UNCHANGED <<active, list, lacks, told>>

(* The connection fails, or a status is retryable, or a body not JSON.     *)
NetworkFails(r) ==
  /\ phase[r] \in {"headers", "body"}
  /\ Retry(r)
  /\ UNCHANGED <<active, list, lacks, told>>

StatusRefused(r) ==
  /\ phase[r] = "headers"
  /\ Throws(r, "refused")
  /\ UNCHANGED <<active, list, index, attempt, masked, lacks, told>>

LackingError(r) == IF masked[r] THEN "failed" ELSE "lacking"

(* A status of failoverStatuses goes on to the next endpoint at once.      *)
StatusLacking(r) ==
  /\ phase[r] = "headers" /\ r \in Scan
  /\ lacks' = [lacks EXCEPT ![r] = @ \cup {At(r)}]
  /\ \/ ~Last(r) /\ NextEndpoint(r)
     \/ Last(r) /\ Throws(r, LackingError(r)) /\ UNCHANGED <<index, attempt>>
  /\ UNCHANGED <<active, list, masked, told>>

Code(r) == Start(r) \/ Send(r)

Next ==
  \E r \in Read :
    \/ Code(r) \/ Headers(r) \/ Body(r) \/ TimeOut(r)
    \/ NetworkFails(r) \/ StatusRefused(r) \/ StatusLacking(r)

(* Timers fire.  A body whose headers came is read to its end or fails,    *)
(* unless BodyStalls: no timer watches it.                                 *)
Spec ==
  /\ Init /\ [][Next]_vars
  /\ \A r \in Read :
       /\ WF_vars(Code(r)) /\ WF_vars(TimeOut(r))
       /\ BodyStalls \/ WF_vars(Body(r))

------------------------------------------------------------------------------
(* The variables keep their ranges. *)
TypeOK ==
  /\ active \in Endpoint
  /\ \A r \in Read :
       /\ phase[r] \in {"idle", "send", "headers", "body", "done"}
       /\ phase[r] # "idle" => index[r] \in 1 .. Len(list[r])
       /\ attempt[r] \in 0 .. Retries /\ masked[r] \in BOOLEAN
       /\ result[r] \in {None, "answer", "failed", "refused", "lacking"}
       /\ lacks[r] \subseteq told[r] /\ told[r] \subseteq Endpoint

(* What a wallet is about to spend is told to its own endpoint only, even  *)
(* after other reads have moved to another one while it was under way      *)
(* (fetchNullifierJson, fetchMerklePathJson).                              *)
StaysHome ==
  \A r \in Read : r \in Sensitive /\ ~Failover => told[r] \subseteq {Rest[1]}

(* The endpoint in use only moves to one that has just answered a read     *)
(* that may fail over: a sensitive read never moves the others back.       *)
MovesToAnswerStep ==
  active' # active =>
    \E r \in Read :
      /\ MayFailOver(r) /\ phase[r] = "body" /\ phase'[r] = "done"
      /\ result'[r] = "answer" /\ active' = At(r)
(* A caller that is told the query is not supported was told so by every   *)
(* endpoint: an outage of one of them is not reported as a missing feature *)
(* (lastNonCapabilityError).                                               *)
LackingMeansAll ==
  \A r \in Read : result[r] = "lacking" => lacks[r] = Endpoint

(* A read gives up as failed only after every endpoint it may ask failed.  *)
FailedMeansAll ==
  \A r \in Read :
    result[r] = "failed" =>
      told[r] = IF MayFailOver(r) THEN Endpoint ELSE {Rest[1]}

==============================================================================

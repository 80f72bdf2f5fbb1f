-------------------------- MODULE WithdrawRelayProofs --------------------------
(***************************************************************************)
(* Whatever files of a withdrawal are put together, and however many notes,*)
(* requests and relayers there are: what a relayer signs and what is       *)
(* submitted verifies.  Proofs for TLAPS.                                  *)
(*                                                                         *)
(* The fields of a file may be mixed up at will, so nothing can be said of *)
(* them; but a hash only ever comes from a payload that was made honestly, *)
(* whichever file it is copied to.  The invariant is about the hashes, and *)
(* a file whose hash is its own inherits it.                               *)
(***************************************************************************)
EXTENDS WithdrawRelay, TLAPS

IsFile(file, fields) == file = [f \in fields \cup {"hash"} |-> file[f]]

(* What is hashed when a relay payload, and a job, is made.                *)
Verifies(withdraw) == withdraw.proof = MessageIntent(withdraw)
FitForRelay(job) ==
    job.recipient.prefix = Prefix /\ job.amount > 0 /\ job.assetId = AssetId(job.asset)

JobsInv == \A j \in jobs : IsFile(j, JobFields) /\ FitForRelay(j.hash)
ProofsInv == \A proof \in proofs : proof.intent = JobIntent(proof.hash)
PayloadsInv == \A p \in payloads : IsFile(p, WithdrawFields) /\ Verifies(p.hash)
MessagesInv ==
    \A m \in messages : /\ m.route \in {"cosmos", "evm"}
                        /\ m.withdraw = [f \in WithdrawFields |-> m.withdraw[f]]
                        /\ m.checked => Verifies(m.withdraw)
BuildInv ==
    /\ build.step \in {"idle", "path", "check"}
    /\ build.step = "path" =>
          /\ ExactMatch(build.note, build.request) /\ RecipientFits(build.request.recipient)
          /\ build.expires = ExpiryOf(build.request, build.time) /\ build.expires > build.time
          /\ build.request \in Requests
    /\ build.step = "check" =>
          build.job = [f \in JobFields |-> build.job[f]] /\ FitForRelay(build.job)
(* The payload was validated at the time that was read or given: at once   *)
(* on EVM, at the fence on Cosmos.                                         *)
SendingInv ==
    /\ sending.step \in {"idle", "recheck", "fence", "send"}
    /\ sending.step # "idle" =>
          /\ sending.payload \in payloads
          /\ sending.message.withdraw = Withdraw(sending.payload)
          /\ sending.from \in Nat /\ sending.from <= now
          /\ sending.from <= sending.read
             \/ (sending.message.route = "evm" /\ sending.clock = "number")
    /\ sending.step = "send" \/ (sending.step = "recheck" /\ sending.message.route = "evm") =>
          RelayValid(sending.payload, sending.read, Prefix, sending.chain)
TimeInv == root \in 0 .. MaxRoots /\ now \in 0 .. MaxTime

Inv ==
    /\ TimeInv /\ BuildInv /\ JobsInv /\ ProofsInv /\ PayloadsInv /\ MessagesInv
    /\ SendingInv /\ SignedIsAsked /\ SentVerifies

-----------------------------------------------------------------------------
(***************************************************************************)
(* Hashes.                                                                 *)
(***************************************************************************)
LEMMA JobHashIntent ==
    ASSUME NEW j PROVE JobIntent(JobHash(j)) = JobIntent(j)
  BY DEF JobIntent, JobHash, JobFields

LEMMA JobHashFits ==
    ASSUME NEW j PROVE FitForRelay(JobHash(j)) <=> FitForRelay(j)
  BY DEF FitForRelay, JobHash, JobFields

\* A payload file with its own hash verifies, if its hash does.
LEMMA OwnHashVerifies ==
    ASSUME NEW p, Verifies(p.hash), p.hash = PayloadHash(p)
    PROVE  Verifies(Withdraw(p))
  BY DEF Withdraw, PayloadHash

\* What Hashed adds to a record is its hash.
LEMMA HashedFile ==
    ASSUME NEW fields, "hash" \notin fields, NEW p, p = [f \in fields |-> p[f]], NEW hash
    PROVE  /\ IsFile(Hashed(p, hash), fields)
           /\ Hashed(p, hash).hash = hash
           /\ \A f \in fields : Hashed(p, hash)[f] = p[f]
<1>1. DOMAIN p = fields
  OBVIOUS
<1>2. Hashed(p, hash) = [f \in fields \cup {"hash"} |-> IF f = "hash" THEN hash ELSE p[f]]
  BY <1>1 DEF Hashed
<1> QED
  BY <1>2 DEF IsFile

\* A field or a hash copied from a file leaves a file, with one of the two
\* hashes.
LEMMA MixedFile ==
    ASSUME NEW fields, NEW p, NEW q, IsFile(p, fields), NEW f \in fields \cup {"hash"}
    PROVE  LET mixed == [p EXCEPT ![f] = q[f]] IN
           IsFile(mixed, fields) /\ mixed.hash \in {p.hash, q.hash}
  BY DEF IsFile

\* What becomes of a job and its proof verifies.
LEMMA FinishedVerifies ==
    ASSUME NEW j, NEW proof, proof.intent = JobIntent(proof.hash),
           proof.hash = JobHash(j), j.assetId = AssetId(j.asset)
    PROVE  /\ Finished(j, proof) = [f \in WithdrawFields |-> Finished(j, proof)[f]]
           /\ Verifies(Finished(j, proof))
<1>1. proof.intent = JobIntent(j)
  BY JobHashIntent
<1>2. Finished(j, proof) = [f \in WithdrawFields |-> Finished(j, proof)[f]]
  BY DEF Finished, WithdrawFields
<1>3. MessageIntent(Finished(j, proof)) = JobIntent(j)
  BY DEF MessageIntent, JobIntent, Finished
<1> QED
  BY <1>1, <1>2, <1>3 DEF Verifies, Finished

-----------------------------------------------------------------------------
(***************************************************************************)
(* The steps.                                                              *)
(***************************************************************************)
USE WithdrawRelayAssumption

LEMMA InitInv == Init => Inv
  BY DEF Init, Inv, TimeInv, BuildInv, JobsInv, ProofsInv, PayloadsInv, MessagesInv,
         SendingInv, SignedIsAsked, SentVerifies, Idle

LEMMA StutterInv == Inv /\ UNCHANGED vars => Inv'
  BY DEF vars, files, Inv, TimeInv, BuildInv, JobsInv, ProofsInv, PayloadsInv, MessagesInv,
         SendingInv, SignedIsAsked, SentVerifies

LEMMA StartInv ==
    ASSUME Inv, NEW r \in Requests, Start(r) PROVE Inv'
<1>1. BuildInv'
  BY DEF Start, Inv, BuildInv
<1> QED
  BY <1>1 DEF Start, files, Inv, TimeInv, JobsInv, ProofsInv, PayloadsInv, MessagesInv,
         SendingInv, SignedIsAsked, SentVerifies

LEMMA SignInv ==
    ASSUME Inv, Sign PROVE Inv'
<1> DEFINE r == build.request
           n == build.note
           intent == Intent(r.chain, root, Nullifier(n), r.amount, AssetId(n.asset),
                            r.recipient, build.expires)
           s == [by |-> r.signer, note |-> n, request |-> r, time |-> build.time,
                 intent |-> intent]
           job == [root |-> root, path |-> root, nullifier |-> Nullifier(n),
                   amount |-> r.amount, asset |-> r.asset, assetId |-> AssetId(n.asset),
                   recipient |-> r.recipient, chain |-> r.chain, expires |-> build.expires,
                   note |-> n, signature |-> [by |-> r.signer, intent |-> intent]]
<1>1. /\ signed' = signed \cup {s} /\ build' = [step |-> "check", job |-> job]
      /\ UNCHANGED <<root, now, spent, files, sending, sent>>
  BY DEF Sign
<1>2. /\ ExactMatch(n, r) /\ RecipientFits(r.recipient) /\ r \in Requests
      /\ build.expires = ExpiryOf(r, build.time) /\ build.expires > build.time
  BY DEF Inv, BuildInv, Sign
<1>3. /\ s.intent.nullifier = Nullifier(s.note) /\ s.intent.amount = s.note.amount
      /\ {s.intent.asset, AssetId(s.request.asset)} = {AssetId(s.note.asset)}
      /\ s.intent.to = s.request.recipient.account
      /\ s.intent.expires \in {s.request.expires, s.time + DefaultLife}
      /\ s.intent.expires > s.time
  BY <1>2 DEF Intent, ExactMatch, ExpiryOf
<1>4. SignedIsAsked'
  <2>1. ASSUME NEW x \in signed'
        PROVE  /\ x.intent.nullifier = Nullifier(x.note) /\ x.intent.amount = x.note.amount
               /\ {x.intent.asset, AssetId(x.request.asset)} = {AssetId(x.note.asset)}
               /\ x.intent.to = x.request.recipient.account
               /\ x.intent.expires \in {x.request.expires, x.time + DefaultLife}
               /\ x.intent.expires > x.time
    <3>1. CASE x \in signed
      BY <3>1 DEF Inv, SignedIsAsked
    <3>2. CASE x = s
      <4> HIDE DEF s
      <4> QED BY <1>3, <3>2
    <3> QED
      BY <1>1, <3>1, <3>2
  <2> QED
    BY <2>1 DEF SignedIsAsked
<1>5. BuildInv'
  <2>1. job = [f \in JobFields |-> job[f]]
    BY DEF JobFields
  <2>2. FitForRelay(job)
    BY <1>2 DEF FitForRelay, RecipientFits, ExactMatch
  <2> HIDE DEF job
  <2> QED
    BY <1>1, <2>1, <2>2 DEF BuildInv
<1> QED
  BY <1>1, <1>4, <1>5 DEF files, Inv, TimeInv, JobsInv, ProofsInv, PayloadsInv, MessagesInv,
         SendingInv, SentVerifies

LEMMA CheckUnspentInv ==
    ASSUME Inv, CheckUnspent PROVE Inv'
<1> DEFINE j == Hashed(build.job, JobHash(build.job))
<1>1. build.job = [f \in JobFields |-> build.job[f]] /\ FitForRelay(build.job)
  BY DEF Inv, BuildInv, CheckUnspent
<1>2. IsFile(j, JobFields) /\ j.hash = JobHash(build.job)
  <2>1. "hash" \notin JobFields
    BY DEF JobFields
  <2> QED
    BY <1>1, <2>1, HashedFile
<1>3. JobsInv'
  BY <1>1, <1>2, JobHashFits DEF Inv, JobsInv, CheckUnspent
<1>4. BuildInv'
  BY DEF CheckUnspent, BuildInv, Idle
<1> QED
  BY <1>3, <1>4 DEF CheckUnspent, Inv, TimeInv, ProofsInv, PayloadsInv, MessagesInv,
         SendingInv, SignedIsAsked, SentVerifies

LEMMA BuildThrowsInv ==
    ASSUME Inv, BuildThrows PROVE Inv'
  BY DEF BuildThrows, files, Idle, Inv, TimeInv, BuildInv, JobsInv, ProofsInv, PayloadsInv,
         MessagesInv, SendingInv, SignedIsAsked, SentVerifies

LEMMA ProveInv ==
    ASSUME Inv, Prove PROVE Inv'
<1>1. PICK j \in jobs :
         /\ j.hash = JobHash(j)
         /\ proofs' = proofs \cup {[hash |-> j.hash, intent |-> JobIntent(j)]}
  BY DEF Prove
<1>2. ProofsInv'
  BY <1>1, JobHashIntent DEF Inv, ProofsInv
<1> QED
  BY <1>2 DEF Prove, Inv, TimeInv, BuildInv, JobsInv, PayloadsInv, MessagesInv,
         SendingInv, SignedIsAsked, SentVerifies

LEMMA FinishInv ==
    ASSUME Inv, NEW time, Finish(time) PROVE Inv'
<1>1. PICK j \in jobs, proof \in proofs :
         ProofFits(j, proof, time) /\ payloads' = payloads \cup {RelayPayload(j, proof)}
  BY DEF Finish
<1> DEFINE made == Finished(j, proof)
<1>2. made = [f \in WithdrawFields |-> made[f]] /\ Verifies(made)
  BY <1>1, FinishedVerifies DEF Inv, ProofsInv, ProofFits, JobValid
<1>3. IsFile(RelayPayload(j, proof), WithdrawFields)
      /\ RelayPayload(j, proof).hash = PayloadHash(made)
  <2>1. "hash" \notin WithdrawFields
    BY DEF WithdrawFields
  <2> HIDE DEF made
  <2>2. IsFile(Hashed(made, PayloadHash(made)), WithdrawFields)
        /\ Hashed(made, PayloadHash(made)).hash = PayloadHash(made)
    BY <1>2, <2>1, HashedFile
  <2> QED
    BY <2>2 DEF RelayPayload, made
<1>4. Verifies(PayloadHash(made))
  BY <1>2 DEF Verifies, PayloadHash, MessageIntent, WithdrawFields
<1>5. PayloadsInv'
  <2> HIDE DEF made
  <2> QED BY <1>1, <1>3, <1>4 DEF Inv, PayloadsInv
<1>6. SendingInv'
  BY <1>1 DEF Finish, Inv, SendingInv
<1> QED
  BY <1>5, <1>6 DEF Finish, Inv, TimeInv, BuildInv, JobsInv, ProofsInv, MessagesInv,
         SignedIsAsked, SentVerifies

LEMMA RelayInv ==
    ASSUME Inv, NEW time, Relay(time) PROVE Inv'
<1>1. PICK p \in payloads, route \in {"cosmos", "evm"}, prefix \in {NotGiven, Prefix},
           chain \in {NotGiven, Chain} :
         /\ RelayValid(p, time, prefix, chain)
         /\ messages' = messages \cup {[route |-> route, checked |-> TRUE,
                                        withdraw |-> Withdraw(p)]}
  BY DEF Relay
<1>2. Verifies(Withdraw(p))
  BY <1>1, OwnHashVerifies DEF Inv, PayloadsInv, RelayValid, PreparedValid
<1>3. Withdraw(p) = [f \in WithdrawFields |-> Withdraw(p)[f]]
  BY DEF Withdraw
<1>4. MessagesInv'
  BY <1>1, <1>2, <1>3 DEF Inv, MessagesInv
<1> QED
  BY <1>4 DEF Relay, Inv, TimeInv, BuildInv, JobsInv, ProofsInv, PayloadsInv, SendingInv,
         SignedIsAsked, SentVerifies

LEMMA SignUncheckedInv ==
    ASSUME Inv, SignUnchecked PROVE Inv'
<1>1. MessagesInv'
  BY DEF SignUnchecked, Inv, MessagesInv, Withdraw
<1> QED
  BY <1>1 DEF SignUnchecked, Inv, TimeInv, BuildInv, JobsInv, ProofsInv, PayloadsInv,
         SendingInv, SignedIsAsked, SentVerifies

LEMMA SubmissionInv ==
    ASSUME Inv, Bind \/ Recheck \/ Fence \/ Send PROVE Inv'
<1> USE DEF Inv, TimeInv
<1>1. ASSUME Bind PROVE SendingInv'
  <2>1. PICK m \in messages, p \in payloads, chain \in {NotGiven, Chain},
             clock \in {"provider", "number"}, time \in 0 .. now + Skew :
           /\ m.withdraw = Withdraw(p)
           /\ clock = "provider" => time = now
           /\ m.route = "cosmos" => clock = "provider"
           /\ m.route = "evm" => RelayValid(p, time, Prefix, chain)
           /\ sending' = [step |-> "recheck", message |-> m, payload |-> p, chain |-> chain,
                          clock |-> clock, from |-> now, read |-> time]
    BY <1>1 DEF Bind, MatchesPayload
  <2>2. m.route \in {"cosmos", "evm"}
    BY DEF MessagesInv
  <2> QED
    BY <1>1, <2>1, <2>2 DEF Bind, SendingInv, files
<1>2. ASSUME Recheck PROVE SendingInv'
  BY <1>2 DEF Recheck, SendingInv, Idle, files
<1>3. ASSUME Fence PROVE SendingInv'
  BY <1>3 DEF Fence, SendingInv, Idle, files
<1>4. ASSUME Send PROVE SendingInv' /\ SentVerifies'
  <2>1. /\ sending.payload \in payloads
        /\ RelayValid(sending.payload, sending.read, Prefix, sending.chain)
        /\ sending.message.withdraw = Withdraw(sending.payload)
        /\ sending.from <= sending.read
           \/ (sending.message.route = "evm" /\ sending.clock = "number")
    BY <1>4 DEF Send, SendingInv
  <2>2. Verifies(sending.message.withdraw)
    BY <2>1, OwnHashVerifies DEF PayloadsInv, RelayValid, PreparedValid
  <2>3. /\ sending.chain \in {NotGiven, sending.message.withdraw.chain}
        /\ sending.read < sending.message.withdraw.expires
    BY <2>1 DEF RelayValid, PreparedValid, Withdraw, WithdrawFields
  <2>4. SentVerifies'
    BY <1>4, <2>1, <2>2, <2>3 DEF Send, SentVerifies, Verifies
  <2> QED
    BY <1>4, <2>4 DEF Send, SendingInv, Idle, files
<1> QED
  BY <1>1, <1>2, <1>3, <1>4 DEF Bind, Recheck, Fence, Send, files, BuildInv, JobsInv,
         ProofsInv, PayloadsInv, MessagesInv, SignedIsAsked, SentVerifies

LEMMA AroundInv ==
    ASSUME Inv, Grow \/ Tick \/ Spend PROVE Inv'
<1>1. SendingInv' /\ TimeInv'
  BY DEF Grow, Tick, Spend, Inv, SendingInv, TimeInv, files
<1> QED
  BY <1>1 DEF Grow, Tick, Spend, files, Inv, BuildInv, JobsInv, ProofsInv, PayloadsInv,
         MessagesInv, SignedIsAsked, SentVerifies

LEMMA MixUpInv ==
    ASSUME Inv, MixUp PROVE Inv'
<1>1. JobsInv'
  <2>1. CASE UNCHANGED jobs
    BY <2>1 DEF Inv, JobsInv
  <2>2. CASE \E p, q \in jobs, f \in JobFields \cup {"hash"} :
                jobs' = jobs \cup {[p EXCEPT ![f] = q[f]]}
    <3>1. PICK p, q \in jobs, f \in JobFields \cup {"hash"} :
             jobs' = jobs \cup {[p EXCEPT ![f] = q[f]]}
      BY <2>2
    <3> DEFINE mixed == [p EXCEPT ![f] = q[f]]
    <3>2. IsFile(mixed, JobFields) /\ mixed.hash \in {p.hash, q.hash}
      <4>1. IsFile(p, JobFields)
        BY DEF Inv, JobsInv
      <4> QED
        BY <4>1, MixedFile
    <3> HIDE DEF mixed
    <3> QED
      BY <3>1, <3>2 DEF Inv, JobsInv, mixed
  <2> QED
    BY <2>1, <2>2 DEF MixUp
<1>2. PayloadsInv' /\ payloads \subseteq payloads'
  <2>1. CASE UNCHANGED payloads
    BY <2>1 DEF Inv, PayloadsInv
  <2>2. CASE \E p, q \in payloads, f \in WithdrawFields \cup {"hash"} :
                payloads' = payloads \cup {[p EXCEPT ![f] = q[f]]}
    <3>1. PICK p, q \in payloads, f \in WithdrawFields \cup {"hash"} :
             payloads' = payloads \cup {[p EXCEPT ![f] = q[f]]}
      BY <2>2
    <3> DEFINE mixed == [p EXCEPT ![f] = q[f]]
    <3>2. IsFile(mixed, WithdrawFields) /\ mixed.hash \in {p.hash, q.hash}
      <4>1. IsFile(p, WithdrawFields)
        BY DEF Inv, PayloadsInv
      <4> QED
        BY <4>1, MixedFile
    <3> HIDE DEF mixed
    <3> QED
      BY <3>1, <3>2 DEF Inv, PayloadsInv, mixed
  <2> QED
    BY <2>1, <2>2 DEF MixUp
<1>3. SendingInv'
  BY <1>2 DEF MixUp, Inv, SendingInv
<1> QED
  BY <1>1, <1>2, <1>3 DEF MixUp, Inv, TimeInv, BuildInv, ProofsInv, MessagesInv,
         SignedIsAsked, SentVerifies

LEMMA NextInv == Inv /\ [Next]_vars => Inv'
  BY StutterInv, StartInv, SignInv, CheckUnspentInv, BuildThrowsInv, ProveInv, FinishInv,
     RelayInv, SignUncheckedInv, SubmissionInv, AroundInv, MixUpInv DEF Next

THEOREM Safety == Spec => []Inv
  BY InitInv, NextInv, PTL DEF Spec

-----------------------------------------------------------------------------
\* Type correctness: a file keeps its fields however it is mixed up.
THEOREM Types == Spec => []TypeOK
<1>1. ASSUME Inv PROVE TypeOK
  <2>1. \A j \in jobs : DOMAIN j = JobFields \cup {"hash"}
    BY <1>1 DEF Inv, JobsInv, IsFile
  <2>2. \A p \in payloads : DOMAIN p = WithdrawFields \cup {"hash"}
    BY <1>1 DEF Inv, PayloadsInv, IsFile
  <2>3. \A m \in messages : DOMAIN m.withdraw = WithdrawFields
    BY <1>1 DEF Inv, MessagesInv
  <2> QED
    BY <1>1, <2>1, <2>2, <2>3 DEF TypeOK, Inv, TimeInv, BuildInv, SendingInv
<1> QED
  BY <1>1, Safety, PTL

\* A relayer whose checks pass signs a message the chain's verifier accepts,
\* whatever prover payloads, proofs and relay payloads were mixed up.
THEOREM RelayedMessagesVerify == Spec => []RelayedVerifies
<1>1. Inv => RelayedVerifies
  BY DEF Inv, MessagesInv, RelayedVerifies, Verifies
<1> QED
  BY <1>1, Safety, PTL

\* What is submitted verifies, also when it was signed without the checks: it
\* is for the chain the submitter named, if one was named, and had not expired
\* at the time the submission went by.  On Cosmos, and on EVM unless the caller
\* gave a number instead, that is chain time read during the submission.
THEOREM SubmittedMessagesVerify == Spec => []SentVerifies
<1>1. Inv => SentVerifies
  BY DEF Inv
<1> QED
  BY <1>1, Safety, PTL

\* An owner signs away exactly one whole note, to whom it was asked and for
\* no longer than was said.
THEOREM OwnersSignWhatIsAsked == Spec => []SignedIsAsked
<1>1. Inv => SignedIsAsked
  BY DEF Inv
<1> QED
  BY <1>1, Safety, PTL

\* The owner's checks and the relayer's agree: a job that is proved for the
\* relayer's chain is relayed until it expires.
THEOREM HonestPayloadsPass == Spec => []HonestPasses
<1>1. ASSUME Inv, NEW j \in jobs, NEW proof \in proofs, proof.hash = j.hash,
             j.hash = JobHash(j), j.chain = Chain, now < j.expires
      PROVE  LET p == RelayPayload(j, proof) IN
             RelayValid(p, now, Prefix, Chain) /\ p.proof = MessageIntent(p)
  <2> DEFINE made == Finished(j, proof)
             p == RelayPayload(j, proof)
  <2>1. FitForRelay(j)
    BY <1>1, JobHashFits DEF Inv, JobsInv
  <2>2. made = [f \in WithdrawFields |-> made[f]] /\ Verifies(made)
    BY <1>1, <2>1, FinishedVerifies DEF Inv, ProofsInv, FitForRelay
  <2>3. p.hash = PayloadHash(made) /\ \A f \in WithdrawFields : p[f] = made[f]
    <3>1. "hash" \notin WithdrawFields
      BY DEF WithdrawFields
    <3> HIDE DEF made
    <3>2. /\ Hashed(made, PayloadHash(made)).hash = PayloadHash(made)
          /\ \A f \in WithdrawFields : Hashed(made, PayloadHash(made))[f] = made[f]
      BY <2>2, <3>1, HashedFile
    <3> QED
      BY <3>2 DEF RelayPayload, made, p
  <2>4. PayloadHash(p) = PayloadHash(made)
    <3> HIDE DEF made, p
    <3> QED BY <2>3 DEF PayloadHash
  <2>5. RelayValid(p, now, Prefix, Chain)
    <3>1. /\ p.expires = made.expires /\ p.amount = made.amount
          /\ p.recipient = made.recipient /\ p.chain = made.chain
      <4> HIDE DEF made, p
      <4> QED BY <2>3 DEF WithdrawFields
    <3>2. /\ made.expires = j.expires /\ made.amount = j.amount
          /\ made.recipient = j.recipient /\ made.chain = j.chain
      BY DEF Finished
    <3> HIDE DEF made, p
    <3> QED
      BY <1>1, <2>1, <2>3, <2>4, <3>1, <3>2 DEF RelayValid, PreparedValid, FitForRelay
  <2>6. p.proof = MessageIntent(p)
    <3> HIDE DEF made, p
    <3> QED BY <2>2, <2>3 DEF Verifies, MessageIntent, WithdrawFields
  <2> QED
    BY <2>5, <2>6
<1>2. Inv => HonestPasses
  BY <1>1 DEF HonestPasses
<1> QED
  BY <1>2, Safety, PTL

\* A withdrawal is sound from the owner's signature to what is submitted,
\* for any notes, requests, files, relayers and clocks.
THEOREM WithdrawalsAreSound == Spec => []WithdrawIsSound
<1>1. SignedIsAsked /\ RelayedVerifies /\ SentVerifies /\ HonestPasses => WithdrawIsSound
  BY DEF WithdrawIsSound
<1> QED
  BY <1>1, OwnersSignWhatIsAsked, RelayedMessagesVerify, SubmittedMessagesVerify,
     HonestPayloadsPass, PTL
=============================================================================

----------------------------- MODULE WithdrawRelay -----------------------------
(***************************************************************************)
(* A withdrawal of src/src/privacy/payload.js, from the note to the        *)
(* transaction that is submitted for it:                                   *)
(*                                                                         *)
(*   buildPreparedWithdrawProverPayload  picks one note of exactly the     *)
(*       amount, looks up its path and has the owner sign the intent       *)
(*   buildPreparedWithdrawPayloadFromProof  puts a prover payload and a    *)
(*       proof, which may come from files, together to a relay payload     *)
(*   buildRelayWithdrawMsgFromPayload, or the payload route of             *)
(*       buildWithdrawTransaction, makes a relayer's message of it; a      *)
(*       message may also be signed without these checks                   *)
(*   the submission of cosmos-client.js or of evm.js checks the message    *)
(*       against the relay payload and chain time once more                *)
(*                                                                         *)
(* The tree, the prover, the other spenders and the clocks are external.   *)
(***************************************************************************)
EXTENDS DisclosureTerms

CONSTANTS
    Wallet,        \* the notes the caller may choose from, spent ones included
    Requests,      \* [amount, asset, recipient, chain, signer, expires, clock]: expires
                   \*   may be Default; clock is "chain" or, without chainNowUnix,
                   \*   "local"; a recipient is [prefix, account]
    Prefix, Chain, \* accountPrefix and chainId of the clients, where they have one
    Skew,          \* the local clock is this much ahead of chain time
    DefaultLife, MaxTime, MaxRoots, MaxBuilds, MaxJobs, MaxPayloads, MaxMessages, MaxSent

ASSUME WithdrawRelayAssumption ==
    /\ \A n \in Wallet : DOMAIN n = {"owner", "amount", "asset", "randomness"}
    /\ \A r \in Requests : r.clock \in {"chain", "local"} /\ r.amount \in Nat \ {0}
    /\ {Skew, DefaultLife, MaxTime, MaxRoots, MaxBuilds, MaxJobs, MaxPayloads,
        MaxMessages, MaxSent} \subseteq Nat

VARIABLES
    root,       \* the current root of the note tree, by number
    now,        \* chain time
    spent,      \* the nullifiers used on chain
    build,      \* the running build, or Idle
    signed,     \* what owners signed: [by, note, request, time, intent]
    jobs,       \* prover payloads, and the mixed-up copies of them
    proofs,     \* what the prover returned
    payloads,   \* relay payloads, and the mixed-up copies of them
    messages,   \* [route, checked, withdraw]: what relayers signed
    sending,    \* the running submission, or Idle
    sent        \* what was submitted: [route, withdraw, chain, clock, from, read]

vars == <<root, now, spent, build, signed, jobs, proofs, payloads, messages, sending, sent>>
files == <<jobs, proofs, payloads, messages>>
Idle == [step |-> "idle"]
Default == 0      \* no expiry given
NotGiven == "not given"      \* an option the caller leaves out
Clock(kind) == IF kind = "local" THEN now + Skew ELSE now

(***************************************************************************)
(* The intent (computeSpendIntentV2), the payloads and their hashes.       *)
(***************************************************************************)
Intent(chain, atRoot, nullifier, amount, assetId, recipient, expires) ==
    [chain |-> ChainDomain(chain), root |-> atRoot, nullifier |-> nullifier, amount |-> amount,
     asset |-> assetId, to |-> recipient.account, expires |-> expires]
JobIntent(j) ==
    Intent(j.chain, j.root, j.nullifier, j.amount, j.assetId, j.recipient, j.expires)
\* What the chain's verifier takes out of a MsgWithdraw.
MessageIntent(m) ==
    Intent(m.chain, m.root, m.nullifier, m.amount, AssetId(m.asset), m.recipient, m.expires)

JobFields == {"root", "nullifier", "amount", "asset", "assetId", "recipient", "chain",
              "expires", "note", "path", "signature"}
WithdrawFields == {"proof", "root", "nullifier", "amount", "asset", "recipient", "chain",
                   "expires"}
JobHash(j) == [f \in JobFields |-> j[f]]
PayloadHash(p) == [f \in WithdrawFields |-> p[f]]
Hashed(p, hash) == [f \in DOMAIN p \cup {"hash"} |-> IF f = "hash" THEN hash ELSE p[f]]
Withdraw(p) == [f \in WithdrawFields |-> p[f]]

(***************************************************************************)
(* buildPreparedWithdrawProverPayload.                                     *)
(***************************************************************************)
ExactMatch(note, request) == note.amount = request.amount /\ note.asset = request.asset

RecipientFits(recipient) == recipient.prefix = Prefix
ExpiryOf(request, time) ==
    IF request.expires = Default THEN time + DefaultLife ELSE request.expires

Start(request) ==
    /\ build = Idle /\ Cardinality(signed) < MaxBuilds
    /\ \E note \in Wallet, time \in {Clock(request.clock)} :
          /\ ExactMatch(note, request)
          /\ RecipientFits(request.recipient)
          /\ ExpiryOf(request, time) > time
          /\ build' = [step |-> "path", request |-> request, note |-> note, time |-> time,
                       expires |-> ExpiryOf(request, time)]
    /\ UNCHANGED <<root, now, spent, signed, files, sending, sent>>

(* lookupMerklePath, awaited, and the signer.                              *)
Sign ==
    /\ build.step = "path"
    /\ LET r == build.request
           n == build.note
           intent == Intent(r.chain, root, Nullifier(n), r.amount, AssetId(n.asset),
                            r.recipient, build.expires)
       IN  /\ signed' = signed \cup {[by |-> r.signer, note |-> n, request |-> r,
                                      time |-> build.time, intent |-> intent]}
           /\ LET job == [root |-> root, path |-> root, nullifier |-> Nullifier(n),
                          amount |-> r.amount, asset |-> r.asset, assetId |-> AssetId(n.asset),
                          recipient |-> r.recipient, chain |-> r.chain,
                          expires |-> build.expires, note |-> n,
                          signature |-> [by |-> r.signer, intent |-> intent]]
              IN  build' = [step |-> "check", job |-> job]
    /\ UNCHANGED <<root, now, spent, files, sending, sent>>

(* assertProverNullifiersUnspent; the job goes to the prover.              *)
CheckUnspent ==
    /\ build.step = "check"
    /\ build.job.nullifier \notin spent
    /\ jobs' = jobs \cup {Hashed(build.job, JobHash(build.job))}
    /\ build' = Idle
    /\ UNCHANGED <<root, now, spent, signed, proofs, payloads, messages, sending, sent>>

BuildThrows ==
    /\ build.step = "check" /\ build.job.nullifier \in spent
    /\ build' = Idle
    /\ UNCHANGED <<root, now, spent, signed, files, sending, sent>>

(* The prover proves what the owner of the note signed, for the whole of   *)
(* the note, of a job with its own hash, and nothing else.                 *)
Prove ==
    /\ \E j \in jobs :
          /\ j.hash = JobHash(j)
          /\ j.nullifier = Nullifier(j.note) /\ j.path = j.root
          /\ j.amount = j.note.amount /\ j.assetId = AssetId(j.note.asset)
          /\ j.signature.by = j.note.owner /\ j.signature.intent = JobIntent(j)
          /\ proofs' = proofs \cup {[hash |-> j.hash, intent |-> JobIntent(j)]}
    /\ UNCHANGED <<root, now, spent, build, signed, jobs, payloads, messages, sending, sent>>

(***************************************************************************)
(* validatePreparedWithdrawProverPayloadMetadata, ...Proof, and            *)
(* buildPreparedWithdrawPayloadFromProof, at whatever time the caller says *)
(* it is: chainNowUnix of the build, or the local clock.                   *)
(***************************************************************************)
JobValid(j, time) ==
    /\ j.hash = JobHash(j)
    /\ time < j.expires
    /\ j.assetId = AssetId(j.asset)
ProofFitsLoosely(j, proof, time) == JobValid(j, time)
ProofFits(j, proof, time) == JobValid(j, time) /\ proof.hash = j.hash

Finished(j, proof) ==
    [proof |-> proof.intent, root |-> j.root, nullifier |-> j.nullifier, amount |-> j.amount,
     asset |-> j.asset, recipient |-> j.recipient, chain |-> j.chain, expires |-> j.expires]

RelayPayload(j, proof) == Hashed(Finished(j, proof), PayloadHash(Finished(j, proof)))

Finish(time) ==
    /\ \E j \in jobs, proof \in proofs :
          /\ ProofFits(j, proof, time)
          /\ payloads' = payloads \cup {RelayPayload(j, proof)}
    /\ UNCHANGED <<root, now, spent, build, signed, jobs, proofs, messages, sending, sent>>

(***************************************************************************)
(* validatePreparedWithdrawPayload and validateRelayWithdrawPayload.       *)
(***************************************************************************)
(* The prefix and the chain are compared where they are given.  An         *)
(* expectedRecipient refuses more, and is left out.                        *)
PreparedValid(p, time) == time < p.expires /\ p.hash = PayloadHash(p)
RelayValid(p, time, prefix, chain) ==
    /\ PreparedValid(p, time)
    /\ p.amount > 0
    /\ prefix \in {NotGiven, p.recipient.prefix}
    /\ chain \in {NotGiven, p.chain}

(* A relayer's message, at the time the caller gives, and one signed       *)
(* without validation (buildDirectSignDoc, or a message passed in).        *)
Relay(time) ==
    /\ Cardinality(messages) < MaxMessages
    /\ \E p \in payloads, route \in {"cosmos", "evm"},
          prefix \in {NotGiven, Prefix}, chain \in {NotGiven, Chain} :
          /\ RelayValid(p, time, prefix, chain)
          /\ messages' = messages \cup {[route |-> route, checked |-> TRUE,
                                         withdraw |-> Withdraw(p)]}
    /\ UNCHANGED <<root, now, spent, build, signed, jobs, proofs, payloads, sending, sent>>
SignUnchecked ==
    /\ Cardinality(messages) < MaxMessages
    /\ \E p \in payloads, route \in {"cosmos", "evm"} :
          messages' = messages \cup {[route |-> route, checked |-> FALSE,
                                      withdraw |-> Withdraw(p)]}
    /\ UNCHANGED <<root, now, spent, build, signed, jobs, proofs, payloads, sending, sent>>

(***************************************************************************)
(* The submission.  validateRelayBroadcastContext of cosmos-client.js      *)
(* compares the signed message with the payload, and the payload is        *)
(* validated at the fence; the one of evm.js validates it at once and      *)
(* compares the transaction with the one built from the payload.  Both     *)
(* clients have a prefix, and may have no chain id.  Cosmos takes chain    *)
(* time from a provider alone; EVM also takes a number that the caller     *)
(* read at some earlier time, or made up.                                  *)
(***************************************************************************)
(* mutation: the proof and the nullifier are all that is compared *)
MatchesPayloadLoosely(withdraw, p) ==
    withdraw.proof = p.proof /\ withdraw.nullifier = p.nullifier

MatchesPayload(withdraw, p) == withdraw = Withdraw(p)

Bind ==
    /\ sending = Idle /\ Cardinality(sent) < MaxSent
    /\ \E m \in messages, p \in payloads, chain \in {NotGiven, Chain},
          clock \in {"provider", "number"}, time \in 0 .. now + Skew :
          /\ MatchesPayload(m.withdraw, p)
          /\ clock = "provider" => time = now
          /\ m.route = "cosmos" => clock = "provider"
          /\ m.route = "evm" => RelayValid(p, time, Prefix, chain)
          /\ sending' = [step |-> "recheck", message |-> m, payload |-> p, chain |-> chain,
                         clock |-> clock, from |-> now, read |-> time]
    /\ UNCHANGED <<root, now, spent, build, signed, files, sent>>

(* recheckReservedDirectPrivacyNullifiers, recheckReservedInputNullifiers. *)
Recheck ==
    /\ sending.step = "recheck"
    /\ sending' = IF sending.payload.nullifier \in spent THEN Idle
                  ELSE [sending EXCEPT !.step = IF sending.message.route = "evm" THEN "send"
                                                ELSE "fence"]
    /\ UNCHANGED <<root, now, spent, build, signed, files, sent>>

(* assertSignedPrivacyFreshAtBroadcast reads chain time again.             *)
Fence ==
    /\ sending.step = "fence"
    /\ sending' = IF RelayValid(sending.payload, now, Prefix, sending.chain)
                  THEN [sending EXCEPT !.step = "send", !.read = now] ELSE Idle
    /\ UNCHANGED <<root, now, spent, build, signed, files, sent>>

Send ==
    /\ sending.step = "send"
    /\ sent' = sent \cup {[route |-> sending.message.route, withdraw |-> sending.message.withdraw,
                           chain |-> sending.chain, clock |-> sending.clock,
                           from |-> sending.from, read |-> sending.read]}
    /\ sending' = Idle
    /\ UNCHANGED <<root, now, spent, build, signed, files>>

(***************************************************************************)
(* What happens around.                                                    *)
(***************************************************************************)
Grow ==
    /\ root < MaxRoots
    /\ root' = root + 1
    /\ UNCHANGED <<now, spent, build, signed, files, sending, sent>>
Tick ==
    /\ now < MaxTime
    /\ now' = now + 1
    /\ UNCHANGED <<root, spent, build, signed, files, sending, sent>>
(* Another session, or a relayer, spends a note.                           *)
Spend ==
    /\ \E n \in Wallet : spent' = spent \cup {Nullifier(n)}
    /\ UNCHANGED <<root, now, build, signed, files, sending, sent>>
(* A payload kept in a file gets one field of another one.                 *)
MixUp ==
    /\ \/ /\ Cardinality(jobs) < MaxJobs
          /\ \E p, q \in jobs, f \in JobFields \cup {"hash"} :
                jobs' = jobs \cup {[p EXCEPT ![f] = q[f]]}
          /\ UNCHANGED payloads
       \/ /\ Cardinality(payloads) < MaxPayloads
          /\ \E p, q \in payloads, f \in WithdrawFields \cup {"hash"} :
                payloads' = payloads \cup {[p EXCEPT ![f] = q[f]]}
          /\ UNCHANGED jobs
    /\ UNCHANGED <<root, now, spent, build, signed, proofs, messages, sending, sent>>

-----------------------------------------------------------------------------
Init ==
    /\ root = 0 /\ now = 0 /\ spent = {} /\ build = Idle /\ signed = {}
    /\ jobs = {} /\ proofs = {} /\ payloads = {} /\ messages = {}
    /\ sending = Idle /\ sent = {}

Next ==
    \/ \E r \in Requests : Start(r)
    \/ Sign \/ CheckUnspent \/ BuildThrows \/ Prove
    \/ \E time \in 0 .. now + Skew : Finish(time)
    \/ \E time \in 0 .. now : Relay(time)
    \/ SignUnchecked \/ Bind \/ Recheck \/ Fence \/ Send
    \/ Grow \/ Tick \/ Spend \/ MixUp

Spec == Init /\ [][Next]_vars

-----------------------------------------------------------------------------
(***************************************************************************)
(* Properties.                                                             *)
(***************************************************************************)
\* Every variable has its type.
TypeOK ==
    /\ root \in 0 .. MaxRoots /\ now \in 0 .. MaxTime
    /\ build.step \in {"idle", "path", "check"}
    /\ sending.step \in {"idle", "recheck", "fence", "send"}
    /\ \A j \in jobs : DOMAIN j = JobFields \cup {"hash"}
    /\ \A p \in payloads : DOMAIN p = WithdrawFields \cup {"hash"}
    /\ \A m \in messages : DOMAIN m.withdraw = WithdrawFields

\* What an owner signs withdraws the whole value of the note, in the note's
\* asset, to whom the request names and not for longer than it says: signing
\* it destroys no change and pays nobody else.
SignedIsAsked ==
    \A s \in signed :
        /\ s.intent.nullifier = Nullifier(s.note) /\ s.intent.amount = s.note.amount
        /\ {s.intent.asset, AssetId(s.request.asset)} = {AssetId(s.note.asset)}
        /\ s.intent.to = s.request.recipient.account
        /\ s.intent.expires \in {s.request.expires, s.time + DefaultLife}
        /\ s.intent.expires > s.time

\* A message that was made through the checks is one the chain's verifier
\* accepts: its proof is of exactly the fields it carries, whichever payload
\* and proof files were put together.
RelayedVerifies ==
    \A m \in messages : m.checked => m.withdraw.proof = MessageIntent(m.withdraw)

\* What is submitted verifies too, also when the message was signed without
\* the checks: its proof is of its fields, it is for the chain the submitter
\* named if one was named, and it had not expired at the time the submission
\* went by.  That time is chain time read during the submission, and not
\* before it, on Cosmos always, and on EVM unless the caller gave a number.
SentVerifies ==
    \A s \in sent :
        /\ s.withdraw.proof = MessageIntent(s.withdraw)
        /\ s.chain \in {NotGiven, s.withdraw.chain}
        /\ s.read < s.withdraw.expires
        /\ s.from <= s.read \/ (s.route = "evm" /\ s.clock = "number")

\* The checks of the owner and of the relayer agree: a payload made of a job
\* and its own proof, for the relayer's chain, passes every relayer's check
\* until it expires, so that no proof is spent on what nobody will relay.
HonestPasses ==
    \A j \in jobs, proof \in proofs :
        LET p == RelayPayload(j, proof)
        IN  proof.hash = j.hash /\ j.hash = JobHash(j) /\ j.chain = Chain /\ now < j.expires
                => RelayValid(p, now, Prefix, Chain) /\ p.proof = MessageIntent(p)

\* A withdrawal is sound from the owner's signature to what is submitted: all
\* of the above, however builds, files, clocks and spenders interleave.
WithdrawIsSound == SignedIsAsked /\ RelayedVerifies /\ SentVerifies /\ HonestPasses
=============================================================================

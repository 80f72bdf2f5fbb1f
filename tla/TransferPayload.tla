--------------------------- MODULE TransferPayload ---------------------------
(***************************************************************************)
(* The JoinSplit transfer payload of src/src/privacy/transfer-v5.js, from  *)
(* the chosen notes to the message:                                        *)
(*                                                                         *)
(*   buildPreparedTransferV5Payload  looks up the path of one note, then   *)
(*       of the other (the tree may grow in between), makes the recipient  *)
(*       and change notes and the disclosures, and asks the owner to sign  *)
(*   signValidatedJoinSplitOwnerIntentV1  rebuilds what is to be signed    *)
(*       from the notes and calls the signer only if all of it agrees; it  *)
(*       is exported, so a request may also have been put together by the  *)
(*       application out of the drafts it holds                            *)
(*   buildTransferV5MsgFromPayloadAndProof  checks a payload, which may    *)
(*       come from a file, against a proof, which may be of another job,   *)
(*       and makes the message                                             *)
(*   _broadcastTxRawBytes of cosmos-client.js, or a wallet on EVM, sends it *)
(*                                                                         *)
(* The prover, the tree, the clock and the random draws are external.      *)
(***************************************************************************)
EXTENDS DisclosureTerms

CONSTANTS
    Wallet,        \* the notes the caller may choose, spent ones included
    Requests,      \* [sender, recipient, amount, asset, policy, mode, target, selfView,
                   \*  signer, chain, expires]; expires may be Default
    Draws,         \* [recipient, change, full, user] random values of a build
    Auditor,
    Chain,         \* the chain a caller who names one wants messages for
    Lifetime, MaxTime, MaxRoots, MaxDrafts, MaxPayloads, MaxByHand, MaxSent

ASSUME TransferPayloadAssumption ==
    /\ \A n \in Wallet :
          {"owner", "amount", "asset", "randomness"} = DOMAIN n /\ n.owner # Hidden
    /\ \A r \in Requests : /\ r.policy \in Policies /\ r.mode \in Modes /\ r.recipient # Hidden
                           /\ r.expires \in Nat
    /\ {Lifetime, MaxTime, MaxRoots, MaxDrafts, MaxPayloads, MaxByHand, MaxSent} \subseteq Nat

VARIABLES
    root,       \* the current root of the note tree, by number
    now,        \* chain time
    build,      \* the running buildPreparedTransferV5Payload, or Idle
    drafts,     \* the complete signing requests made so far
    signed,     \* what owners signed: [by, intent, inputs, outputs]
    payloads,   \* finished payloads, and the edited or mixed-up copies of them
    proofs,     \* what the prover returned
    message,    \* the last MsgTransfer made: [creator, proof, effect, expected]
    sending,    \* the running submission, or Idle
    sent        \* what was submitted: [route, message, begun]

submission == <<sending, sent>>
vars == <<root, now, build, drafts, signed, payloads, proofs, message, submission>>
Idle == [step |-> "idle"]
Default == 0                 \* no expiry given
NotGiven == "not given"      \* an option the caller leaves out
Times == 0 .. MaxTime

(***************************************************************************)
(* The payload and the digests over it.                                    *)
(***************************************************************************)
\* The part of a payload that goes on chain, buildTransferV5Effect.
EffectFields ==
    {"root", "nullifiers", "commitments", "ciphers", "policy", "mode", "userDigest",
     "userTarget", "userPayload", "auditDigest", "auditTarget", "auditPayload",
     "selfDigest", "selfPayload", "expires"}
\* Every field but the hash itself.
HashedFields ==
    EffectFields \cup {"creator", "chain", "asset", "inputs", "outputs", "paths",
                       "userBlinding", "fullBlinding", "signature"}

Effect(payload) == [f \in EffectFields |-> payload[f]]
PayloadHashShort(payload) == [f \in HashedFields \ {"auditPayload", "selfPayload"} |-> payload[f]]
PayloadHash(payload) == [f \in HashedFields |-> payload[f]]

Intent(payload, chain) ==
    [chain |-> ChainDomain(chain), root |-> payload.root, asset |-> payload.asset,
     nullifiers |-> payload.nullifiers, commitments |-> payload.commitments,
     userDigest |-> payload.userDigest, fullDigest |-> payload.auditDigest,
     payloadDigest |-> Effect(payload), expires |-> payload.expires]

Total(notes) == notes[1].amount + notes[2].amount

(***************************************************************************)
(* buildPreparedTransferV5Payload up to its first await: the request and   *)
(* the two notes are checked and the output notes are made.  The caller    *)
(* gives the chain time, as of now or as read before.                      *)
(***************************************************************************)
OutputNotes(request, inputs, draw) ==
    << [owner |-> request.recipient, amount |-> request.amount,
        asset |-> inputs[1].asset, randomness |-> draw.recipient],
       [owner |-> request.sender, amount |-> Total(inputs) - request.amount,
        asset |-> inputs[1].asset, randomness |-> draw.change] >>

FreshBlindings(policy, draw) ==
    /\ Allowed(draw.full, {draw.recipient})
    /\ policy # AllPrivate => Allowed(draw.user, {draw.recipient, draw.full})

ExpiryOf(request, time) ==
    IF request.expires = Default THEN time + Lifetime ELSE request.expires

Start(request, inputs, draw) ==
    /\ build = Idle
    /\ Cardinality(drafts) < MaxDrafts
    /\ \A i \in 1 .. 2 : inputs[i].asset = request.asset /\ inputs[i].owner = inputs[1].owner
    /\ request.amount > 0 /\ Total(inputs) >= request.amount
    /\ FreshBlindings(request.policy, draw)
    /\ \E time \in 0 .. now :
       LET outputs == OutputNotes(request, inputs, draw)
           expires == ExpiryOf(request, time)
       IN
       /\ expires > time
       /\ Commitment(outputs[1]) # Commitment(outputs[2])
       /\ build' = [step |-> "paths", request |-> request, inputs |-> inputs,
                    outputs |-> outputs, draw |-> draw, expires |-> expires,
                    roots |-> << >>]
    /\ UNCHANGED <<root, now, drafts, signed, payloads, proofs, message, submission>>

(* lookupMerklePath, awaited for one note after the other; the path is     *)
(* checked to lead to the root it comes with.                              *)
LookupPath ==
    /\ build.step = "paths" /\ Len(build.roots) < 2
    /\ build' = [build EXCEPT !.roots = Append(@, root)]
    /\ UNCHANGED <<root, now, drafts, signed, payloads, proofs, message, submission>>

(***************************************************************************)
(* The rest of the build up to the signer: one root, distinct nullifiers,  *)
(* a mode that suits the policy, the disclosures and the encrypted outputs. *)
(***************************************************************************)
OneRoot(roots) == roots[1] = roots[2]
ModeSuits(policy, mode) == (policy = AllPrivate) <=> (mode = "none")
UserSection(request, facts) ==
    LET plain == UserPlaintext(request.policy, facts) IN
    CASE request.mode = "none" -> [target |-> Nothing, payload |-> Nothing]
      [] request.mode = "public" -> [target |-> Nothing, payload |-> InClear(plain)]
      [] request.mode = "encrypted" ->
            [target |-> [is |-> "key", of |-> request.target],
             payload |-> Sealed("user", request.target, plain)]

Unsigned(request, inputs, outputs, draw, roots, expires) ==
    LET userBlinding == IF request.policy = AllPrivate THEN 0 ELSE draw.user
        facts(blinding) == Facts(inputs[1].owner, outputs[1], 0, blinding)
        full == facts(draw.full)
        user == UserSection(request, facts(userBlinding))
    IN  [creator |-> request.sender, chain |-> request.chain, expires |-> expires, root |-> roots[1],
         asset |-> AssetId(inputs[1].asset), inputs |-> inputs, outputs |-> outputs,
         paths |-> roots,
         nullifiers |-> << Nullifier(inputs[1]), Nullifier(inputs[2]) >>,
         commitments |-> << Commitment(outputs[1]), Commitment(outputs[2]) >>,
         ciphers |-> << SealedNote(outputs[1], 0), SealedNote(outputs[2], 1) >>,
         policy |-> request.policy, mode |-> request.mode,
         userDigest |-> UserDigest("transfer", request.policy, facts(userBlinding)),
         userTarget |-> user.target, userPayload |-> user.payload,
         auditDigest |-> FullDigest("transfer", full),
         auditTarget |-> [is |-> "key", of |-> Auditor],
         auditPayload |-> Sealed("audit", Auditor, FullPlaintext(full)),
         selfDigest |-> IF request.selfView THEN FullDigest("transfer", full) ELSE Nothing,
         selfPayload |-> IF request.selfView
                         THEN Sealed("self", inputs[1].owner, FullPlaintext(full)) ELSE Nothing,
         userBlinding |-> userBlinding, fullBlinding |-> draw.full,
         signature |-> Nothing, hash |-> Nothing]

\* buildJoinSplitOwnerIntentSigningRequestV1: what the signer is shown.
SigningRequest(payload) ==
    [payload |-> payload, inputs |-> payload.inputs, outputs |-> payload.outputs,
     intent |-> Intent(payload, payload.chain)]

Drafted(b) ==
    /\ OneRoot(b.roots)
    /\ Nullifier(b.inputs[1]) # Nullifier(b.inputs[2])
    /\ ModeSuits(b.request.policy, b.request.mode)

Draft ==
    /\ build.step = "paths" /\ Len(build.roots) = 2
    /\ Drafted(build)
    /\ LET payload == Unsigned(build.request, build.inputs, build.outputs, build.draw,
                               build.roots, build.expires)
       IN  /\ build' = [step |-> "signing", request |-> build.request, payload |-> payload]
           /\ drafts' = drafts \cup {SigningRequest(payload)}
    /\ UNCHANGED <<root, now, signed, payloads, proofs, message, submission>>

(***************************************************************************)
(* normalizedPayloadForValidation, with validateDisclosures and            *)
(* validateDisclosureBlindings.                                            *)
(***************************************************************************)
UserSectionValid(p) ==
    IF p.policy = AllPrivate
    THEN p.mode = "none" /\ {p.userDigest, p.userTarget, p.userPayload} = {Nothing}
    ELSE /\ p.mode # "none" /\ p.userDigest # Nothing
         /\ IF p.mode = "public"
            THEN /\ p.userTarget = Nothing /\ IsPlaintext(p.userPayload)
                 /\ LET plain == p.userPayload.plain IN
                    /\ plain.plane = "user" /\ plain.policy = p.policy
                    /\ plain.facts.index = 0 /\ plain.facts.commitment = p.commitments[1]
                    /\ UserDigest("transfer", plain.policy, plain.facts) = p.userDigest
            ELSE p.userTarget # Nothing /\ IsEnvelope(p.userPayload, "user")

Valid(p) ==
    /\ p.nullifiers[1] # p.nullifiers[2] /\ p.commitments[1] # p.commitments[2]
    /\ \A i \in 1 .. 2 : IsEnvelope(p.ciphers[i], "transfer-note")
    /\ UserSectionValid(p)
    /\ p.auditDigest # Nothing /\ IsEnvelope(p.auditPayload, "audit")
    /\ (p.selfDigest = Nothing) <=> (p.selfPayload = Nothing)
    /\ p.selfPayload # Nothing => IsEnvelope(p.selfPayload, "self")
    /\ SeparateBlindings(p.policy, p.outputs[1].randomness, p.userBlinding, p.fullBlinding)

(* validateJoinSplitOwnerIntentSigningRequestV1: everything the signer is  *)
(* shown is computed again from the notes.                                 *)
RequestValidLoosely(r) ==
    /\ Valid(r.payload)
    /\ r.inputs = r.payload.inputs /\ r.outputs = r.payload.outputs
    /\ Total(r.inputs) = Total(r.outputs)
    /\ r.intent = Intent(r.payload, r.payload.chain)
RequestValid(r) ==
    LET p == r.payload
        owner == r.inputs[1].owner
        facts(blinding) == Facts(owner, r.outputs[1], 0, blinding)
    IN  /\ Valid(p)
        /\ r.inputs = p.inputs /\ r.outputs = p.outputs
        /\ \A i \in 1 .. 2 : /\ p.nullifiers[i] = Nullifier(r.inputs[i])
                             /\ p.commitments[i] = Commitment(r.outputs[i])
        /\ \A n \in {r.inputs[2], r.outputs[1], r.outputs[2]} : n.asset = r.inputs[1].asset
        /\ p.asset = AssetId(r.inputs[1].asset)
        /\ r.inputs[2].owner = owner /\ r.outputs[2].owner = owner
        /\ Total(r.inputs) = Total(r.outputs)
        /\ p.auditDigest = FullDigest("transfer", facts(p.fullBlinding))
        /\ p.selfDigest \in {Nothing, p.auditDigest}
        /\ p.userDigest = UserDigest("transfer", p.policy, facts(p.userBlinding))
        /\ r.intent = Intent(p, p.chain)

(***************************************************************************)
(* signValidatedJoinSplitOwnerIntentV1.                                    *)
(***************************************************************************)
Signature(by, r) == [by |-> by, intent |-> r.intent, inputs |-> r.inputs, outputs |-> r.outputs]

(* The build's own request; the finished payload is checked once more.     *)
Sign ==
    /\ build.step = "signing"
    /\ LET r == SigningRequest(build.payload)
           s == Signature(build.request.signer, r)
           filled == [build.payload EXCEPT !.signature = [is |-> "signature", of |-> s]]
       IN  /\ RequestValid(r)
           /\ signed' = signed \cup {s}
           /\ payloads' = payloads \cup {[filled EXCEPT !.hash = PayloadHash(filled)]}
    /\ build' = Idle
    /\ UNCHANGED <<root, now, drafts, proofs, message, submission>>

(* A request put together from two drafts: one component is the other's.   *)
Mixtures(r, other) ==
    {r} \cup {[r EXCEPT ![f] = other[f]] : f \in {"payload", "inputs", "outputs", "intent"}}
        \cup {[r EXCEPT !.payload[f] = other.payload[f]] : f \in HashedFields}

SignByHand(by) ==
    /\ Cardinality(signed) < MaxByHand
    /\ \E r, other \in drafts : \E mixed \in Mixtures(r, other) :
          /\ RequestValid(mixed)
          /\ signed' = signed \cup {Signature(by, mixed)}
    /\ UNCHANGED <<root, now, build, drafts, payloads, proofs, message, submission>>

(* Whatever check fails throws: the build is over and nothing is left.     *)
BuildThrows ==
    /\ \/ build.step = "paths" /\ Len(build.roots) = 2 /\ ~ Drafted(build)
       \/ build.step = "signing" /\ ~ RequestValid(SigningRequest(build.payload))
    /\ build' = Idle
    /\ UNCHANGED <<root, now, drafts, signed, payloads, proofs, message, submission>>

(***************************************************************************)
(* What happens around the builder.                                        *)
(***************************************************************************)
Grow ==
    /\ root < MaxRoots
    /\ root' = root + 1
    /\ UNCHANGED <<now, build, drafts, signed, payloads, proofs, message, submission>>

Tick ==
    /\ now < MaxTime
    /\ now' = now + 1
    /\ UNCHANGED <<root, build, drafts, signed, payloads, proofs, message, submission>>

(* A payload kept in a file gets one field of another one.                 *)
MixUp ==
    /\ Cardinality(payloads) < MaxPayloads
    /\ \E p, q \in payloads : \E f \in HashedFields \cup {"hash"} :
          payloads' = payloads \cup {[p EXCEPT ![f] = q[f]]}
    /\ UNCHANGED <<root, now, build, drafts, signed, proofs, message, submission>>

(* The prover proves, of a payload with its own hash, what the owner of the *)
(* inputs signed, and nothing else.                                        *)
Prove ==
    /\ \E p \in payloads :
          /\ p.hash = PayloadHash(p)
          /\ p.signature # Nothing /\ p.signature.of.by = p.inputs[1].owner
          /\ p.signature.of.intent = Intent(p, p.chain)
          /\ proofs' = proofs \cup {[hash |-> p.hash, intent |-> Intent(p, p.chain)]}
    /\ UNCHANGED <<root, now, build, drafts, signed, payloads, message, submission>>

(***************************************************************************)
(* validatePreparedTransferV5PayloadMetadata, ...At and ...Proof, and      *)
(* buildTransferV5MsgFromPayloadAndProof.  The creator may be replaced.    *)
(***************************************************************************)
ValidAt(p, time) == Valid(p) /\ p.hash = PayloadHash(p) /\ time < p.expires

(* mutation: any proof at hand will do *)
ProofFitsLoosely(p, proof, time) == ValidAt(p, time) /\ proof \in proofs

ProofFits(p, proof, time) == ValidAt(p, time) /\ proof.hash = p.hash

(* The time is what the caller takes for now: buildTransferMessage takes   *)
(* the chain time it was called with, which is from before the prover, and *)
(* others the local clock.  A chain is compared if the caller names one.   *)
MakeMessage(creator) ==
    /\ \E p \in payloads, proof \in proofs, time \in Times, expected \in {NotGiven, Chain} :
          /\ ProofFits(p, proof, time)
          /\ expected \in {NotGiven, p.chain}
          /\ message' = [creator |-> creator, proof |-> proof, effect |-> Effect(p),
                         expected |-> expected]
    /\ UNCHANGED <<root, now, build, drafts, signed, payloads, proofs, submission>>

(***************************************************************************)
(* The submission.  assertEvmTransferExecutionBinding compares the expiry  *)
(* with a time the caller gives, and nothing of an EVM submission reads    *)
(* one; _broadcastTxRawBytes reads chain time from a provider, after it    *)
(* has asked for the nullifiers.                                           *)
(***************************************************************************)
Submit(route) ==
    /\ sending = Idle /\ Cardinality(sent) < MaxSent
    /\ message # Nothing
    /\ route = "evm" => \E time \in Times : time < message.effect.expires
    /\ sending' = [step |-> IF route = "cosmos" THEN "fence" ELSE "send", route |-> route,
                   message |-> message, begun |-> now]
    /\ UNCHANGED <<root, now, build, drafts, signed, payloads, proofs, message, sent>>

(* assertSignedPrivacyFreshAtBroadcast                                     *)
FreshAtBroadcast(m, time) == time < m.effect.expires

Fence ==
    /\ sending.step = "fence"
    /\ sending' = IF FreshAtBroadcast(sending.message, now)
                  THEN [sending EXCEPT !.step = "send"] ELSE Idle
    /\ UNCHANGED <<root, now, build, drafts, signed, payloads, proofs, message, sent>>

(* A nullifier is spent by now, or the mark on the reservation fails.      *)
GiveUp ==
    /\ sending # Idle
    /\ sending' = Idle
    /\ UNCHANGED <<root, now, build, drafts, signed, payloads, proofs, message, sent>>

Send ==
    /\ sending.step = "send"
    /\ sent' = sent \cup {[route |-> sending.route, message |-> sending.message,
                           begun |-> sending.begun]}
    /\ sending' = Idle
    /\ UNCHANGED <<root, now, build, drafts, signed, payloads, proofs, message>>

-----------------------------------------------------------------------------
Init ==
    /\ root = 0 /\ now = 0 /\ build = Idle
    /\ drafts = {} /\ signed = {} /\ payloads = {} /\ proofs = {} /\ message = Nothing
    /\ sending = Idle /\ sent = {}

Accounts == {n.owner : n \in Wallet}

Next ==
    \/ \E r \in Requests, m, n \in Wallet, d \in Draws : Start(r, <<m, n>>, d)
    \/ LookupPath \/ Draft \/ Sign \/ BuildThrows
    \/ \E by \in Accounts : SignByHand(by)
    \/ Grow \/ Tick \/ MixUp \/ Prove
    \/ \E creator \in Accounts : MakeMessage(creator)
    \/ \E route \in {"cosmos", "evm"} : Submit(route)
    \/ Fence \/ GiveUp \/ Send

Spec == Init /\ [][Next]_vars

-----------------------------------------------------------------------------
(***************************************************************************)
(* Properties.                                                             *)
(***************************************************************************)
\* Every variable has its type.
TypeOK ==
    /\ root \in 0 .. MaxRoots /\ now \in 0 .. MaxTime
    /\ build.step \in {"idle", "paths", "signing"} /\ sending.step \in {"idle", "fence", "send"}
    /\ build.step = "paths" => build.roots \in Seq(0 .. MaxRoots) /\ Len(build.roots) <= 2
    /\ \A p \in payloads : DOMAIN p = HashedFields \cup {"hash"}
    /\ message = Nothing \/ (message.proof \in proofs /\ message.creator \in Accounts)

\* What a signer signs is what its notes say: the effect spends exactly the
\* notes shown, of one owner and asset, creates exactly the outputs shown,
\* conserves value, returns the change to the owner, and its full disclosure
\* names the true sender, recipient and amount, whatever drafts the
\* request was put together from.
SignedIsShown ==
    \A s \in signed :
        LET effect == s.intent.payloadDigest
            owner == s.inputs[1].owner
            told == s.intent.fullDigest.facts
        IN  /\ \A i \in 1 .. 2 : /\ effect.nullifiers[i] = Nullifier(s.inputs[i])
                                 /\ effect.commitments[i] = Commitment(s.outputs[i])
            /\ s.inputs[1] # s.inputs[2]
            /\ {s.inputs[2].owner, s.outputs[2].owner} = {owner}
            /\ Cardinality({n.asset : n \in {s.inputs[i] : i \in 1 .. 2}
                                        \cup {s.outputs[i] : i \in 1 .. 2}}) = 1
            /\ Total(s.inputs) = Total(s.outputs)
            /\ told.from = owner /\ told.to = s.outputs[1].owner
            /\ told.amount = s.outputs[1].amount
            /\ s.intent.userDigest # Nothing => s.intent.userDigest.policy = effect.policy

\* The two paths of a draft lead to its one root, however the tree grew
\* between the two lookups.
PathsMeet == \A d \in drafts : \A i \in 1 .. 2 : d.payload.paths[i] = d.payload.root

\* The proof of a message is of exactly the effect it carries, whichever
\* payload file and whichever proof were put together, and of the chain the
\* caller named, if one was named.  That it has not expired is not promised
\* here: the time it is compared with may be from before the prover.
MessageVerifies ==
    message # Nothing =>
        /\ message.proof.intent.payloadDigest = message.effect
        /\ message.expected # NotGiven =>
              message.proof.intent.chain = ChainDomain(message.expected)

\* A message that had expired when its submission began, say because it was
\* made with a time from before the prover or because signing took long, is
\* not sent on Cosmos; and what is sent, on either route, has a proof of what
\* it carries, though another message may be made while it is under way.
StaleIsNotSent ==
    \A s \in sent :
        /\ s.message.proof.intent.payloadDigest = s.message.effect
        /\ s.route = "cosmos" => s.begun < s.message.effect.expires

(* What the holder of a key, or anyone for the plaintexts sent in the      *)
(* clear, reads in an effect.                                              *)
Opened(effect, key) ==
    {v.plain : v \in {u \in {effect.userPayload, effect.auditPayload, effect.selfPayload} :
                        u.is = "plaintext" \/ (u.is = "envelope" /\ u.to = key)}}
ReceivedNotes(effect, key) ==
    {v.note : v \in {u \in {effect.ciphers[i] : i \in 1 .. 2} : u.to = key}}
KnownSecrets(effect, key) ==
    {plain.facts.blinding : plain \in Opened(effect, key)}
        \cup {note.randomness : note \in ReceivedNotes(effect, key)}

\* Nobody but the sender and the auditor learns more of a transfer than its
\* policy discloses: no plaintext they read shows it, and no secret they read
\* (a blinding, the randomness of their note) opens the full digest.
HiddenStaysHidden ==
    \A d \in drafts : \A key \in (Accounts \cup {r.recipient : r \in Requests}
                                    \cup {r.target : r \in Requests})
                                 \ {Auditor, d.inputs[1].owner} :
        LET effect == Effect(d.payload) IN
        /\ \A plain \in Opened(effect, key) :
              /\ "from" \notin effect.policy => plain.facts.from = Hidden
              /\ "to" \notin effect.policy => plain.facts.to = Hidden
              /\ "amount" \notin effect.policy => plain.facts.amount = 0
        /\ effect.auditDigest.facts.blinding \notin KnownSecrets(effect, key)

\* The readers a message is meant for learn the truth: what the auditor, the
\* sender's self view and the chosen target open is what the digests of the
\* message are of.
ReadersLearnTheTruth ==
    message # Nothing =>
        LET e == message.effect IN
        /\ Opens(e.auditPayload, "audit", e.auditTarget.of)
        /\ FullDigest("transfer", e.auditPayload.plain.facts) = e.auditDigest
        /\ e.selfPayload # Nothing => e.selfPayload.plain = e.auditPayload.plain
        /\ e.mode = "encrypted" =>
              /\ Opens(e.userPayload, "user", e.userTarget.of)
              /\ UserDigest("transfer", e.policy, e.userPayload.plain.facts) = e.userDigest

\* What owners sign is what they were shown, what becomes of it verifies and
\* tells its readers the truth, and on Cosmos it is not sent when it is stale.
TransferIsSound ==
    SignedIsShown /\ PathsMeet /\ MessageVerifies /\ StaleIsNotSent /\ ReadersLearnTheTruth
=============================================================================

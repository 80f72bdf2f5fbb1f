------------------------------ MODULE BatchPayload ------------------------------
(***************************************************************************)
(* The one-proof batch payload of src/src/privacy/batch-transfer.js, from  *)
(* the notes and outputs of a batch to the message:                        *)
(*                                                                         *)
(*   buildPreparedBatchTransferPayload  checks the inputs with their paths *)
(*       and the outputs with their secrets, makes the effect and asks the *)
(*       owner to sign                                                     *)
(*   signValidatedBatchTransferIntentV1  computes every field of a signing *)
(*       request again and calls the signer only if all of it agrees; it   *)
(*       is exported, so a request may also have been put together by the  *)
(*       application out of the drafts it holds                            *)
(*   buildMsgBatchTransferFromPrepared  checks a payload and a proof, both *)
(*       of which may come from files, and makes the message               *)
(***************************************************************************)
EXTENDS DisclosureTerms, FiniteSetsExt

CONSTANTS
    Builds,     \* inputs of buildPreparedBatchTransferPayload:
                \* [inputs, root, outputs, selfView, chain, expires, signer], where an
                \* input is [note, root], root may be NoRoot, and an output is
                \* [kind, note, policy, mode, target, user, full]
    NoRoot, NoTarget,
    Auditor, SelfKey,
    MaxInputs, MaxOutputs,
    MaxTime, MaxDrafts, MaxPayloads, MaxSigned

BatchPayloadAssumption ==
    /\ \A b \in Builds : \A i \in DOMAIN b.outputs :
          b.outputs[i].policy \in Policies /\ b.outputs[i].mode \in Modes
    /\ {MaxInputs, MaxOutputs, MaxTime, MaxDrafts, MaxPayloads, MaxSigned} \subseteq Nat

VARIABLES
    now,        \* the local clock
    build,      \* the running build, or Idle
    drafts,     \* the signing requests made so far
    signed,     \* what owners signed: [by, request]
    payloads,   \* finished payloads, and mixed-up copies of them
    proofs,     \* what the prover returned
    message     \* the last MsgBatchTransfer made

vars == <<now, build, drafts, signed, payloads, proofs, message>>
Idle == [step |-> "idle"]

Elements(seq) == {seq[i] : i \in DOMAIN seq}
Distinct(seq) == Cardinality(Elements(seq)) = Len(seq)
Total(entries) == MapThenSumSet(LAMBDA i : entries[i].note.amount, DOMAIN entries)

(***************************************************************************)
(* normalizePreparedInput: the root a path leads to must be the one asked  *)
(* for, and all of them the same.                                          *)
(***************************************************************************)
RootOf(b) == IF b.root = NoRoot THEN b.inputs[1].root ELSE b.root
InputsFit(b) ==
    LET notes == [i \in DOMAIN b.inputs |-> b.inputs[i].note] IN
    /\ Len(b.inputs) \in 1 .. MaxInputs
    /\ \A i \in DOMAIN b.inputs : /\ b.inputs[i].root = RootOf(b)
                                  /\ notes[i].owner = notes[1].owner
                                  /\ notes[i].asset = notes[1].asset
    /\ Distinct([i \in DOMAIN notes |-> Nullifier(notes[i])])

\* normalizePreparedOutput
OutputFits(output, owner) ==
    /\ CASE output.policy = AllPrivate -> output.mode = "none" /\ output.target = NoTarget
         [] output.mode = "public" -> output.target = NoTarget
         [] output.mode = "encrypted" -> output.target # NoTarget
         [] OTHER -> FALSE
    /\ (output.policy = AllPrivate) <=> (output.user = 0)
    /\ output.full # 0
    /\ CASE output.kind = "payment" -> output.note.amount > 0
         [] output.kind = "change" -> output.note.amount > 0
         [] output.kind = "padding" -> output.note.amount = 0
    /\ output.kind # "payment" => output.note.owner = owner /\ output.policy = AllPrivate

\* validateOutputOrderAndConservation: payments, then at most one change, then
\* padding.
Rank(kind) == CASE kind = "payment" -> 1 [] kind = "change" -> 2 [] kind = "padding" -> 3
OrderAndConservation(inputs, outputs) ==
    /\ \A i, j \in DOMAIN outputs : i < j => Rank(outputs[i].kind) <= Rank(outputs[j].kind)
    /\ Cardinality({i \in DOMAIN outputs : outputs[i].kind = "change"}) <= 1
    /\ outputs[1].kind = "payment"
    /\ Total(inputs) = Total(outputs)

\* validateSecretIndependence: no two of all the randomness and blindings agree.
SecretsOf(output) ==
    <<output.note.randomness, output.full>> \o IF output.policy = AllPrivate THEN << >> ELSE <<output.user>>

(* mutation: the randomness of the inputs is not compared *)
SecretsOfOutputs(inputs, outputs) ==
    \A i, j \in DOMAIN outputs :
        LET secrets == SecretsOf(outputs[i]) IN
        /\ 0 \notin Elements(secrets) /\ Distinct(secrets)
        /\ i # j => Elements(secrets) \cap Elements(SecretsOf(outputs[j])) = {}

SecretIndependence(inputs, outputs) ==
    /\ Distinct([i \in DOMAIN inputs |-> inputs[i].note.randomness])
    /\ \A i \in DOMAIN outputs :
          LET secrets == SecretsOf(outputs[i]) IN
          /\ 0 \notin Elements(secrets) /\ Distinct(secrets)
          /\ \A j \in DOMAIN inputs : inputs[j].note.randomness \notin Elements(secrets)
          /\ \A j \in DOMAIN outputs \ {i} :
                Elements(secrets) \cap Elements(SecretsOf(outputs[j])) = {}

OutputsFit(b) ==
    LET owner == b.inputs[1].note.owner IN
    /\ Len(b.outputs) \in 1 .. MaxOutputs
    /\ \A i \in DOMAIN b.outputs : /\ OutputFits(b.outputs[i], owner)
                                   /\ b.outputs[i].note.asset = b.inputs[1].note.asset
    /\ Distinct([i \in DOMAIN b.outputs |-> Commitment(b.outputs[i].note)])
    /\ OrderAndConservation(b.inputs, b.outputs)
    /\ SecretIndependence(b.inputs, b.outputs)

(***************************************************************************)
(* disclosureForOutput and the message output made of it.  The index of an *)
(* output starts at 0.                                                     *)
(***************************************************************************)
UserFacts(output, owner, i) == Facts(owner, output.note, i - 1, output.user)
FullFacts(output, owner, i) == Facts(owner, output.note, i - 1, output.full)

Wire(output, owner, i, selfView) ==
    LET user == UserPlaintext(output.policy, UserFacts(output, owner, i))
        full == FullPlaintext(FullFacts(output, owner, i))
    IN  [commitment |-> Commitment(output.note),
         cipher |-> SealedNote(output.note, i - 1),
         policy |-> output.policy, mode |-> output.mode,
         userDigest |-> UserDigest("batch", output.policy, UserFacts(output, owner, i)),
         userTarget |-> IF output.mode = "encrypted" THEN [is |-> "key", of |-> output.target]
                        ELSE Nothing,
         userPayload |-> CASE output.mode = "none" -> Nothing
                           [] output.mode = "public" -> InClear(user)
                           [] output.mode = "encrypted" -> Sealed("user", output.target, user),
         fullDigest |-> FullDigest("batch", full.facts),
         auditPayload |-> Sealed("audit", Auditor, full),
         selfPayload |-> IF selfView THEN Sealed("self", SelfKey, full) ELSE Nothing]

(***************************************************************************)
(* validateBatchTransferEffectsV1, with normalizeBatchOutput.              *)
(***************************************************************************)
WireValid(wire, i) ==
    /\ IsEnvelope(wire.cipher, "transfer-note") /\ IsEnvelope(wire.auditPayload, "audit")
    /\ wire.selfPayload # Nothing => IsEnvelope(wire.selfPayload, "self")
    /\ IF wire.policy = AllPrivate
       THEN wire.mode = "none" /\ {wire.userDigest, wire.userTarget, wire.userPayload} = {Nothing}
       ELSE /\ wire.mode # "none" /\ wire.userDigest # Nothing
            /\ IF wire.mode = "public"
               THEN /\ wire.userTarget = Nothing /\ IsPlaintext(wire.userPayload)
                    /\ LET plain == wire.userPayload.plain IN
                       /\ plain.plane = "user" /\ plain.policy = wire.policy
                       /\ plain.facts.index = i - 1 /\ plain.facts.commitment = wire.commitment
                       /\ UserDigest("batch", plain.policy, plain.facts) = wire.userDigest
               ELSE wire.userTarget # Nothing /\ IsEnvelope(wire.userPayload, "user")

EffectValid(effect) ==
    /\ Distinct(effect.nullifiers)
    /\ \A i \in DOMAIN effect.outputs : WireValid(effect.outputs[i], i)
    /\ \A i \in DOMAIN effect.outputs :
          (effect.outputs[i].selfPayload = Nothing) <=> (effect.outputs[1].selfPayload = Nothing)
    /\ Distinct([i \in DOMAIN effect.outputs |-> effect.outputs[i].commitment])

Effect(root, inputs, wires, audit, expires) ==
    [root |-> root, nullifiers |-> [i \in DOMAIN inputs |-> Nullifier(inputs[i].note)],
     outputs |-> wires, audit |-> audit, expires |-> expires]

(***************************************************************************)
(* The four vector roots, each bound to its kind and count, the leaf of a  *)
(* user digest also to its policy; and the intent.                         *)
(***************************************************************************)
VectorRoot(kind, values) == [is |-> kind, count |-> Len(values), values |-> values]
Roots(effect) ==
    LET outputs == effect.outputs
        column(f) == [i \in DOMAIN outputs |-> outputs[i][f]]
    IN  [nullifiers |-> VectorRoot("nullifier", effect.nullifiers),
         commitments |-> VectorRoot("commitment", column("commitment")),
         user |-> VectorRoot("user_disclosure",
                     [i \in DOMAIN outputs |-> <<outputs[i].policy, outputs[i].userDigest>>]),
         full |-> VectorRoot("full_disclosure", column("fullDigest"))]

\* Every part is put down with its length, so that two effects never look alike.
PayloadDigest(effect) == [is |-> "digest", of |-> effect]

Intent(chain, asset, effect) ==
    [chain |-> ChainDomain(chain), root |-> effect.root, asset |-> asset, roots |-> Roots(effect),
     payloadDigest |-> PayloadDigest(effect), expires |-> effect.expires]

(***************************************************************************)
(* buildBatchTransferSigningRequest, and its validation: all of it is      *)
(* computed again from the notes, but for the kind of an output.           *)
(***************************************************************************)
SigningRequest(b) ==
    LET owner == b.inputs[1].note.owner
        wires == [i \in DOMAIN b.outputs |-> Wire(b.outputs[i], owner, i, b.selfView)]
        effect == Effect(RootOf(b), b.inputs, wires, [epoch |-> 1, target |-> Auditor], b.expires)
        asset == AssetId(b.inputs[1].note.asset)
    IN  [chain |-> b.chain, expires |-> b.expires, root |-> RootOf(b), asset |-> asset,
         inputs |-> [i \in DOMAIN b.inputs |-> [note |-> b.inputs[i].note]],
         nullifiers |-> effect.nullifiers, outputs |-> b.outputs, owner |-> owner,
         total |-> Total(b.inputs), audit |-> effect.audit, selfView |-> b.selfView,
         roots |-> Roots(effect), effect |-> effect, intent |-> Intent(b.chain, asset, effect)]

\* structuredOutput
OutputShown(output, owner, i, wire) ==
    /\ Commitment(output.note) = wire.commitment
    /\ (output.policy = AllPrivate) <=> (output.user = 0)
    /\ output.full # 0
    /\ output.policy = wire.policy /\ output.mode = wire.mode
    /\ UserDigest("batch", output.policy, UserFacts(output, owner, i)) = wire.userDigest
    /\ FullDigest("batch", FullFacts(output, owner, i)) = wire.fullDigest

RequestValidLoosely(r) ==
    LET e == r.effect IN
    /\ EffectValid(e) /\ e.expires = r.expires /\ e.root = r.root
    /\ Len(r.outputs) = Len(e.outputs)
    /\ r.total = Total(r.inputs)
    /\ \A i \in DOMAIN r.outputs : OutputShown(r.outputs[i], r.owner, i, e.outputs[i])
    /\ OrderAndConservation(r.inputs, r.outputs) /\ SecretIndependence(r.inputs, r.outputs)
    /\ r.roots = Roots(e) /\ r.intent = Intent(r.chain, r.asset, e)
RequestValid(r) ==
    LET e == r.effect IN
    /\ EffectValid(e) /\ e.expires = r.expires /\ e.root = r.root
    /\ Len(r.inputs) = Len(r.nullifiers) /\ Len(r.inputs) = Len(e.nullifiers)
    /\ Len(r.outputs) = Len(e.outputs)
    /\ \A i \in DOMAIN r.inputs :
          /\ Nullifier(r.inputs[i].note) = e.nullifiers[i] /\ e.nullifiers[i] = r.nullifiers[i]
          /\ r.inputs[i].note.owner = r.owner /\ AssetId(r.inputs[i].note.asset) = r.asset
    /\ r.total = Total(r.inputs)
    /\ \A i \in DOMAIN r.outputs : /\ AssetId(r.outputs[i].note.asset) = r.asset
                                   /\ OutputShown(r.outputs[i], r.owner, i, e.outputs[i])
    /\ OrderAndConservation(r.inputs, r.outputs)
    /\ SecretIndependence(r.inputs, r.outputs)
    /\ r.selfView = (e.outputs[1].selfPayload # Nothing) /\ r.audit = e.audit
    /\ r.roots = Roots(e)
    /\ r.intent = Intent(r.chain, r.asset, e)

(***************************************************************************)
(* The build, and the signatures.                                          *)
(***************************************************************************)
\* Up to the signer; a build whose input does not fit throws at once.
Prepare(b) ==
    /\ build = Idle /\ Cardinality(drafts) < MaxDrafts
    /\ InputsFit(b) /\ OutputsFit(b)
    /\ LET r == SigningRequest(b) IN
       /\ EffectValid(r.effect)
       /\ build' = [step |-> "signing", b |-> b, request |-> r]
       /\ drafts' = drafts \cup {r}
    /\ UNCHANGED <<now, signed, payloads, proofs, message>>

HashedFields == {"chain", "expires", "root", "asset", "inputs", "outputs", "wires", "audit",
                 "roots", "effect", "intent", "signature"}
PayloadHashShort(payload) == [f \in HashedFields \ {"wires"} |-> payload[f]]
\* computePreparedBatchTransferPayloadHash: the creator is left out.
PayloadHash(payload) == [f \in HashedFields |-> payload[f]]

Payload(b, r, signature) ==
    [chain |-> r.chain, expires |-> r.expires, root |-> r.root, asset |-> r.asset,
     inputs |-> b.inputs, outputs |-> b.outputs, wires |-> r.effect.outputs, audit |-> r.audit,
     roots |-> r.roots, effect |-> r.effect, intent |-> r.intent, signature |-> signature]

\* The effect a payload stands for is parsed from its parts.
ParsedEffect(p) == Effect(p.root, p.inputs, p.wires, p.audit, p.expires)
EnvelopeValid(p, time) ==
    /\ Len(p.wires) = Len(p.outputs) /\ EffectValid(ParsedEffect(p))
    /\ p.hash = PayloadHash(p)
    /\ time < p.expires

\* The signer may take any time to answer: the finished payload is checked
\* against the clock then.
Finished ==
    LET p == Payload(build.b, build.request, [by |-> build.b.signer, intent |-> build.request.intent])
    IN  [f \in HashedFields \cup {"hash"} |-> IF f = "hash" THEN PayloadHash(p) ELSE p[f]]

Sign ==
    /\ build.step = "signing" /\ RequestValid(build.request)
    /\ signed' = signed \cup {[by |-> build.b.signer, request |-> build.request]}
    /\ payloads' = IF EnvelopeValid(Finished, now) THEN payloads \cup {Finished} ELSE payloads
    /\ build' = Idle
    /\ UNCHANGED <<now, drafts, proofs, message>>

\* A request put together from two drafts.
Mixtures(r, other) ==
    {[r EXCEPT ![f] = other[f]] : f \in DOMAIN r}
        \cup {[r EXCEPT !.effect[f] = other.effect[f]] : f \in DOMAIN r.effect}
        \cup IF Len(r.outputs) # Len(other.outputs) THEN {}
             ELSE {[r EXCEPT !.outputs = [i \in DOMAIN r.outputs |->
                       [r.outputs[i] EXCEPT ![f] = other.outputs[i][f]]]] : f \in DOMAIN r.outputs[1]}

SignByHand(by) ==
    /\ Cardinality(signed) < MaxSigned
    /\ \E r, other \in drafts : \E mixed \in Mixtures(r, other) :
          /\ RequestValid(mixed)
          /\ signed' = signed \cup {[by |-> by, request |-> mixed]}
    /\ UNCHANGED <<now, build, drafts, payloads, proofs, message>>

(***************************************************************************)
(* What happens around it.                                                 *)
(***************************************************************************)
Tick ==
    /\ now < MaxTime /\ now' = now + 1
    /\ UNCHANGED <<build, drafts, signed, payloads, proofs, message>>

\* A payload kept in a file gets one part of another one.
MixUp ==
    /\ Cardinality(payloads) < MaxPayloads
    /\ \E p, q \in payloads :
          \/ \E f \in HashedFields \cup {"hash"} : payloads' = payloads \cup {[p EXCEPT ![f] = q[f]]}
          \/ \E f \in DOMAIN p.wires[1] :
                payloads' = payloads \cup {[p EXCEPT !.wires[1][f] = q.wires[1][f]]}
    /\ UNCHANGED <<now, build, drafts, signed, proofs, message>>

\* The prover proves what the owner of the inputs signed, of a payload with its
\* own hash.
Prove ==
    /\ \E p \in payloads :
          LET intent == Intent(p.chain, p.asset, ParsedEffect(p)) IN
          /\ p.hash = PayloadHash(p)
          /\ p.signature = [by |-> p.inputs[1].note.owner, intent |-> intent]
          /\ proofs' = proofs \cup {[hash |-> p.hash, intent |-> intent]}
    /\ UNCHANGED <<now, build, drafts, signed, payloads, message>>

\* normalizePreparedBatchTransferProof and buildMsgBatchTransferFromPrepared.
\* The time is what the caller takes for now: provePreparedBatchTransfer reads
\* it before the nullifiers, the prover and the callback that keeps the proof.
ProofFitsLoosely(p, proof, time) == EffectValid(ParsedEffect(p)) /\ proof.hash = p.hash
ProofFits(p, proof, time) == EnvelopeValid(p, time) /\ proof.hash = p.hash
MakeMessage ==
    /\ \E p \in payloads, proof \in proofs, time \in 0 .. MaxTime :
          /\ ProofFits(p, proof, time)
          /\ message' = [proof |-> proof, effect |-> ParsedEffect(p)]
    /\ UNCHANGED <<now, build, drafts, signed, payloads, proofs>>

-----------------------------------------------------------------------------
Init ==
    /\ now = 0 /\ build = Idle
    /\ drafts = {} /\ signed = {} /\ payloads = {} /\ proofs = {} /\ message = Nothing

Accounts == UNION {{b.inputs[i].note.owner : i \in DOMAIN b.inputs} : b \in Builds}

Next ==
    \/ \E b \in Builds : Prepare(b)
    \/ Sign \/ (\E by \in Accounts : SignByHand(by))
    \/ Tick \/ MixUp \/ Prove \/ MakeMessage

Spec == Init /\ [][Next]_vars

-----------------------------------------------------------------------------
(***************************************************************************)
(* Properties.                                                             *)
(***************************************************************************)
\* Every variable has its type.
TypeOK ==
    /\ now \in 0 .. MaxTime /\ build.step \in {"idle", "signing"}
    /\ \A p \in payloads : DOMAIN p = HashedFields \cup {"hash"}
    /\ \A s \in signed : s.by \in Accounts
    /\ message = Nothing \/ message.proof \in proofs

\* The builder and the validator agree: what a build asks its own signer to sign
\* always passes the check before the signature.
OwnRequestsSign == \A d \in drafts : RequestValid(d)

\* What a signer signs is what it is shown: the effect spends exactly the notes
\* shown, of one owner and asset and none twice, creates exactly the outputs
\* shown, conserves value, and tells the auditor the truth of every output.
SignedIsShown ==
    \A s \in signed :
        LET r == s.request
            effect == r.intent.payloadDigest.of
        IN  /\ effect.nullifiers = [i \in DOMAIN r.inputs |-> Nullifier(r.inputs[i].note)]
            /\ Distinct(r.inputs)
            /\ {r.inputs[i].note.owner : i \in DOMAIN r.inputs} = {r.owner}
            /\ Cardinality({x.note.asset : x \in Elements(r.inputs) \cup Elements(r.outputs)}) = 1
            /\ Total(r.inputs) = Total(r.outputs)
            /\ DOMAIN effect.outputs = DOMAIN r.outputs
            /\ \A i \in DOMAIN r.outputs :
                  LET o == r.outputs[i]
                      told == effect.outputs[i].fullDigest.facts
                  IN  /\ effect.outputs[i].commitment = Commitment(o.note)
                      /\ <<told.from, told.to, told.amount, told.index>>
                            = <<r.owner, o.note.owner, o.note.amount, i - 1>>
                      /\ effect.outputs[i].policy = o.policy

\* Every field the signer is shown is computed again before it signs, as
\* src/src/privacy/batch-transfer.js:691 says: an output it is shown as change or
\* padding returns to the owner and tells nobody.
KindsAreTrue ==
    \A s \in signed : \A i \in DOMAIN s.request.outputs :
        LET o == s.request.outputs[i] IN
        o.kind # "payment" => o.note.owner = s.request.owner /\ o.policy = AllPrivate

\* The proof of a message is of exactly the effect it carries and of its four
\* vector roots, whichever payload and proof were put together.  The code
\* compares no chain here, and the expiry with a time that may be from before
\* the prover: neither is promised.
MessageVerifies ==
    message # Nothing =>
        /\ message.proof.intent.payloadDigest.of = message.effect
        /\ message.proof.intent.roots = Roots(message.effect)

\* The readers a message is meant for learn the truth of every output.
ReadersLearnTheTruth ==
    message # Nothing => \A i \in DOMAIN message.effect.outputs :
        LET o == message.effect.outputs[i] IN
        /\ Opens(o.auditPayload, "audit", message.effect.audit.target)
        /\ FullDigest("batch", o.auditPayload.plain.facts) = o.fullDigest
        /\ o.selfPayload # Nothing => o.selfPayload.plain = o.auditPayload.plain
        /\ o.mode = "encrypted" =>
              /\ Opens(o.userPayload, "user", o.userTarget.of)
              /\ UserDigest("batch", o.policy, o.userPayload.plain.facts) = o.userDigest

(* The secrets someone learns of an effect: the blinding of a user         *)
(* disclosure in the clear or sealed for it, the randomness of its notes,  *)
(* and the randomness of the inputs it once paid.                          *)
SecretsKnown(effect, reader) ==
    UNION {LET o == effect.outputs[i] IN
           {v.plain.facts.blinding : v \in {u \in {o.userPayload, o.auditPayload, o.selfPayload} :
                                        u.is = "plaintext" \/ (u.is = "envelope" /\ u.to = reader)}}
             \cup {v.note.randomness : v \in {u \in {o.cipher} : u.to = reader}}
           : i \in DOMAIN effect.outputs}

\* No one but the sender and the auditor learns a secret that opens the full
\* digest or the commitment of an output that is not theirs, even one who
\* made the input notes and knows their randomness.
OutputsStaySealed ==
    \A d \in drafts :
    \A reader \in ({d.outputs[i].note.owner : i \in DOMAIN d.outputs}
                    \cup {d.outputs[i].target : i \in DOMAIN d.outputs}) \ {d.owner} :
        LET known == SecretsKnown(d.effect, reader)
                        \cup {d.inputs[i].note.randomness : i \in DOMAIN d.inputs}
        IN  \A i \in DOMAIN d.outputs :
              /\ d.outputs[i].full \notin known
              /\ d.outputs[i].note.owner # reader => d.outputs[i].note.randomness \notin known

\* Batches that can be built are signed; what is signed is what was shown; a
\* message has a proof of what it carries and tells its readers the truth.
BatchIsSound ==
    TypeOK /\ OwnRequestsSign /\ OutputsStaySealed /\ SignedIsShown
      /\ MessageVerifies /\ ReadersLearnTheTruth
=============================================================================

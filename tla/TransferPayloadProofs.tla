------------------------- MODULE TransferPayloadProofs -------------------------
(***************************************************************************)
(* For any notes, requests, draws and files: what a signer of a transfer   *)
(* signs is what it is shown, and a message that is made verifies and      *)
(* tells its readers the truth.  Proofs for TLAPS.                         *)
(*                                                                         *)
(* As in WithdrawRelayProofs the invariant is about the hashes of payload  *)
(* files, which are only ever taken of payloads that were built, and a     *)
(* file that has its own hash inherits it.  What is signed needs no        *)
(* invariant: everything that is shown is computed again.                  *)
(***************************************************************************)
EXTENDS TransferPayload, FiniteSetTheorems, TLAPS

Fields == HashedFields \cup {"hash"}
IsFile(file) == file = [f \in Fields |-> file[f]]

(* ReadersLearnTheTruth of an effect, and that it has an expiry.           *)
Truthful(e) ==
    /\ e.expires \in Nat
    /\ Opens(e.auditPayload, "audit", e.auditTarget.of)
    /\ FullDigest("transfer", e.auditPayload.plain.facts) = e.auditDigest
    /\ e.selfPayload # Nothing => e.selfPayload.plain = e.auditPayload.plain
    /\ e.mode = "encrypted" =>
          /\ Opens(e.userPayload, "user", e.userTarget.of)
          /\ UserDigest("transfer", e.policy, e.userPayload.plain.facts) = e.userDigest

BuildInv ==
    /\ build.step \in {"idle", "paths", "signing"}
    /\ build.step = "paths" =>
          /\ build.roots \in Seq(0 .. MaxRoots) /\ Len(build.roots) <= 2
          /\ build.request \in Requests
          /\ build.inputs[1].owner # Hidden /\ build.expires \in Nat
          /\ build.outputs = OutputNotes(build.request, build.inputs, build.draw)
          /\ FreshBlindings(build.request.policy, build.draw)
    /\ build.step = "signing" => IsFile(build.payload) /\ Truthful(Effect(build.payload))
PayloadsInv == \A p \in payloads : IsFile(p) /\ Truthful(Effect(p.hash))
ProofsInv == \A proof \in proofs : proof.intent = Intent(proof.hash, proof.hash.chain)
MessageInv ==
    /\ message = Nothing \/ (message.proof \in proofs /\ message.creator \in Accounts)
    /\ MessageVerifies /\ ReadersLearnTheTruth
    /\ message # Nothing => message.effect.expires \in Nat
(* What is under way carries a proof of its effect, and on Cosmos has      *)
(* passed the fence once it is at the step "send".                         *)
SendingInv ==
    /\ sending.step \in {"idle", "fence", "send"}
    /\ sending.step # "idle" =>
          /\ sending.message.proof.intent.payloadDigest = sending.message.effect
          /\ sending.message.effect.expires \in Nat
          /\ sending.begun \in Nat /\ sending.begun <= now
    /\ sending.step = "send" /\ sending.route = "cosmos" =>
          sending.begun < sending.message.effect.expires
SubmissionInv == SendingInv /\ StaleIsNotSent
BoundsInv == root \in 0 .. MaxRoots /\ now \in 0 .. MaxTime

Inv ==
    /\ BoundsInv /\ BuildInv /\ PayloadsInv /\ ProofsInv /\ MessageInv
    /\ PathsMeet /\ SignedIsShown /\ SubmissionInv

-----------------------------------------------------------------------------
(***************************************************************************)
(* Files and hashes.                                                       *)
(***************************************************************************)
LEMMA HashKeeps ==
    ASSUME NEW p
    PROVE  /\ Effect(PayloadHash(p)) = Effect(p)
           /\ Intent(PayloadHash(p), PayloadHash(p).chain) = Intent(p, p.chain)
<1>1. \A f \in HashedFields : PayloadHash(p)[f] = p[f]
  BY DEF PayloadHash
<1>2. Effect(PayloadHash(p)) = Effect(p)
  BY <1>1 DEF Effect, HashedFields
<1>3. /\ PayloadHash(p).root = p.root /\ PayloadHash(p).asset = p.asset
      /\ PayloadHash(p).nullifiers = p.nullifiers
      /\ PayloadHash(p).commitments = p.commitments
      /\ PayloadHash(p).userDigest = p.userDigest /\ PayloadHash(p).auditDigest = p.auditDigest
      /\ PayloadHash(p).expires = p.expires /\ PayloadHash(p).chain = p.chain
  <2> HIDE DEF PayloadHash
  <2> QED BY <1>1 DEF HashedFields, EffectFields
<1> QED
  BY <1>2, <1>3 DEF Intent

LEMMA MixedFile ==
    ASSUME NEW p, NEW q, IsFile(p), NEW f \in Fields
    PROVE  LET mixed == [p EXCEPT ![f] = q[f]] IN
           IsFile(mixed) /\ mixed.hash \in {p.hash, q.hash}
  BY DEF IsFile, Fields

\* The payload the build finishes with: signature and hash are filled in.
LEMMA FilledFile ==
    ASSUME NEW p, IsFile(p), NEW signature
    PROVE  LET filled == [p EXCEPT !.signature = signature]
               finished == [filled EXCEPT !.hash = PayloadHash(filled)]
           IN  /\ IsFile(finished) /\ finished.hash = PayloadHash(filled)
               /\ Effect(filled) = Effect(p)
<1> DEFINE filled == [p EXCEPT !.signature = signature]
<1>1. "signature" \in Fields /\ "hash" \in Fields
  BY DEF Fields, HashedFields
<1>2. IsFile(filled) /\ \A f \in Fields \ {"signature"} : filled[f] = p[f]
  BY <1>1 DEF IsFile
<1>3. EffectFields \subseteq Fields \ {"signature"}
  BY DEF Fields, HashedFields, EffectFields
<1>4. Effect(filled) = Effect(p)
  <2> HIDE DEF filled
  <2> QED BY <1>2, <1>3 DEF Effect
<1> HIDE DEF filled
<1>5. IsFile([filled EXCEPT !.hash = PayloadHash(filled)])
      /\ [filled EXCEPT !.hash = PayloadHash(filled)].hash = PayloadHash(filled)
  <2> HIDE DEF PayloadHash
  <2> QED BY <1>1, <1>2 DEF IsFile
<1> QED
  BY <1>4, <1>5 DEF filled

-----------------------------------------------------------------------------
(***************************************************************************)
(* What a draft and a signature say.                                       *)
(***************************************************************************)
USE TransferPayloadAssumption

\* Hiding what is hidden changes nothing: a reader computes the digest that
\* the builder did.
LEMMA HideOnce ==
    ASSUME NEW policy, NEW sender, NEW note, NEW index, NEW blinding
    PROVE  LET facts == Facts(sender, note, index, blinding) IN
           Hide(policy, Hide(policy, facts)) = Hide(policy, facts)
  BY DEF Hide, Facts

LEMMA DraftIsTruthful ==
    ASSUME NEW request \in Requests, NEW inputs, NEW draw, NEW roots,
           NEW expires \in Nat, inputs[1].owner # Hidden, FreshBlindings(request.policy, draw),
           ModeSuits(request.policy, request.mode)
    PROVE  LET payload == Unsigned(request, inputs, OutputNotes(request, inputs, draw), draw,
                                   roots, expires)
           IN  IsFile(payload) /\ Truthful(Effect(payload))
<1> DEFINE outputs == OutputNotes(request, inputs, draw)
           payload == Unsigned(request, inputs, outputs, draw, roots, expires)
           owner == inputs[1].owner
           blinding == IF request.policy = AllPrivate THEN 0 ELSE draw.user
           facts == Facts(owner, outputs[1], 0, blinding)
           full == Facts(owner, outputs[1], 0, draw.full)
           plain == UserPlaintext(request.policy, facts)
<1>1. /\ payload.auditPayload = Sealed("audit", Auditor, FullPlaintext(full))
      /\ payload.auditTarget.of = Auditor
      /\ payload.auditDigest = FullDigest("transfer", full)
      /\ payload.mode = request.mode /\ payload.policy = request.policy
      /\ payload.selfPayload = IF request.selfView
                               THEN Sealed("self", owner, FullPlaintext(full)) ELSE Nothing
      /\ payload.userDigest = UserDigest("transfer", request.policy, facts)
      /\ payload.userTarget = UserSection(request, facts).target
      /\ payload.userPayload = UserSection(request, facts).payload
      /\ payload.expires = expires
  BY DEF Unsigned
<1>2. IsFile(payload)
  BY DEF IsFile, Fields, HashedFields, EffectFields, Unsigned
<1>3. /\ outputs[1].owner = request.recipient /\ request.recipient # Hidden /\ owner # Hidden
      /\ draw.full # 0 /\ (request.policy # AllPrivate => blinding # 0)
  BY DEF OutputNotes, FreshBlindings, Allowed
<1>4. /\ full.from = owner /\ full.to = request.recipient /\ full.blinding = draw.full
      /\ facts.from = owner /\ facts.to = request.recipient /\ facts.blinding = blinding
      /\ facts = [index |-> facts.index, commitment |-> facts.commitment,
                  asset |-> facts.asset, amount |-> facts.amount, from |-> facts.from,
                  to |-> facts.to, blinding |-> facts.blinding]
  <2> HIDE DEF outputs
  <2> QED BY <1>3 DEF Facts
<1>5. WellFormed(FullPlaintext(full))
  <2> HIDE DEF outputs, full
  <2> QED BY <1>3, <1>4 DEF WellFormed, FullPlaintext
<1>6. request.policy # AllPrivate => WellFormed(plain)
  <2>1. /\ Hide(request.policy, facts).blinding = blinding
        /\ "amount" \notin request.policy => Hide(request.policy, facts).amount = 0
        /\ Hide(request.policy, facts).from
              = IF "from" \in request.policy THEN owner ELSE Hidden
        /\ Hide(request.policy, facts).to
              = IF "to" \in request.policy THEN request.recipient ELSE Hidden
    <3> HIDE DEF outputs, facts, blinding
    <3> QED BY <1>4 DEF Hide
  <2> HIDE DEF outputs, facts, blinding
  <2> QED BY <1>3, <2>1 DEF WellFormed, UserPlaintext, AllPrivate
<1>7. UserDigest("transfer", request.policy, plain.facts)
         = UserDigest("transfer", request.policy, facts)
  <2>1. Hide(request.policy, Hide(request.policy, facts)) = Hide(request.policy, facts)
    BY HideOnce
  <2> HIDE DEF facts
  <2> QED BY <2>1 DEF UserDigest, UserPlaintext
<1>8. request.mode = "encrypted" =>
         /\ request.policy # AllPrivate
         /\ payload.userTarget.of = request.target
         /\ payload.userPayload = Sealed("user", request.target, plain)
  <2> HIDE DEF payload, facts, outputs, blinding
  <2> QED BY <1>1 DEF UserSection, ModeSuits, plain
<1> DEFINE e == Effect(payload)
<1>9. /\ e.auditPayload = payload.auditPayload /\ e.auditTarget = payload.auditTarget
      /\ e.auditDigest = payload.auditDigest /\ e.selfPayload = payload.selfPayload
      /\ e.mode = payload.mode /\ e.policy = payload.policy
      /\ e.userPayload = payload.userPayload /\ e.userTarget = payload.userTarget
      /\ e.userDigest = payload.userDigest /\ e.expires = payload.expires
  <2> HIDE DEF payload
  <2> QED BY DEF Effect, EffectFields
<1>10. /\ Opens(e.auditPayload, "audit", e.auditTarget.of)
       /\ FullDigest("transfer", e.auditPayload.plain.facts) = e.auditDigest
       /\ e.selfPayload # Nothing => e.selfPayload.plain = e.auditPayload.plain
  <2> HIDE DEF e, payload, full, facts, outputs
  <2>1. FullPlaintext(full).facts = full
    BY DEF FullPlaintext
  <2>2. /\ e.auditPayload.plain = FullPlaintext(full) /\ e.auditPayload.is = "envelope"
        /\ e.auditPayload.kind = "audit" /\ e.auditPayload.to = Auditor
    BY <1>1, <1>9 DEF Sealed
  <2>3. e.selfPayload # Nothing => e.selfPayload.plain = FullPlaintext(full)
    BY <1>1, <1>9 DEF Sealed
  <2> QED BY <1>1, <1>5, <1>9, <2>1, <2>2, <2>3 DEF Opens, IsEnvelope
<1>11. e.mode = "encrypted" =>
         /\ Opens(e.userPayload, "user", e.userTarget.of)
         /\ UserDigest("transfer", e.policy, e.userPayload.plain.facts) = e.userDigest
  <2> HIDE DEF e, payload, full, facts, outputs, plain
  <2> QED BY <1>1, <1>6, <1>7, <1>8, <1>9 DEF Opens, IsEnvelope, Sealed
<1>12. Truthful(e)
  <2>1. e.expires \in Nat
    <3> HIDE DEF e, payload
    <3> QED BY <1>1, <1>9
  <2> HIDE DEF e
  <2> QED BY <2>1, <1>10, <1>11 DEF Truthful
<1> QED
  BY <1>2, <1>12

(* SignedIsShown of one signature.                                         *)
Shown(s) ==
    LET effect == s.intent.payloadDigest
        owner == s.inputs[1].owner
        told == s.intent.fullDigest.facts
    IN  /\ \A i \in 1 .. 2 : /\ effect.nullifiers[i] = Nullifier(s.inputs[i])
                             /\ effect.commitments[i] = Commitment(s.outputs[i])
        /\ s.inputs[1] # s.inputs[2]
        /\ {s.inputs[2].owner, s.outputs[2].owner} = {owner}
        /\ Cardinality({n.asset : n \in {s.inputs[i] : i \in 1 .. 2}
                                    \cup {s.outputs[i] : i \in 1 .. 2}}) = 1
        /\ Total(s.inputs) = Total(s.outputs)
        /\ told.from = owner /\ told.to = s.outputs[1].owner
        /\ told.amount = s.outputs[1].amount
        /\ s.intent.userDigest # Nothing => s.intent.userDigest.policy = effect.policy

LEMMA RequestIsShown ==
    ASSUME NEW by, NEW r, RequestValid(r)
    PROVE  Shown(Signature(by, r))
<1> DEFINE p == r.payload
           owner == r.inputs[1].owner
           s == Signature(by, r)
           full == Facts(owner, r.outputs[1], 0, p.fullBlinding)
           facts == Facts(owner, r.outputs[1], 0, p.userBlinding)
<1>1. /\ s.intent = Intent(p, p.chain) /\ s.inputs = r.inputs /\ s.outputs = r.outputs
  BY DEF Signature, RequestValid
<1>2. /\ s.intent.payloadDigest = Effect(p)
      /\ s.intent.fullDigest = FullDigest("transfer", full)
      /\ s.intent.userDigest = UserDigest("transfer", p.policy, facts)
  <2>1. /\ s.intent.payloadDigest = Effect(p) /\ s.intent.fullDigest = p.auditDigest
        /\ s.intent.userDigest = p.userDigest
    BY <1>1 DEF Intent
  <2> QED BY <2>1 DEF RequestValid
<1>3. /\ Effect(p).nullifiers = p.nullifiers /\ Effect(p).commitments = p.commitments
      /\ Effect(p).policy = p.policy
  BY DEF Effect, EffectFields
<1>4. \A i \in 1 .. 2 : /\ p.nullifiers[i] = Nullifier(r.inputs[i])
                        /\ p.commitments[i] = Commitment(r.outputs[i])
  BY DEF RequestValid
<1>5. r.inputs[1] # r.inputs[2]
  BY <1>4 DEF RequestValid, Valid
<1>6. Cardinality({n.asset : n \in {r.inputs[i] : i \in 1 .. 2}
                                \cup {r.outputs[i] : i \in 1 .. 2}}) = 1
  <2>1. {n.asset : n \in {r.inputs[i] : i \in 1 .. 2} \cup {r.outputs[i] : i \in 1 .. 2}}
           = {r.inputs[1].asset}
    BY DEF RequestValid
  <2> QED
    BY <2>1, FS_Singleton
<1>7. /\ r.inputs[2].owner = owner /\ r.outputs[2].owner = owner
      /\ Total(r.inputs) = Total(r.outputs)
  BY DEF RequestValid
<1>8. /\ FullDigest("transfer", full).facts = full
      /\ full.from = owner /\ full.to = r.outputs[1].owner /\ full.amount = r.outputs[1].amount
  BY DEF FullDigest, Facts
<1>9. UserDigest("transfer", p.policy, facts) # Nothing =>
         UserDigest("transfer", p.policy, facts).policy = p.policy
  BY DEF UserDigest
<1> HIDE DEF s, p, facts, full
<1> QED
  BY <1>1, <1>2, <1>3, <1>4, <1>5, <1>6, <1>7, <1>8, <1>9 DEF Shown, s

\* A hash says of a file what the file said when the hash was taken.
LEMMA HashIsTruthful ==
    ASSUME NEW p PROVE Truthful(Effect(PayloadHash(p))) <=> Truthful(Effect(p))
  BY HashKeeps

-----------------------------------------------------------------------------
(***************************************************************************)
(* The steps.                                                              *)
(***************************************************************************)
LEMMA SubmissionStays ==
    ASSUME Inv, UNCHANGED <<submission, now>> PROVE SubmissionInv'
  BY DEF Inv, SubmissionInv, SendingInv, StaleIsNotSent, submission

LEMMA InitInv == Init => Inv
  BY DEF Init, Inv, BoundsInv, BuildInv, PayloadsInv, ProofsInv, MessageInv,
         MessageVerifies, ReadersLearnTheTruth, PathsMeet, SignedIsShown, Idle,
         SubmissionInv, SendingInv, StaleIsNotSent

LEMMA StutterInv == Inv /\ UNCHANGED vars => Inv'
  BY SubmissionStays DEF vars, Inv, BoundsInv, BuildInv, PayloadsInv, ProofsInv, MessageInv,
         MessageVerifies, ReadersLearnTheTruth, PathsMeet, SignedIsShown, Accounts

LEMMA StartInv ==
    ASSUME Inv, NEW r \in Requests, NEW m \in Wallet, NEW n \in Wallet, NEW d,
           Start(r, <<m, n>>, d)
    PROVE  Inv'
<1>1. BuildInv'
  <2>1. PICK time \in 0 .. now :
           build' = [step |-> "paths", request |-> r, inputs |-> <<m, n>>,
                     outputs |-> OutputNotes(r, <<m, n>>, d), draw |-> d,
                     expires |-> ExpiryOf(r, time), roots |-> << >>]
    BY DEF Start
  <2>3. FreshBlindings(r.policy, d)
    BY DEF Start
  <2>4. ExpiryOf(r, time) \in Nat
    BY DEF ExpiryOf, Inv, BoundsInv
  <2>2. << >> \in Seq(0 .. MaxRoots) /\ Len(<< >>) <= 2
    OBVIOUS
  <2> QED
    BY <2>1, <2>2, <2>3, <2>4 DEF BuildInv
<1> QED
  BY <1>1, SubmissionStays DEF Start, Inv, BoundsInv, PayloadsInv, ProofsInv, MessageInv,
         MessageVerifies, ReadersLearnTheTruth, PathsMeet, SignedIsShown, Accounts

LEMMA LookupPathInv ==
    ASSUME Inv, LookupPath PROVE Inv'
<1>1. BuildInv'
  <2>1. /\ build.step = "paths" /\ build.roots \in Seq(0 .. MaxRoots) /\ Len(build.roots) < 2
        /\ root \in 0 .. MaxRoots
        /\ build' = [build EXCEPT !.roots = Append(@, root)]
    BY DEF LookupPath, Inv, BuildInv, BoundsInv
  <2>2. /\ Append(build.roots, root) \in Seq(0 .. MaxRoots)
        /\ Len(Append(build.roots, root)) <= 2
    BY <2>1
  <2>3. /\ build'.step = "paths" /\ build'.request = build.request
        /\ build'.inputs = build.inputs /\ build'.outputs = build.outputs
        /\ build'.draw = build.draw /\ build'.expires = build.expires
        /\ build'.roots \in Seq(0 .. MaxRoots) /\ Len(build'.roots) <= 2
    BY <2>1, <2>2
  <2> QED
    BY <2>1, <2>3 DEF Inv, BuildInv
<1> QED
  BY <1>1, SubmissionStays DEF LookupPath, Inv, BoundsInv, PayloadsInv, ProofsInv, MessageInv,
         MessageVerifies, ReadersLearnTheTruth, PathsMeet, SignedIsShown, Accounts

LEMMA DraftInv ==
    ASSUME Inv, Draft PROVE Inv'
<1> DEFINE p == Unsigned(build.request, build.inputs, build.outputs, build.draw,
                         build.roots, build.expires)
<1>1. /\ build' = [step |-> "signing", request |-> build.request, payload |-> p]
      /\ drafts' = drafts \cup {SigningRequest(p)}
      /\ UNCHANGED <<root, now, signed, payloads, proofs, message, submission>>
  BY DEF Draft
<1>2. IsFile(p) /\ Truthful(Effect(p))
  <2>1. /\ build.request \in Requests /\ build.inputs[1].owner # Hidden
        /\ build.expires \in Nat
        /\ build.outputs = OutputNotes(build.request, build.inputs, build.draw)
        /\ FreshBlindings(build.request.policy, build.draw)
        /\ ModeSuits(build.request.policy, build.request.mode)
    BY DEF Inv, BuildInv, Draft, Drafted
  <2> QED
    BY <2>1, DraftIsTruthful
<1>3. \A i \in 1 .. 2 : p.paths[i] = p.root
  <2>1. p.paths = build.roots /\ p.root = build.roots[1]
    BY DEF Unsigned
  <2>2. build.roots[1] = build.roots[2]
    BY DEF Draft, Drafted, OneRoot
  <2> HIDE DEF p
  <2> QED
    BY <2>1, <2>2
<1>4. PathsMeet'
  <2>1. SigningRequest(p).payload = p
    BY DEF SigningRequest
  <2> HIDE DEF p
  <2> QED
    BY <1>1, <1>3, <2>1 DEF Inv, PathsMeet
<1>5. BuildInv'
  <2> HIDE DEF p
  <2> QED
    BY <1>1, <1>2 DEF BuildInv
<1> HIDE DEF p
<1> QED
  BY <1>1, <1>4, <1>5, SubmissionStays DEF Inv, BoundsInv, PayloadsInv, ProofsInv, MessageInv,
         MessageVerifies, ReadersLearnTheTruth, SignedIsShown, Accounts

LEMMA SignInv ==
    ASSUME Inv, Sign PROVE Inv'
<1> DEFINE p == build.payload
           r == SigningRequest(p)
           s == Signature(build.request.signer, r)
           signature == [is |-> "signature", of |-> s]
           filled == [p EXCEPT !.signature = signature]
           finished == [filled EXCEPT !.hash = PayloadHash(filled)]
<1>1. /\ RequestValid(r) /\ signed' = signed \cup {s} /\ payloads' = payloads \cup {finished}
      /\ build' = Idle /\ UNCHANGED <<root, now, drafts, proofs, message, submission>>
  BY DEF Sign
<1>2. IsFile(p) /\ Truthful(Effect(p))
  BY DEF Inv, BuildInv, Sign
<1>3. /\ IsFile(finished) /\ finished.hash = PayloadHash(filled)
      /\ Effect(filled) = Effect(p)
  <2> HIDE DEF signature, p
  <2> QED BY <1>2, FilledFile
<1>4. Shown(s)
  BY <1>1, RequestIsShown
<1>5. Truthful(Effect(finished.hash))
  <2> HIDE DEF filled, finished
  <2> QED BY <1>2, <1>3, HashIsTruthful
<1>6. PayloadsInv'
  <2> HIDE DEF finished
  <2> QED BY <1>1, <1>3, <1>5 DEF Inv, PayloadsInv
<1>7. SignedIsShown'
  <2> HIDE DEF s
  <2>1. \A x \in signed : Shown(x)
    BY DEF Inv, SignedIsShown, Shown
  <2>2. \A x \in signed' : Shown(x)
    BY <1>1, <1>4, <2>1
  <2> QED BY <2>2 DEF SignedIsShown, Shown
<1>8. BuildInv'
  BY <1>1 DEF BuildInv, Idle
<1> QED
  BY <1>1, <1>6, <1>7, <1>8, SubmissionStays DEF Inv, BoundsInv, ProofsInv, MessageInv,
         MessageVerifies, ReadersLearnTheTruth, PathsMeet, Accounts

LEMMA SignByHandInv ==
    ASSUME Inv, NEW by, SignByHand(by) PROVE Inv'
<1>1. PICK mixed : RequestValid(mixed) /\ signed' = signed \cup {Signature(by, mixed)}
  BY DEF SignByHand
<1>2. Shown(Signature(by, mixed))
  BY <1>1, RequestIsShown
<1>3. SignedIsShown'
  <2>1. \A x \in signed : Shown(x)
    BY DEF Inv, SignedIsShown, Shown
  <2>2. \A x \in signed' : Shown(x)
    BY <1>1, <1>2, <2>1
  <2> QED BY <2>2 DEF SignedIsShown, Shown
<1> QED
  BY <1>3, SubmissionStays DEF SignByHand, Inv, BoundsInv, BuildInv, PayloadsInv, ProofsInv, MessageInv,
         MessageVerifies, ReadersLearnTheTruth, PathsMeet, Accounts

LEMMA AroundInv ==
    ASSUME Inv, BuildThrows \/ Grow \/ Tick PROVE Inv'
<1>1. BoundsInv'
  <2>1. MaxRoots \in Nat /\ MaxTime \in Nat
    OBVIOUS
  <2> QED
    BY <2>1 DEF BuildThrows, Grow, Tick, Inv, BoundsInv
<1>2. BuildInv'
  <2>1. CASE BuildThrows
    BY <2>1 DEF BuildThrows, BuildInv, Idle
  <2>2. CASE UNCHANGED build
    BY <2>2 DEF Inv, BuildInv
  <2> QED
    BY <2>1, <2>2 DEF Grow, Tick
<1>3. SubmissionInv'
  BY DEF BuildThrows, Grow, Tick, submission, Inv, BoundsInv, SubmissionInv, SendingInv,
         StaleIsNotSent
<1> QED
  BY <1>1, <1>2, <1>3 DEF BuildThrows, Grow, Tick, Inv, PayloadsInv, ProofsInv, MessageInv,
         MessageVerifies, ReadersLearnTheTruth, PathsMeet, SignedIsShown, Accounts

LEMMA MixUpInv ==
    ASSUME Inv, MixUp PROVE Inv'
<1>1. PICK p, q \in payloads, f \in Fields :
         payloads' = payloads \cup {[p EXCEPT ![f] = q[f]]}
  BY DEF MixUp, Fields
<1> DEFINE mixed == [p EXCEPT ![f] = q[f]]
<1>2. IsFile(mixed) /\ mixed.hash \in {p.hash, q.hash}
  <2>1. IsFile(p)
    BY DEF Inv, PayloadsInv
  <2> QED
    BY <2>1, MixedFile
<1>3. PayloadsInv'
  <2> HIDE DEF mixed
  <2> QED BY <1>1, <1>2 DEF Inv, PayloadsInv, mixed
<1> QED
  BY <1>3, SubmissionStays DEF MixUp, Inv, BoundsInv, BuildInv, ProofsInv, MessageInv,
         MessageVerifies, ReadersLearnTheTruth, PathsMeet, SignedIsShown, Accounts

LEMMA ProveInv ==
    ASSUME Inv, Prove PROVE Inv'
<1>1. PICK p \in payloads :
         /\ p.hash = PayloadHash(p)
         /\ proofs' = proofs \cup {[hash |-> p.hash, intent |-> Intent(p, p.chain)]}
  BY DEF Prove
<1> DEFINE new == [hash |-> p.hash, intent |-> Intent(p, p.chain)]
<1>2. new.intent = Intent(new.hash, new.hash.chain)
  <2>1. new.hash = p.hash /\ new.intent = Intent(p, p.chain)
    OBVIOUS
  <2> HIDE DEF new
  <2> QED BY <1>1, <2>1, HashKeeps
<1>3. ProofsInv'
  <2> HIDE DEF new
  <2> QED BY <1>1, <1>2 DEF Inv, ProofsInv, new
<1>4. MessageInv'
  BY <1>1 DEF Prove, Inv, MessageInv, MessageVerifies, ReadersLearnTheTruth, Accounts
<1> QED
  BY <1>3, <1>4, SubmissionStays DEF Prove, Inv, BoundsInv, BuildInv, PayloadsInv, PathsMeet, SignedIsShown

LEMMA MakeMessageInv ==
    ASSUME Inv, NEW creator \in Accounts, MakeMessage(creator) PROVE Inv'
<1>1. PICK p \in payloads, proof \in proofs, time \in Times, expected \in {NotGiven, Chain} :
         /\ ProofFits(p, proof, time) /\ expected \in {NotGiven, p.chain}
         /\ message' = [creator |-> creator, proof |-> proof, effect |-> Effect(p),
                        expected |-> expected]
  BY DEF MakeMessage
<1>2. /\ p.hash = PayloadHash(p) /\ proof.hash = p.hash
  BY <1>1 DEF ProofFits, ValidAt
<1>3. proof.intent = Intent(p, p.chain)
  BY <1>2, HashKeeps DEF Inv, ProofsInv
<1>4. proof.intent.payloadDigest = Effect(p)
      /\ (expected # NotGiven => proof.intent.chain = ChainDomain(expected))
  BY <1>1, <1>3 DEF Intent
<1>5. Truthful(Effect(p))
  BY <1>2, HashIsTruthful DEF Inv, PayloadsInv
<1>6. MessageInv'
  <2>1. MessageVerifies'
    BY <1>1, <1>4 DEF MessageVerifies
  <2>2. ReadersLearnTheTruth' /\ (message # Nothing => message.effect.expires \in Nat)'
    BY <1>1, <1>5 DEF ReadersLearnTheTruth, Truthful
  <2>3. message'.proof \in proofs' /\ message'.creator \in Accounts'
    BY <1>1 DEF MakeMessage, Accounts
  <2> QED
    BY <2>1, <2>2, <2>3 DEF MessageInv
<1> QED
  BY <1>6, SubmissionStays DEF MakeMessage, Inv, BoundsInv, BuildInv, PayloadsInv, ProofsInv, PathsMeet,
         SignedIsShown

LEMMA SubmitInv ==
    ASSUME Inv, NEW route, Submit(route) \/ Fence \/ GiveUp \/ Send PROVE Inv'
<1> USE DEF Inv, BoundsInv, SubmissionInv
<1>1. ASSUME Submit(route) PROVE SubmissionInv'
  BY <1>1 DEF Submit, MessageInv, MessageVerifies, SendingInv, StaleIsNotSent
<1>2. ASSUME Fence PROVE SubmissionInv'
  <2>1. CASE FreshAtBroadcast(sending.message, now)
    BY <1>2, <2>1 DEF Fence, FreshAtBroadcast, SendingInv, StaleIsNotSent
  <2>2. CASE ~ FreshAtBroadcast(sending.message, now)
    BY <1>2, <2>2 DEF Fence, Idle, SendingInv, StaleIsNotSent
  <2> QED
    BY <2>1, <2>2
<1>3. ASSUME GiveUp PROVE SubmissionInv'
  BY <1>3 DEF GiveUp, Idle, SendingInv, StaleIsNotSent
<1>4. ASSUME Send PROVE SubmissionInv'
  BY <1>4 DEF Send, Idle, SendingInv, StaleIsNotSent
<1> QED
  BY <1>1, <1>2, <1>3, <1>4 DEF Submit, Fence, GiveUp, Send, BuildInv, PayloadsInv, ProofsInv,
     MessageInv, MessageVerifies, ReadersLearnTheTruth, PathsMeet, SignedIsShown, Accounts

LEMMA NextInv == Inv /\ [Next]_vars => Inv'
  BY StutterInv, StartInv, LookupPathInv, DraftInv, SignInv, SignByHandInv, AroundInv,
     MixUpInv, ProveInv, MakeMessageInv, SubmitInv DEF Next

THEOREM Safety == Spec => []Inv
  BY InitInv, NextInv, PTL DEF Spec

-----------------------------------------------------------------------------
\* Type correctness: a payload file keeps its fields however it is mixed up.
THEOREM Types == Spec => []TypeOK
<1>1. ASSUME Inv PROVE TypeOK
  <2>1. \A p \in payloads : DOMAIN p = Fields
    BY <1>1 DEF Inv, PayloadsInv, IsFile
  <2> QED
    BY <1>1, <2>1 DEF TypeOK, Inv, BoundsInv, BuildInv, MessageInv, SubmissionInv, SendingInv,
       Fields
<1> QED
  BY <1>1, Safety, PTL

\* The two paths of a draft lead to its one root, however the tree grows
\* between the two lookups of the builder.
THEOREM OneRootPerDraft == Spec => []PathsMeet
<1>1. Inv => PathsMeet
  BY DEF Inv
<1> QED
  BY <1>1, Safety, PTL

\* Whatever drafts a signing request is put together from, what the checks
\* let an owner sign is what its notes say.
THEOREM OwnersSignWhatIsShown == Spec => []SignedIsShown
<1>1. Inv => SignedIsShown
  BY DEF Inv
<1> QED
  BY <1>1, Safety, PTL

\* Whatever payload files and proofs are put together, the proof of a message
\* is of exactly what it carries, and of the chain its caller named, if any.
THEOREM MessagesVerify == Spec => []MessageVerifies
<1>1. Inv => MessageVerifies
  BY DEF Inv, MessageInv
<1> QED
  BY <1>1, Safety, PTL

\* However long ago the time was read with which a message was made, and however
\* long signing took: what had expired when its submission began is not sent on
\* Cosmos, and what is sent has a proof of what it carries.
THEOREM StaleMessagesStay == Spec => []StaleIsNotSent
<1>1. Inv => StaleIsNotSent
  BY DEF Inv, SubmissionInv
<1> QED
  BY <1>1, Safety, PTL

\* The auditor, the sender and the chosen target read in a message what its
\* digests, and so its proof, are of.
THEOREM MessagesTellTheTruth == Spec => []ReadersLearnTheTruth
<1>1. Inv => ReadersLearnTheTruth
  BY DEF Inv, MessageInv
<1> QED
  BY <1>1, Safety, PTL

\* A transfer is sound from the owner's signature to its submission and to what
\* is read of it, for any wallet, requests, files, times and interleaving.
THEOREM TransfersAreSound == Spec => []TransferIsSound
<1>1. SignedIsShown /\ PathsMeet /\ MessageVerifies /\ StaleIsNotSent /\ ReadersLearnTheTruth
         => TransferIsSound
  BY DEF TransferIsSound
<1> QED
  BY <1>1, OneRootPerDraft, OwnersSignWhatIsShown, MessagesVerify, StaleMessagesStay,
     MessagesTellTheTruth, PTL
=============================================================================

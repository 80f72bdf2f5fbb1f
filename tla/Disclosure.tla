------------------------------- MODULE Disclosure -------------------------------
(***************************************************************************)
(* Reading disclosures: src/src/core/disclosure.js and the decode methods  *)
(* of src/src/transport/cosmos-client.js.                                  *)
(*                                                                         *)
(* The chain's proofs bind the digests of an output to what it really      *)
(* does; what a wallet sealed in the envelopes, or sent in the clear, the  *)
(* chain does not look into, so another wallet may have sealed anything.   *)
(* A reader takes an output from a validated scan page, or looks up the    *)
(* first transfer event of a transaction, opens it with the key it has,    *)
(* and reports it as verified or throws.                                   *)
(***************************************************************************)
EXTENDS DisclosureTerms

CONSTANTS
    Txs, Denoms,
    Effects,        \* [from, to, amount, asset, policy, mode, target] of an output
    Callers,        \* [given, derived] disclosure keys of readers: one passed in,
                    \* one derived from the wallet's signature; NoKey if there is none
    NoKey,
    Auditor, SelfKey,
    MaxOutputs, MaxFaults,
    DropsDigest     \* whether the event index may lack digest attributes

DisclosureAssumption ==
    /\ \A c \in Callers : DOMAIN c = {"given", "derived"}
    /\ NoKey \notin {Auditor, SelfKey}
    /\ \A e \in Effects : e.policy = AllPrivate <=> e.mode = "none"
    /\ {MaxOutputs, MaxFaults} \subseteq Nat /\ DropsDigest \in BOOLEAN

VARIABLES
    chain,      \* the outputs that carry disclosures, in chain order
    report      \* what the last decoding returned

vars == <<chain, report>>
Throws == [verified |-> FALSE]
NoReport == [verified |-> FALSE, yet |-> "none"]

(***************************************************************************)
(* What is on chain.                                                       *)
(***************************************************************************)
Full == {"amount", "to", "from"}

\* The facts of an output; each output has its own note and blindings.
TrueFacts(effect, position, index, plane) ==
    Facts(effect.from, [owner |-> effect.to, amount |-> effect.amount, asset |-> effect.asset,
                        randomness |-> 10 * position], index,
          10 * position + IF plane = "user" THEN 1 ELSE 2)

\* What a wallet may have sealed instead of the truth.
Faults == {"none", "amount", "index", "recipient", "blinding", "policy", "plane", "kind"}
Misstated(facts, fault) ==
    [facts EXCEPT !.amount = IF fault = "amount" THEN @ + 1 ELSE @,
                  !.index = IF fault = "index" THEN 1 - @ ELSE @,
                  !.to = IF fault = "recipient" THEN facts.from ELSE @,
                  !.blinding = IF fault = "blinding" THEN 9 ELSE @]

SealedUser(effect, facts, fault) ==
    LET policy == IF fault = "policy" THEN Full \ effect.policy ELSE effect.policy
        plain == IF fault = "plane" THEN FullPlaintext(facts)
                 ELSE UserPlaintext(policy, Misstated(facts, fault))
    IN  CASE effect.mode = "none" -> Nothing
          [] effect.mode = "public" -> InClear(plain)
          [] OTHER -> Sealed(IF fault = "kind" THEN "audit" ELSE "user", effect.target, plain)

SealedFull(kind, key, facts, fault) ==
    Sealed(IF fault = "kind" THEN "user" ELSE kind, key,
           IF fault \in {"plane", "policy"} THEN UserPlaintext(Full, facts)
           ELSE FullPlaintext(Misstated(facts, fault)))

OnChain(form, tx, effect, position, index, fault, where) ==
    LET user == TrueFacts(effect, position, index, "user")
        full == TrueFacts(effect, position, index, "full")
        at(plane) == IF where = plane THEN fault ELSE "none"
    IN  [form |-> form, tx |-> tx, index |-> index, truth |-> full,
         commitment |-> full.commitment, policy |-> effect.policy, mode |-> effect.mode,
         userDigest |-> UserDigest(form, effect.policy, user),
         userTarget |-> IF effect.mode = "encrypted" THEN effect.target ELSE Nothing,
         userPayload |-> SealedUser(effect, user, at("user")),
         fullDigest |-> FullDigest(form, full),
         auditPayload |-> SealedFull("audit", Auditor, full, at("audit")),
         selfPayload |-> SealedFull("self", SelfKey, full, at("self")),
         fault |-> fault]

\* The messages of a transaction are next to each other.
Adjoins(tx) ==
    (\E i \in DOMAIN chain : chain[i].tx = tx) => chain[Len(chain)].tx = tx
FaultsLeft(fault, where) ==
    IF fault = "none" THEN where = "user"
    ELSE Cardinality({i \in DOMAIN chain : chain[i].fault # "none"}) < MaxFaults

\* A transfer message; its disclosures are those of output 0.
LandTransfer(tx, effect, fault, where) ==
    /\ Len(chain) < MaxOutputs /\ Adjoins(tx) /\ FaultsLeft(fault, where)
    /\ chain' = Append(chain, OnChain("transfer", tx, effect, Len(chain) + 1, 0, fault, where))
    /\ UNCHANGED report

\* A batch message of two outputs.
LandBatch(tx, first, second, fault, where) ==
    /\ Len(chain) + 1 < MaxOutputs /\ Adjoins(tx) /\ FaultsLeft(fault, where)
    /\ chain' = chain \o << OnChain("batch", tx, first, Len(chain) + 1, 0, "none", where),
                            OnChain("batch", tx, second, Len(chain) + 2, 1, fault, where) >>
    /\ UNCHANGED report

(***************************************************************************)
(* fixedDisclosureReport and batchDisclosureReport: the digest is computed *)
(* from what was opened and compared with the one on chain.                *)
(***************************************************************************)
PlaneMatches(value, plane) == value.plane = IF plane = "user" THEN "user" ELSE "full"
DigestOf(form, value) ==
    IF value.plane = "user" THEN UserDigest(form, value.policy, value.facts)
    ELSE FullDigest(form, value.facts)
DenomFits(value, denom) == AssetId(denom) = value.facts.asset

(* mutation: any digest on chain will do *)
DigestMatchesAnything(form, value, onChain) == DigestOf(form, value) # Nothing

\* An absent digest attribute is not compared.
DigestMatches(form, value, onChain) == onChain = Nothing \/ onChain = DigestOf(form, value)

Report(form, value, plane, tx, denom, onChain) ==
    IF ~ (PlaneMatches(value, plane) /\ DenomFits(value, denom)
            /\ DigestMatches(form, value, onChain))
    THEN Throws
    ELSE [verified |-> TRUE, tx |-> tx, plane |-> plane, index |-> value.facts.index,
          commitment |-> value.facts.commitment, denom |-> denom,
          digest |-> DigestOf(form, value),
          shown |-> [f \in (IF plane = "user" THEN value.policy ELSE Full) |-> value.facts[f]]]

Payload(output, plane) ==
    CASE plane = "user" -> output.userPayload
      [] plane = "audit" -> output.auditPayload
      [] plane = "self" -> output.selfPayload
DigestAttribute(output, plane) == IF plane = "user" THEN output.userDigest ELSE output.fullDigest

\* decode...DisclosureFromEvent.
FromEvent(event, plane, key, tx, denom, digest) ==
    LET payload == Payload(event, plane) IN
    CASE payload = Nothing -> Throws
      [] plane = "user" /\ event.mode = "public" ->
            IF IsPlaintext(payload)
            THEN Report("transfer", payload.plain, plane, tx, denom, digest) ELSE Throws
      [] OTHER ->
            IF (plane = "user" => event.userTarget = key) /\ Opens(payload, plane, key)
            THEN Report("transfer", payload.plain, plane, tx, denom, digest) ELSE Throws

(***************************************************************************)
(* decode...FromScanOutput.  A page with a payload of the wrong frame is   *)
(* refused as a whole (src/src/privacy/scan.js), so its outputs never get  *)
(* here.                                                                   *)
(***************************************************************************)
Framed(output) ==
    /\ IsEnvelope(output.auditPayload, "audit") /\ IsEnvelope(output.selfPayload, "self")
    /\ output.mode = "encrypted" => IsEnvelope(output.userPayload, "user")

\* transferTypedScanReport
TransferFromScan(output, plane, key, denom) ==
    LET r == FromEvent(output, plane, key, output.tx, denom, DigestAttribute(output, plane)) IN
    IF /\ r.verified
       /\ r.index = output.index /\ r.commitment = output.commitment
       /\ plane = "user" => DOMAIN r.shown = output.policy
    THEN r ELSE Throws

\* batchPlaintextMatchesOutput
MatchesOutput(value, output, plane) ==
    /\ PlaneMatches(value, plane)
    /\ value.facts.index = output.index /\ value.facts.commitment = output.commitment
    /\ plane = "user" => value.policy = output.policy

BatchFromScan(output, plane, key, denom) ==
    LET payload == Payload(output, plane)
        opened == IF plane = "user" /\ output.mode = "public" THEN IsPlaintext(payload)
                  ELSE (plane = "user" => output.userTarget = key) /\ Opens(payload, plane, key)
    IN  IF /\ payload # Nothing /\ opened
           /\ MatchesOutput(payload.plain, output, plane)
           /\ DigestOf("batch", payload.plain) = DigestAttribute(output, plane)
        THEN Report("batch", payload.plain, plane, output.tx, denom, DigestAttribute(output, plane))
        ELSE Throws

FromScan(output, plane, key, denom) ==
    CASE ~ Framed(output) -> Throws
      [] output.form = "transfer" -> TransferFromScan(output, plane, key, denom)
      [] output.form = "batch" -> BatchFromScan(output, plane, key, denom)

(***************************************************************************)
(* The key a decode method of the client opens with: of a transaction's    *)
(* event a user disclosure is opened with the wallet's key only, an audit  *)
(* disclosure always with the key passed in.                               *)
(***************************************************************************)
GivenOrDerived(caller) == IF caller.given # NoKey THEN caller.given ELSE caller.derived
UserKey(caller, fromScan) == IF fromScan THEN GivenOrDerived(caller) ELSE caller.derived
SelfViewKey(caller) == GivenOrDerived(caller)
AuditKey(caller) == caller.given
KeyOf(plane, caller, fromScan) ==
    CASE plane = "user" -> UserKey(caller, fromScan)
      [] plane = "self" -> SelfViewKey(caller)
      [] plane = "audit" -> AuditKey(caller)

(***************************************************************************)
(* The decode methods of the client.  A transaction asserted along with an *)
(* output must be the output's.                                            *)
(***************************************************************************)
DecodeOutput(i, plane, caller, tx, denom) ==
    /\ i \in DOMAIN chain
    /\ report' = IF tx = chain[i].tx
                  THEN FromScan(chain[i], plane, KeyOf(plane, caller, TRUE), denom) ELSE Throws
    /\ UNCHANGED chain

\* findPrivacyEventByTxHash: the first transfer event with the hash.
EventsOf(tx) == {i \in DOMAIN chain : chain[i].form = "transfer" /\ chain[i].tx = tx}
FirstEvent(tx) == chain[CHOOSE i \in EventsOf(tx) : \A j \in EventsOf(tx) : i <= j]

DecodeTransaction(tx, plane, caller, denom, digestServed) ==
    /\ digestServed \/ DropsDigest
    /\ report' =
          IF EventsOf(tx) = {} THEN Throws
          ELSE LET event == FirstEvent(tx) IN
               FromEvent(event, plane, KeyOf(plane, caller, FALSE), tx, denom,
                         IF digestServed THEN DigestAttribute(event, plane) ELSE Nothing)
    /\ UNCHANGED chain

-----------------------------------------------------------------------------
Init == chain = << >> /\ report = NoReport

PlanesRead == {"user", "audit", "self"}

Next ==
    \/ \E tx \in Txs, effect \in Effects, fault \in Faults, where \in PlanesRead :
          LandTransfer(tx, effect, fault, where)
    \/ \E tx \in Txs, first, second \in Effects, fault \in Faults, where \in PlanesRead :
          LandBatch(tx, first, second, fault, where)
    \/ \E i \in 1 .. MaxOutputs, plane \in PlanesRead, caller \in Callers, tx \in Txs,
          denom \in Denoms : DecodeOutput(i, plane, caller, tx, denom)
    \/ \E tx \in Txs, plane \in PlanesRead, caller \in Callers, denom \in Denoms,
          served \in BOOLEAN : DecodeTransaction(tx, plane, caller, denom, served)

Spec == Init /\ [][Next]_vars

-----------------------------------------------------------------------------
(***************************************************************************)
(* Properties.                                                             *)
(***************************************************************************)
Outputs == {chain[i] : i \in DOMAIN chain}

\* A verified report tells the truth about one output of the transaction it
\* names, whatever was sealed: its place, its commitment, its asset, and
\* every fact it shows.
ReportIsTrue ==
    report.verified =>
        \E o \in Outputs :
            /\ o.tx = report.tx /\ o.index = report.index /\ o.commitment = report.commitment
            /\ o.truth.asset = AssetId(report.denom)
            /\ \A f \in DOMAIN report.shown : report.shown[f] = o.truth[f]

\* A verified user report shows exactly what the policy on chain discloses.
ReportKeepsPolicy ==
    (report.verified /\ report.plane = "user") =>
        \E o \in Outputs : o.commitment = report.commitment /\ DOMAIN report.shown = o.policy

\* What is documented of `verified` (docs/api-mapping.md): the digest of the
\* report is the one on chain.
VerifiedMatchesChain ==
    report.verified =>
        \E o \in Outputs : o.tx = report.tx /\ report.digest \in {o.userDigest, o.fullDigest}

\* An output whose disclosures were sealed truthfully is read by every caller
\* it is meant for: from a scan page always, by transaction when it is the
\* first transfer of it.
HonestIsRead ==
    \A o \in {x \in Outputs : x.fault = "none"} : \A plane \in PlanesRead, caller \in Callers :
        LET target == CASE plane = "user" -> o.userTarget [] plane = "audit" -> Auditor
                        [] plane = "self" -> SelfKey
            meant(fromScan) == \/ plane = "user" /\ o.mode = "public"
                               \/ ~ (plane = "user" /\ o.mode = "none")
                                    /\ KeyOf(plane, caller, fromScan) = target
            denom == CHOOSE d \in Denoms : AssetId(d) = o.truth.asset
        IN  /\ meant(TRUE) => FromScan(o, plane, KeyOf(plane, caller, TRUE), denom).verified
            /\ (meant(FALSE) /\ o.form = "transfer" /\ FirstEvent(o.tx) = o) =>
                  FromEvent(o, plane, KeyOf(plane, caller, FALSE), o.tx, denom,
                            DigestAttribute(o, plane)).verified

\* What is reported is true and in the policy, and what is meant for a reader
\* is reported to it.
DisclosureIsSound == ReportIsTrue /\ ReportKeepsPolicy /\ HonestIsRead
=============================================================================

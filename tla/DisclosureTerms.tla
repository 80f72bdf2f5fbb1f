--------------------------- MODULE DisclosureTerms ---------------------------
(***************************************************************************)
(* The terms of src/src/privacy/protocol-v1.js that payloads and           *)
(* disclosures are made of.  A hash is the record of what is hashed (it is *)
(* collision free), an envelope is the record of its kind, its target key  *)
(* and its plaintext (it opens for no other key), a pair of spend and view *)
(* keys is the name of its account, and a privacy policy is the set of     *)
(* facts it discloses.                                                     *)
(***************************************************************************)
EXTENDS Integers, Sequences, FiniteSets

Hidden == "hidden"                 \* the zero that stands for keys not shown
Nothing == [is |-> "nothing"]      \* an empty byte string, the zero digest
Policies == SUBSET {"amount", "to", "from"}
AllPrivate == {}
Modes == {"none", "public", "encrypted"}
Planes == {"user", "full"}

(* A note is [owner, amount, asset, randomness]. *)
Commitment(note) == [is |-> "commitment", note |-> note]
Nullifier(note) == [is |-> "nullifier", note |-> note]
AssetId(denom) == [is |-> "asset", denom |-> denom]
ChainDomain(chain) == [is |-> "chain", chain |-> chain]

(* What can be told of output `index`: the input of both disclosure        *)
(* digests.                                                                *)
Facts(sender, note, index, blinding) ==
    [index |-> index, commitment |-> Commitment(note), asset |-> AssetId(note.asset),
     amount |-> note.amount, from |-> sender, to |-> note.owner, blinding |-> blinding]

(* The facts with everything the policy does not disclose set to zero. *)
Hide(policy, facts) ==
    [facts EXCEPT !.amount = IF "amount" \in policy THEN @ ELSE 0,
                  !.from   = IF "from" \in policy THEN @ ELSE Hidden,
                  !.to     = IF "to" \in policy THEN @ ELSE Hidden]

(* The digests bind the form of the transfer (their domains differ).       *)
UserDigest(form, policy, facts) ==
    IF policy = AllPrivate THEN Nothing
    ELSE [is |-> form, plane |-> "user", policy |-> policy, facts |-> Hide(policy, facts)]

FullDigest(form, facts) == [is |-> form, plane |-> "full", facts |-> facts]

(* DisclosurePlaintextV1. *)
UserPlaintext(policy, facts) ==
    [plane |-> "user", policy |-> policy, facts |-> Hide(policy, facts)]

FullPlaintext(facts) ==
    [plane |-> "full", policy |-> {"amount", "to", "from"}, facts |-> facts]

(* What marshalling and unmarshalling a plaintext refuse. *)
WellFormed(plain) ==
    /\ plain.facts.blinding # 0
    /\ plain.plane = "user" => /\ plain.policy # AllPrivate
                               /\ ("amount" \notin plain.policy => plain.facts.amount = 0)
    /\ (plain.plane = "full" \/ "from" \in plain.policy) <=> plain.facts.from # Hidden
    /\ (plain.plane = "full" \/ "to" \in plain.policy) <=> plain.facts.to # Hidden

(* A plaintext sent in the clear and one sealed for a key. *)
InClear(plain) == [is |-> "plaintext", plain |-> plain]
Sealed(kind, key, plain) == [is |-> "envelope", kind |-> kind, to |-> key, plain |-> plain]
SealedNote(note, index) ==
    [is |-> "note", kind |-> "transfer-note", to |-> note.owner, note |-> note, index |-> index]

IsEnvelope(value, kind) == value.is \in {"envelope", "note"} /\ value.kind = kind
IsPlaintext(value) == value.is = "plaintext" /\ WellFormed(value.plain)

(* decryptDisclosureV1: the envelope has the kind asked for, the scalar is *)
(* its target's, and what comes out is well formed.                        *)
Opens(value, kind, key) ==
    IsEnvelope(value, kind) /\ value.is = "envelope" /\ value.to = key /\ WellFormed(value.plain)

(* randomNonZeroField(excluded): a draw is retried until it is allowed.    *)
Allowed(draw, excluded) == draw # 0 /\ draw \notin excluded

(* validateDisclosureBlindingSeparationV1 and validateDisclosureBlindings: *)
(* neither blinding opens the note or the other digest.                    *)
SeparateBlindings(policy, randomness, user, full) ==
    /\ full # 0 /\ full # randomness
    /\ IF policy = AllPrivate THEN user = 0
       ELSE user # 0 /\ user # randomness /\ user # full
=============================================================================

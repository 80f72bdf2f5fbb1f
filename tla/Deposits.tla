------------------------------- MODULE Deposits -------------------------------
(***************************************************************************)
(* Deposits, from the amount a wallet wants to make private to the note    *)
(* it is told it owns:                                                     *)
(*                                                                         *)
(*   prepareDeposit of the wallet client (wallet-client.js) makes the note *)
(*       or takes the material the application kept, has its proof made or *)
(*       takes one the application kept, and makes the Cosmos sign doc or  *)
(*       the EVM transaction                                               *)
(*   sendTransaction (evm.js) checks that the transaction is still what    *)
(*       was prepared before it asks the wallet; on Cosmos the sign doc is *)
(*       signed as it is                                                   *)
(*   confirmDeposit (cosmos-client.js) reads the transaction back          *)
(*                                                                         *)
(* A commitment is the note, which carries a fresh serial in place of its  *)
(* randomness.  The EVM profile is the one browsers need, payable-exact-   *)
(* value: the amount is the value of the transaction and no field of its   *)
(* data.  The prover, the chain, and the files of the application external. *)
(***************************************************************************)
EXTENDS Integers, Sequences, FiniteSets

CONSTANTS
    Wallets,       \* each an account with its own root seed
    Requests,      \* [wallet, via, amount, provider]: the calls of prepareDeposit
    Values,        \* amounts an edited transaction may carry
    Nothing,
    MaxNotes, MaxPrepared, MaxSent  \* bounds of the instance

DepositsAssumption ==
    /\ \A r \in Requests : /\ r.wallet \in Wallets /\ r.via \in {"cosmos", "evm"}
                           /\ r.provider \in {"http", "own", "none"}
    /\ {MaxNotes, MaxPrepared, MaxSent} \subseteq Nat

VARIABLES
    serials,    \* random draws so far
    materials,  \* deposit material the application keeps
    proofs,     \* proofs the application keeps: [note]
    build,      \* the running prepareDeposit
    prepared,   \* what prepareDeposit returned: [request, material, data, value, asked]
    chain,      \* executed transactions, oldest first: [code, data, paid, from]
    confirmed   \* [material, tx]: what confirmDeposit confirmed

vars == <<serials, materials, proofs, build, prepared, chain, confirmed>>
Idle == [step |-> "idle"]

(***************************************************************************)
(* buildDepositMaterial: a note for the wallet itself or for a given       *)
(* address, sealed with the wallet's own root seed either way.             *)
(***************************************************************************)
Material(wallet, owner, amount) ==
    LET note == [owner |-> owner, amount |-> amount, serial |-> serials] IN
    [creator |-> wallet, amount |-> amount, note |-> note,
     envelope |-> [seed |-> wallet, note |-> note]]

BuildMaterial(wallet, owner, amount) ==
    /\ serials < MaxNotes
    /\ serials' = serials + 1
    /\ materials' = materials \cup {Material(wallet, owner, amount)}
    /\ UNCHANGED <<proofs, build, prepared, chain, confirmed>>

(***************************************************************************)
(* prepareDeposit up to the proof.                                         *)
(***************************************************************************)
\* Only a payable deposit is compared with its material before it is proved.
Admits(request, material) ==
    request.via = "evm" /\ material # Nothing => material.amount = request.amount

Prepare(request, material, proof) ==
    /\ build = Idle
    /\ Cardinality(prepared) < MaxPrepared
    /\ Admits(request, material)
    /\ proof # Nothing \/ request.provider # "none"
    /\ LET fresh == material = Nothing IN
       /\ fresh => serials < MaxNotes
       /\ serials' = IF fresh THEN serials + 1 ELSE serials
       /\ build' = [step |-> IF proof = Nothing THEN "prove" ELSE "assemble",
                    request |-> request, proof |-> proof, asked |-> proof = Nothing,
                    material |-> IF fresh THEN Material(request.wallet, request.wallet, request.amount)
                                 ELSE material]
    /\ UNCHANGED <<materials, proofs, prepared, chain, confirmed>>

(***************************************************************************)
(* createHttpDepositProofProvider.  The service may answer with the proof  *)
(* of another job, and says of which commitment a proof is; the call may   *)
(* also time out or be cancelled, and what arrives later is dropped.  A    *)
(* provider of the application's own is taken at its word.                 *)
(***************************************************************************)
NotesAround == {m.note : m \in materials} \cup {p.material.note : p \in prepared}
               \cup {build.material.note}

AnswerFits(label, note) == label = note
Answer(proof) ==
    /\ build.step = "prove"
    /\ build.request.provider = "http" => AnswerFits(proof.note, build.material.note)
    /\ build' = [build EXCEPT !.step = "assemble", !.proof = proof]
    /\ proofs' = proofs \cup {proof}
    /\ UNCHANGED <<serials, materials, prepared, chain, confirmed>>
NoAnswer ==
    /\ build.step = "prove"
    /\ build' = Idle
    /\ UNCHANGED <<serials, materials, proofs, prepared, chain, confirmed>>

(***************************************************************************)
(* buildDepositMessage or buildDepositTransaction: the material must be of *)
(* this account and this amount.                                           *)
(***************************************************************************)
OfRequest(request, material) ==
    material.creator = request.wallet /\ material.amount = request.amount

Data(material, proof) ==
    [commitment |-> material.note, envelope |-> material.envelope, proof |-> proof]
Assemble ==
    /\ build.step = "assemble"
    /\ build' = Idle
    /\ IF OfRequest(build.request, build.material)
       THEN prepared' = prepared \cup
              {[request |-> build.request, material |-> build.material,
                data |-> Data(build.material, build.proof), value |-> build.material.amount,
                asked |-> build.asked]}
       ELSE UNCHANGED prepared
    /\ materials' = materials \cup {build.material}
    /\ UNCHANGED <<serials, proofs, chain, confirmed>>

(***************************************************************************)
(* The chain takes the deposit if the proof shows that the commitment is   *)
(* to a note of the amount paid.                                           *)
(***************************************************************************)
Execute(from, data, paid) ==
    chain' = Append(chain,
        [from |-> from, data |-> data, paid |-> paid,
         code |-> IF data.proof.note = data.commitment /\ data.commitment.amount = paid
                  THEN 0 ELSE 1])

\* assertPrivacyTransactionBinding of a payable deposit
Bound(deposit, marked, data, value) ==
    marked /\ data = deposit.data /\ value = deposit.value

(* sendTransaction, of the transaction as the application hands it over:   *)
(* edited, or copied without the marks it was prepared with.               *)
SendEvm(deposit, marked, data, value) ==
    /\ Len(chain) < MaxSent
    /\ deposit.request.via = "evm"
    /\ Bound(deposit, marked, data, value)
    /\ Execute(deposit.request.wallet, data, value)
    /\ UNCHANGED <<serials, materials, proofs, build, prepared, confirmed>>
SendCosmos(deposit) ==
    /\ Len(chain) < MaxSent
    /\ deposit.request.via = "cosmos"
    /\ Execute(deposit.request.wallet, deposit.data, deposit.material.amount)
    /\ UNCHANGED <<serials, materials, proofs, build, prepared, confirmed>>

(***************************************************************************)
(* confirmDeposit, with the material or the two values the application has *)
(* kept, and a transaction hash it was told: by its wallet, or wrongly.    *)
(***************************************************************************)
(* mutation: any deposit event will do *)
EventFitsAny(material, tx) == TRUE

EventFits(material, tx) ==
    tx.data.commitment = material.note /\ tx.data.envelope = material.envelope
Confirm(material, k) ==
    /\ chain[k].code = 0
    /\ EventFits(material, chain[k])
    /\ confirmed' = confirmed \cup {[material |-> material, tx |-> k]}
    /\ UNCHANGED <<serials, materials, proofs, build, prepared, chain>>

Init ==
    /\ serials = 0 /\ materials = {} /\ proofs = {} /\ build = Idle
    /\ prepared = {} /\ chain = << >> /\ confirmed = {}

Next ==
    \/ \E w \in Wallets, o \in Wallets, r \in Requests : BuildMaterial(w, o, r.amount)
    \/ \E r \in Requests, m \in materials \cup {Nothing}, p \in proofs \cup {Nothing} : Prepare(r, m, p)
    \/ build # Idle /\ \E n \in NotesAround : Answer([note |-> n])
    \/ NoAnswer
    \/ Assemble
    \/ \E d \in prepared, e \in prepared, marked \in BOOLEAN, v \in Values :
          SendEvm(d, marked, e.data, v)
    \/ \E d \in prepared : SendCosmos(d)
    \/ \E m \in materials, k \in 1 .. Len(chain) : Confirm(m, k)
Spec == Init /\ [][Next]_vars

(***************************************************************************)
(* Properties.                                                             *)
(***************************************************************************)
\* A draw is used by one note, and a note is sealed as it is committed to.
TypeOK ==
    /\ \A m, n \in materials : m.note.serial = n.note.serial => m = n
    /\ \A m \in materials : m.envelope.note = m.note /\ m.note.serial < serials

(* What a wallet is told was deposited is on the chain, for the amount     *)
(* that was paid, and the wallet that paid can find it again with no more  *)
(* than its root seed - though it may confirm with another transaction's   *)
(* hash, another deposit's material and material another wallet built.     *)
ConfirmedIsFound ==
    \A c \in confirmed :
        LET tx == chain[c.tx] IN
        /\ tx.code = 0
        /\ tx.data.envelope.note = c.material.note
        /\ tx.data.envelope.note = tx.data.commitment
        /\ tx.paid = c.material.note.amount
        /\ tx.from = tx.data.envelope.seed

(* What the wallet is asked for pays for the note it was prepared for,     *)
(* however the transaction was edited, mixed up or copied on the way.      *)
PaysForItsNote == \A k \in 1 .. Len(chain) : chain[k].paid = chain[k].data.commitment.amount

(* A deposit that the HTTP proof service proved is taken by the chain: a   *)
(* proof of another deposit is noticed before anything is paid.            *)
ProvedDepositsExecute ==
    \A p \in prepared : p.request.provider = "http" /\ p.asked
        => p.data.proof.note = p.data.commitment

(* A deposit that is paid for is one the wallet has: all of the above.     *)
DepositsAreSound == TypeOK /\ ConfirmedIsFound /\ PaysForItsNote /\ ProvedDepositsExecute
=============================================================================

------------------------------- MODULE PathB -------------------------------
(***************************************************************************)
(* Path B of the handoffs (reverse_attestation.rs): six instructions that  *)
(* carry an ABI-encoded intent between Solana and an EVM peer.  None of    *)
(* them is wired: a well-formed one ends in a terminal error of its own,   *)
(* a malformed one in an earlier error, and no account is ever written.    *)
(*                                                                         *)
(* What the preflights establish is therefore what the model is about:     *)
(* `gated' keeps the instructions that came to the terminal error, as the  *)
(* receipts and transfers to be wired behind it will find them.            *)
(***************************************************************************)
EXTENDS AbiCodec, FiniteSets, Functions

CONSTANTS
    Submissions,            \* the instructions anybody may send
    DAY_CHAIN_ID_SOLANA,    \* 501 and
    CCTP_DOMAIN_SOLANA,     \* 5 in the code
    RemotePeers,            \* <<chain, domain>>: (8453, 6) and (1, 0)
    Nonces,                 \* of requests
    MaxGated                \* bound: instructions remembered

Instruction == {"initiate", "redeem", "reverse", "execute", "bridge_return",
                "redeem_return"}

Type(kind) ==
    CASE kind \in {"initiate", "redeem"} -> "deposit"
      [] kind \in {"reverse", "execute"} -> "request"
      [] kind \in {"bridge_return", "redeem_return"} -> "return"

\* An instruction: its kind, the message its sender means and the body that
\* carries one, the non-empty parameters, the id among them, the accounts.
ASSUME PathBAssumption ==
    /\ \A ix \in Submissions :
            /\ ix.kind \in Instruction
            /\ WellTyped(Type(ix.kind), ix.fields)
            /\ ix.body \in Seq(Word)
            /\ ix.accounts \in Seq(Range(ix.accounts))
    /\ <<DAY_CHAIN_ID_SOLANA, CCTP_DOMAIN_SOLANA>> \notin RemotePeers
    /\ Nonces \subseteq Value("u64")
    /\ MaxGated \in Nat

VARIABLES
    gated,      \* history: the instructions that passed every preflight
    outcome     \* the error the last instruction ended in

vars == <<gated, outcome>>

-----------------------------------------------------------------------------
(* The messages. *)

MessageOf(ix) == Message(Type(ix.kind), Decode(Type(ix.kind), ix.body))

\* The instructions whose value or command leaves Solana.
Outbound == {"initiate", "reverse", "bridge_return"}

Local(kind, m) == IF kind \in Outbound THEN m.source ELSE m.destination
Remote(kind, m) == IF kind \in Outbound THEN m.destination ELSE m.source

ValidIntentAnywhere(kind, m) ==         \* mutant: networks are not looked at
    /\ \A id \in m.ids : Nonzero(id)
    /\ Nonzero(Local(kind, m).owner)
    /\ Nonzero(m.amount)

\* The validate_path_b_*_abi functions after the decoding.
ValidIntent(kind, m) ==
    LET near == Local(kind, m)
        far == Remote(kind, m)
    IN /\ \A id \in m.ids : Nonzero(id)
       /\ near.chain = DAY_CHAIN_ID_SOLANA
       /\ near.domain = CCTP_DOMAIN_SOLANA
       /\ <<far.chain, far.domain>> \in RemotePeers
       /\ Nonzero(near.owner)
       /\ Nonzero(near.executor)
       /\ Nonzero(far.executor)
       /\ Nonzero(m.amount)

\* Parameters beside the body that must not be empty or zero.
RequiredParams(kind) ==
    CASE kind = "initiate" ->
            {"mayan_quote_commitment", "mayan_instruction_manifest_hash"}
      [] kind = "redeem" ->
            {"cctp_message", "cctp_attestation", "wormhole_signed_vaa",
             "mayan_redeem_manifest_hash"}
      [] kind = "reverse" -> {}
      [] kind = "execute" -> {"request_id", "withdrawal_vaa"}
      [] kind = "bridge_return" ->
            {"withdrawal_id", "mayan_quote_commitment",
             "mayan_instruction_manifest_hash"}
      [] kind = "redeem_return" ->
            {"cctp_message", "cctp_attestation", "wormhole_signed_vaa"}

\* Of the ids that come as parameters, only the bridged withdrawal's is
\* compared with the message.
ParamsMatch(ix) ==
    ix.kind = "bridge_return" => MessageOf(ix).withdrawal_id = ix.id

Preflight(ix) ==
    /\ RequiredParams(ix.kind) \subseteq ix.filled
    /\ Decodes(Type(ix.kind), ix.body)
    /\ ValidIntent(ix.kind, MessageOf(ix))
    /\ ParamsMatch(ix)

-----------------------------------------------------------------------------
(* The accounts. A key is what it is derived from. *)

Pinned(name) == <<"pinned", name>>
Wallet(bytes) == <<"wallet", bytes>>
UsdcAta(owner) == <<"usdc_ata", owner>>
MctpConfig == <<"mctp_config", "v1">>
RegistryV2 == <<"registry_v2", "v1">>
Peer(chain) == <<"mctp_peer", chain>>
SourceIntentReceipt(day_tx_id) == <<"mctp_source_intent", day_tx_id>>
ReceiveReceipt(day_tx_id) == <<"mctp_receive_receipt", day_tx_id>>
WithdrawalRequest(request_id) == <<"mctp_withdrawal_req", request_id>>
ReturnReceiptShared(withdrawal_id) ==   \* mutant: one receipt for all returns
    <<"mctp_return">>

ReturnReceipt(withdrawal_id) == <<"mctp_return", withdrawal_id>>
HandoffPosition(day_tx_id) == <<"handoff_position", day_tx_id>>
CustodyShared(day_tx_id) ==             \* mutant: one custody for all handoffs
    <<"handoff_custody">>

Custody(day_tx_id) == <<"handoff_custody", day_tx_id>>

\* The accounts an instruction must begin with. The signer's own key is free.
\* (The key validators ask again for non-zero ids and a known remote chain,
\* which ValidIntent has established.)
RemotePeer(ix) == Peer(Remote(ix.kind, MessageOf(ix)).chain)

InitiateAccounts(ix) ==
    LET tx == MessageOf(ix).day_tx_id
        owner == ix.accounts[1]
    IN <<owner, MctpConfig, RemotePeer(ix), SourceIntentReceipt(tx),
         UsdcAta(owner), Custody(tx), UsdcAta(Custody(tx)), Pinned("usdc"),
         Pinned("token"), Pinned("ata"), Pinned("system"), Pinned("mayan"),
         Pinned("payload_writer")>>

RedeemAccounts(ix) ==
    LET tx == MessageOf(ix).day_tx_id
    IN <<ix.accounts[1], MctpConfig, RemotePeer(ix), ReceiveReceipt(tx),
         HandoffPosition(tx), Custody(tx), UsdcAta(Custody(tx)), RegistryV2,
         Pinned("usdc"), Pinned("token"), Pinned("ata"), Pinned("system"),
         Pinned("mayan"), Pinned("cctp_mt"), Pinned("cctp_tmm"),
         Pinned("wormhole")>>

\* The withdrawal request is any account but two: its id is not known yet.
ReverseAccounts(ix) ==
    LET request == ix.accounts[5]
        null == {Pinned("system"), Pinned("default")}
    IN <<ix.accounts[1], MctpConfig, RemotePeer(ix),
         SourceIntentReceipt(MessageOf(ix).day_tx_id),
         IF request \in null THEN Pinned("none") ELSE request,
         Pinned("wormhole"), Pinned("system")>>

ExecuteAccounts(ix) ==
    LET tx == MessageOf(ix).day_tx_id
    IN <<ix.accounts[1], MctpConfig, RemotePeer(ix), HandoffPosition(tx),
         WithdrawalRequest(ix.id), Custody(tx), UsdcAta(Custody(tx)),
         RegistryV2, Pinned("token"), Pinned("wormhole"), Pinned("mayan"),
         Pinned("payload_writer")>>

BridgeReturnAccounts(ix) ==
    LET tx == MessageOf(ix).day_tx_id
    IN <<ix.accounts[1], MctpConfig, RemotePeer(ix), HandoffPosition(tx),
         Custody(tx), UsdcAta(Custody(tx)), Pinned("usdc"), Pinned("token"),
         Pinned("mayan"), Pinned("payload_writer"), Pinned("system")>>

RedeemReturnAccounts(ix) ==
    LET m == MessageOf(ix)
        tx == m.day_tx_id
    IN <<ix.accounts[1], MctpConfig, RemotePeer(ix), SourceIntentReceipt(tx),
         ReturnReceipt(m.withdrawal_id), Custody(tx), UsdcAta(Custody(tx)),
         UsdcAta(Wallet(m.destination.owner)), Pinned("usdc"),
         Pinned("token"), Pinned("mayan"), Pinned("cctp_mt"),
         Pinned("cctp_tmm"), Pinned("wormhole")>>

FixedAccounts(ix) ==
    CASE ix.kind = "initiate" -> InitiateAccounts(ix)
      [] ix.kind = "redeem" -> RedeemAccounts(ix)
      [] ix.kind = "reverse" -> ReverseAccounts(ix)
      [] ix.kind = "execute" -> ExecuteAccounts(ix)
      [] ix.kind = "bridge_return" -> BridgeReturnAccounts(ix)
      [] ix.kind = "redeem_return" -> RedeemReturnAccounts(ix)

FixedLen(kind) ==
    CASE kind = "initiate" -> 13
      [] kind = "redeem" -> 16
      [] kind = "reverse" -> 7
      [] kind = "execute" -> 12
      [] kind = "bridge_return" -> 11
      [] kind = "redeem_return" -> 14

AccountsPinned(ix) ==
    SubSeq(ix.accounts, 1, FixedLen(ix.kind)) = FixedAccounts(ix)

-----------------------------------------------------------------------------
(* The handlers. *)

Gate(kind) ==
    IF kind \in {"initiate", "redeem"} THEN "MctpProofPathNotWired"
                                       ELSE "ReverseAttestationNotWired"

\* The error an instruction ends in: the first check that fails, or the gate.
Outcome(ix) ==
    IF ~Preflight(ix) THEN "InvalidInstructionData"
    ELSE IF Len(ix.accounts) < FixedLen(ix.kind) THEN "NotEnoughAccountKeys"
    ELSE IF ~ix.signed THEN "MissingRequiredSignature"
    ELSE IF ~AccountsPinned(ix) THEN "InvalidAccount"
    ELSE Gate(ix.kind)

\* The instructions of a kind and how each ends, as functions: TLC tabulates
\* them once.
Sent == [kind \in Instruction |-> {ix \in Submissions : ix.kind = kind}]
OutcomeOf == [ix \in Submissions |-> Outcome(ix)]

ProcessUnpinned(ix) ==                  \* mutant: the gate is before the accounts
    /\ outcome' = OutcomeOf[ix]
    /\ gated' = IF Preflight(ix) THEN gated \cup {ix} ELSE gated
    /\ Cardinality(gated') <= MaxGated

Process(ix) ==
    /\ outcome' = OutcomeOf[ix]
    /\ gated' = IF OutcomeOf[ix] = Gate(ix.kind) THEN gated \cup {ix} ELSE gated
    /\ Cardinality(gated') <= MaxGated

InitiateHandoffDeposit == \E ix \in Sent["initiate"] : Process(ix)
RedeemHandoffDeposit == \E ix \in Sent["redeem"] : Process(ix)
RequestRemoteWithdrawal == \E ix \in Sent["reverse"] : Process(ix)
ExecuteVerifiedWithdrawal == \E ix \in Sent["execute"] : Process(ix)
BridgeWithdrawalReturn == \E ix \in Sent["bridge_return"] : Process(ix)
RedeemReturnToOwner == \E ix \in Sent["redeem_return"] : Process(ix)

Init == gated = {} /\ outcome = "none"

Next ==
    \/ InitiateHandoffDeposit
    \/ RedeemHandoffDeposit
    \/ RequestRemoteWithdrawal
    \/ ExecuteVerifiedWithdrawal
    \/ BridgeWithdrawalReturn
    \/ RedeemReturnToOwner

Spec == Init /\ [][Next]_vars

-----------------------------------------------------------------------------
(* Properties. *)

\* What came to a gate is an instruction somebody sent and whose preflights
\* all hold: the type invariant, and the inductive one.
TypeOK ==
    /\ \A ix \in gated : ix.kind \in Instruction /\ ix \in Sent[ix.kind]
    /\ outcome \in {"none", "InvalidInstructionData", "NotEnoughAccountKeys",
                    "MissingRequiredSignature", "InvalidAccount",
                    "MctpProofPathNotWired", "ReverseAttestationNotWired"}
    /\ \A ix \in gated : OutcomeOf[ix] = Gate(ix.kind)

\* The codec loses nothing and admits no second spelling: what a handler
\* decodes is the message its sender encoded if and only if the body is the
\* very bytes the sender's encoder writes, so an altered word, padding
\* included, is another message and another commitment hash.
BodyIsMessage ==
    \A ix \in gated :
        LET type == Type(ix.kind) IN
        Decode(type, ix.body) = ix.fields
            <=> ix.body = Encode(Written(type), ix.fields)

\* One body is not taken by two handlers: the directions exclude each other
\* and so do the types, except for a deposit whose adapter data hash is spelt
\* like a flag, which is also a withdrawal request of the same direction.
OneHandlerPerBody ==
    \A p, q \in gated :
        p.body = q.body
            => \/ p.kind = q.kind
               \/ /\ {Type(p.kind), Type(q.kind)} = {"deposit", "request"}
                  /\ p.kind \in Outbound <=> q.kind \in Outbound
                  /\ Canonical("bool", p.body[Len(p.body)])

\* A request id names one request and one nonce, and is the commitment of no
\* message: two withdrawals never share the id their receipts are kept under.
\* No handler recomputes an id: its users are off-chain, and the tests.
RequestIdsBind ==
    \A p, q \in gated, m, n \in Nonces :
        LET f == Decode(Type(p.kind), p.body)
            g == Decode(Type(q.kind), q.body)
        IN Type(p.kind) = "request" =>
            /\ RequestId(f, m) # CommitmentHash(Type(q.kind), g)
            /\ Type(q.kind) = "request"
                 => (RequestId(f, m) = RequestId(g, n)
                        <=> p.body = q.body /\ m = n)

\* Where an instruction keeps the account of a role; 0 where it has none.
Slot(role, kind) ==
    CASE role = "custody" ->
            (CASE kind \in {"initiate", "redeem", "execute", "redeem_return"} -> 6
               [] kind = "bridge_return" -> 5
               [] kind = "reverse" -> 0)
      [] role = "custody_usdc" ->
            (CASE kind \in {"initiate", "redeem", "execute", "redeem_return"} -> 7
               [] kind = "bridge_return" -> 6
               [] kind = "reverse" -> 0)
      [] role = "position" ->
            (CASE kind = "redeem" -> 5
               [] kind \in {"execute", "bridge_return"} -> 4
               [] kind \in {"initiate", "reverse", "redeem_return"} -> 0)
      [] role = "source_intent" ->
            (CASE kind \in {"initiate", "reverse", "redeem_return"} -> 4
               [] kind \in {"redeem", "execute", "bridge_return"} -> 0)

Role == {"custody", "custody_usdc", "position", "source_intent"}

\* Two instructions, of whatever handlers, are given the same custody,
\* position or source receipt exactly if they are about the same handoff: a
\* later leg finds what the earlier one left and never another handoff's.
AccountsFollowHandoff ==
    \A p, q \in gated, role \in Role :
        LET i == Slot(role, p.kind)
            j == Slot(role, q.kind)
        IN i # 0 /\ j # 0
             => (p.accounts[i] = q.accounts[j]
                    <=> MessageOf(p).day_tx_id = MessageOf(q).day_tx_id)

\* Two redeem-returns ask for one receipt exactly if they are about one
\* withdrawal, and pay one account exactly if their messages name one owner,
\* never the relayer's. Nothing is claimed at the gate: of two messages that
\* give one withdrawal to two owners it lets both pass, and the receipt they
\* share is what is to stop the second.
ReturnsFollowWithdrawal ==
    \A p, q \in {ix \in gated : ix.kind = "redeem_return"} :
        /\ p.accounts[5] = q.accounts[5]
             <=> MessageOf(p).withdrawal_id = MessageOf(q).withdrawal_id
        /\ p.accounts[8] = q.accounts[8]
             <=> MessageOf(p).destination.owner = MessageOf(q).destination.owner
=============================================================================

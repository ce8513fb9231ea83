------------------------------ MODULE Handoff -------------------------------
(***************************************************************************)
(* Peer-custody handoffs of the Solana day_router program (DAY-962/980,    *)
(* path A).  A bridge delivers USDC to a custody account isolated per      *)
(* day_tx_id; a relayer turns the delivery into a position of the origin   *)
(* owner in the jupiter-lend venue (ReceiveAndForwardDeposit), and later   *)
(* anybody exits the position to that owner (ExitHandoffToOrigin).         *)
(*                                                                         *)
(* Every instruction is one atomic transaction: an error aborts all of it, *)
(* so a handler is one action whose guard is the conjunction of its        *)
(* checks.  What interleaves is transactions: of relayers, of the          *)
(* authority (ingress pause, adapter registry), of the bridge, which may   *)
(* deliver late, twice or in parts, and of the venue, whose share price    *)
(* moves.                                                                  *)
(*                                                                         *)
(* Amounts are micros of USDC.  The origin_chain and origin_asset labels   *)
(* are audit metadata nothing reads back: they are checked on entry and    *)
(* not kept.  A custody authority and its USDC and receipt accounts are    *)
(* named by the day_tx_id they are derived from.                           *)
(***************************************************************************)
EXTENDS RegistryV2, Integers

CONSTANTS
    DayTxIds,           \* handoff ids
    Owners,             \* keys that can own an SPL token account
    ForeignOwners,      \* other 32-byte owners: left-padded EVM addresses
    NullKey,            \* the all-zero owner
    NullLabel,          \* the all-zero chain or asset label
    OriginRecords,      \* the origin records a relayer may submit
    JupiterLend,        \* the id "jupiter-lend", the one adapter wired here
    JupiterEarnProgram, \* the Earn program the jupiter-lend arm pins
    MaxMicros,          \* bound: micros the bridge delivers to one handoff
    MaxDrift,           \* bound: yield or loss of one position
    MaxShortfall        \* bound: micros the venue may pay short of a request

OwnerKeys == Owners \cup ForeignOwners \cup {NullKey}
Micros    == 0..MaxMicros

ASSUME HandoffAssumption ==
    /\ NullKey \notin Owners \cup ForeignOwners
    /\ Owners \cap ForeignOwners = {}
    /\ \A origin \in OriginRecords : origin.owner \in OwnerKeys
    /\ JupiterLend \in AdapterIds
    /\ JupiterEarnProgram \in Programs
    /\ MaxMicros \in Nat
    /\ MaxDrift \in Nat
    /\ MaxShortfall \in Nat

VARIABLES
    mctp_config,    \* the config PDA: created or not, ingress paused or not
    position,       \* the HandoffPosition PDA of each handoff
    custody_usdc,   \* USDC in the custody account of each handoff
    venue,          \* USDC value of the receipts its custody PDA holds
    payouts,        \* USDC paid to token accounts of each key, per handoff
    \* History, read by no action.
    delivered,      \* USDC the bridge has delivered to the handoff
    drift,          \* what the venue has added to the position, or lost
    claimed         \* claimed_principal_micros of the deposit

ledgerVars  == <<custody_usdc, venue, payouts>>
historyVars == <<delivered, drift, claimed>>
handoffVars == <<mctp_config, position, ledgerVars, historyVars>>
vars        == <<registryVars, handoffVars>>

UNINIT == 0
ACTIVE == 1
EXITED == 2

NoPosition ==
    [state                      |-> UNINIT,
     origin_owner               |-> NullKey,
     adapter_id                 |-> JupiterLend,
     adapter_program            |-> DefaultProgram,
     principal_micros           |-> 0,
     remaining_principal_micros |-> 0,
     min_return_micros          |-> 0]

HandoffPosition ==
    [state                      : {UNINIT, ACTIVE, EXITED},
     origin_owner               : OwnerKeys,
     adapter_id                 : AdapterIds,
     adapter_program            : Programs \cup {DefaultProgram},
     principal_micros           : Nat,
     remaining_principal_micros : Nat,
     min_return_micros          : Nat]

MctpConfig == [exists : BOOLEAN, ingress_paused : BOOLEAN]

(***************************************************************************)
(* Every account field keeps its type: no balance of either handler, nor   *)
(* the principal it records, goes below zero.                              *)
(***************************************************************************)
TypeOK ==
    /\ RegistryTypeOK
    /\ mctp_config \in MctpConfig
    /\ position \in [DayTxIds -> HandoffPosition]
    /\ custody_usdc \in [DayTxIds -> Nat]
    /\ venue \in [DayTxIds -> Nat]
    /\ payouts \in [DayTxIds -> [OwnerKeys -> Nat]]
    /\ delivered \in [DayTxIds -> Nat]
    /\ drift \in [DayTxIds -> Int]
    /\ claimed \in [DayTxIds -> Nat]

Init ==
    /\ RegistryInit
    /\ mctp_config = [exists |-> FALSE, ingress_paused |-> TRUE]
    /\ position = [id \in DayTxIds |-> NoPosition]
    /\ custody_usdc = [id \in DayTxIds |-> 0]
    /\ venue = [id \in DayTxIds |-> 0]
    /\ payouts = [id \in DayTxIds |-> [key \in OwnerKeys |-> 0]]
    /\ delivered = [id \in DayTxIds |-> 0]
    /\ drift = [id \in DayTxIds |-> 0]
    /\ claimed = [id \in DayTxIds |-> 0]

-----------------------------------------------------------------------------
(***************************************************************************)
(* Slips the properties below tell apart from the checks they stand in     *)
(* for: a check dropped, off by one, or made on the wrong quantity.        *)
(***************************************************************************)

CustodyUnpinned(custody, id) == TRUE

PositionNotActive(id) == position[id].state # ACTIVE

ExceedsClaim(measured, claimed_principal) == measured > claimed_principal

ExitableUnpaused(id) ==
    position[id].state = ACTIVE /\ ~mctp_config.ingress_paused

PaysAnyone(recipient, id) == TRUE

WithinVenue(amount, id) == amount <= venue[id]

NoFloor(proceeds, id) == TRUE

-----------------------------------------------------------------------------
(***************************************************************************)
(* The checks the two handlers make.                                       *)
(***************************************************************************)

\* assert_origin_record_valid: no field of the origin record is all zero.
OriginRecordValid(origin) ==
    /\ origin.owner # NullKey
    /\ origin.chain # NullLabel
    /\ origin.asset # NullLabel

\* assert_solana_origin_owner: despite its name, only the null key is refused.
SolanaOriginOwner(owner) == owner # NullKey

\* The jupiter-lend arm pins one Earn program, whatever the registry says.
CpiAdapterJupiterLend(program) == program = JupiterEarnProgram

\* cpi_protocol_adapter: the registry gate, then the arm of the adapter.  The
\* handlers refuse every other arm before they get here.
CpiJupiterLend(adapter_id, program) ==
    /\ ValidateProtocolProgram(adapter_id, program)
    /\ adapter_id = JupiterLend
    /\ CpiAdapterJupiterLend(program)

\* measured_withdraw_delta: what the balance gained; the caller requires it
\* to be positive.
MeasuredWithdrawDelta(before, after) == after - before

\* The custody accounts a transaction supplies are those of its handoff: the
\* custody authority is the PDA of the day_tx_id and owns the token accounts.
\* The code accepts any USDC account the PDA owns; here each PDA owns one.
CustodyPinned(custody, id) == custody = id

\* A day_tx_id is single-use: its position account is not the program's yet.
PositionFree(id) == position[id].state = UNINIT

\* The claim is a floor under the measured balance.
CoversClaim(measured, claimed_principal) == measured >= claimed_principal

\* Only an active position exits; whether ingress is paused is not asked.
Exitable(id) == position[id].state = ACTIVE

\* The payout account belongs to the owner the position names.
PaysOriginOwner(recipient, id) == recipient = position[id].origin_owner

\* The requested amount is bounded by the principal on record.
WithinRemaining(amount, id) ==
    amount <= position[id].remaining_principal_micros

\* The measured proceeds meet the floor on record.
MeetsFloor(proceeds, id) == proceeds >= position[id].min_return_micros

-----------------------------------------------------------------------------
(***************************************************************************)
(* The authority's instructions on the ingress configuration.              *)
(***************************************************************************)

\* `canonical` says whether the submitted parameters equal the pinned ones.
InitializeMctpConfig(signer, canonical) ==
    /\ signer = PROTOCOL_AUTHORITY
    /\ canonical
    /\ registry_v2_exists
    /\ ~mctp_config.exists
    /\ mctp_config' = [exists |-> TRUE, ingress_paused |-> TRUE]
    /\ UNCHANGED <<registryVars, position, ledgerVars, historyVars>>

SetMctpIngressPaused(signer, paused) ==
    /\ mctp_config.exists
    /\ signer = PROTOCOL_AUTHORITY
    /\ mctp_config' = [mctp_config EXCEPT !.ingress_paused = paused]
    /\ UNCHANGED <<registryVars, position, ledgerVars, historyVars>>

(***************************************************************************)
(* ReceiveAndForwardDeposit.  The principal is what the custody account    *)
(* holds now; the relayer's claim is only a floor under it.  `custody`     *)
(* names the custody accounts the transaction supplies and `deposited`     *)
(* what the venue takes from them.                                         *)
(***************************************************************************)
ReceiveAndForwardDeposit(id, origin, adapter_id, program, custody, claim, min_return, deposited) ==
    LET measured      == custody_usdc[custody]
        custody_after == measured - deposited
    IN
    /\ mctp_config.exists
    /\ ~mctp_config.ingress_paused
    /\ OriginRecordValid(origin)
    /\ claim # 0
    /\ SolanaOriginOwner(origin.owner)
    /\ CustodyPinned(custody, id)
    /\ PositionFree(id)
    /\ measured # 0
    /\ CoversClaim(measured, claim)
    /\ registry_v2_exists
    /\ adapter_id = JupiterLend
    /\ CpiJupiterLend(adapter_id, program)
    /\ custody_after = 0
    /\ deposited # 0
    /\ custody_usdc' = [custody_usdc EXCEPT ![custody] = custody_after]
    /\ venue' = [venue EXCEPT ![custody] = @ + deposited]
    /\ position' = [position EXCEPT ![id] =
                        [state                      |-> ACTIVE,
                         origin_owner               |-> origin.owner,
                         adapter_id                 |-> adapter_id,
                         adapter_program            |-> program,
                         principal_micros           |-> deposited,
                         remaining_principal_micros |-> deposited,
                         min_return_micros          |-> min_return]]
    /\ claimed' = [claimed EXCEPT ![id] = claim]
    /\ UNCHANGED <<registryVars, mctp_config, payouts, delivered, drift>>

(***************************************************************************)
(* ExitHandoffToOrigin.  The venue is asked for `amount` and pays          *)
(* `pulled` into the custody account; the increase measured there goes to  *)
(* the payout account, which belongs to `recipient`.  Whatever the amount  *)
(* was, the position is then a tombstone.                                  *)
(***************************************************************************)
ExitHandoffToOrigin(id, custody, recipient, program, amount, pulled) ==
    LET before   == custody_usdc[custody]
        after    == before + pulled
        proceeds == MeasuredWithdrawDelta(before, after)
        after_transfer == after - proceeds
    IN
    /\ Exitable(id)
    /\ CustodyPinned(custody, id)
    /\ program = position[id].adapter_program
    /\ PaysOriginOwner(recipient, id)
    /\ amount # 0
    /\ WithinRemaining(amount, id)
    /\ position[id].adapter_id = JupiterLend
    /\ registry_v2_exists
    /\ CpiJupiterLend(position[id].adapter_id, program)
    /\ amount <= venue[custody]
    /\ proceeds > 0
    /\ MeetsFloor(proceeds, id)
    /\ after_transfer = before
    /\ venue' = [venue EXCEPT ![custody] = @ - amount]
    /\ custody_usdc' = [custody_usdc EXCEPT ![custody] = after_transfer]
    /\ payouts' = [payouts EXCEPT ![id][recipient] = @ + proceeds]
    /\ position' = [position EXCEPT ![id].remaining_principal_micros = 0,
                                    ![id].state = EXITED]
    /\ drift' = [drift EXCEPT ![custody] = @ - (amount - pulled)]
    /\ UNCHANGED <<registryVars, mctp_config, delivered, claimed>>

-----------------------------------------------------------------------------
(***************************************************************************)
(* The environment: any rail may deliver to a custody account at any time, *)
(* whatever has become of the handoff; the venue's share price moves.      *)
(***************************************************************************)

Deliver(id, amount) ==
    /\ delivered[id] + amount <= MaxMicros
    /\ delivered' = [delivered EXCEPT ![id] = @ + amount]
    /\ custody_usdc' = [custody_usdc EXCEPT ![id] = @ + amount]
    /\ UNCHANGED <<registryVars, mctp_config, position, venue, payouts,
                   drift, claimed>>

VenueRevalue(id, change) ==
    /\ venue[id] # 0
    /\ drift[id] + change \in -MaxDrift..MaxDrift
    /\ drift' = [drift EXCEPT ![id] = @ + change]
    /\ venue' = [venue EXCEPT ![id] = @ + change]
    /\ UNCHANGED <<registryVars, mctp_config, position, custody_usdc, payouts,
                   delivered, claimed>>

-----------------------------------------------------------------------------

AuthorityStep ==
    \/ RegistryNext /\ UNCHANGED handoffVars
    \/ \E signer \in Signers, flag \in BOOLEAN :
        \/ InitializeMctpConfig(signer, flag)
        \/ SetMctpIngressPaused(signer, flag)

\* A relayer's entry with whatever parameters and accounts it supplies.
Receive(id) ==
    \E origin \in OriginRecords, adapter_id \in AdapterIds,
       program \in Programs, custody \in DayTxIds,
       claimed_principal, min_return, deposited \in Micros :
        ReceiveAndForwardDeposit(id, origin, adapter_id, program, custody,
                                 claimed_principal, min_return, deposited)

\* Anybody's exit.  Only a payable key owns the payout account, and the venue
\* pays at most MaxShortfall less than what is asked of it.
Exit(id) ==
    \E custody \in DayTxIds, recipient \in Owners, program \in Programs,
       amount \in Micros :
        \E pulled \in {paid \in Micros : /\ paid <= amount
                                         /\ amount <= paid + MaxShortfall} :
            ExitHandoffToOrigin(id, custody, recipient, program, amount, pulled)

Environment ==
    \E id \in DayTxIds :
        \/ \E amount \in Micros \ {0} : Deliver(id, amount)
        \/ \E change \in {-1, 1} : VenueRevalue(id, change)

Next ==
    \/ AuthorityStep
    \/ \E id \in DayTxIds : Receive(id)
    \/ \E id \in DayTxIds : Exit(id)
    \/ Environment

Spec == Init /\ [][Next]_vars

(***************************************************************************)
(* Both instructions are permissionless, so a relayer that loses a race or *)
(* meets a transient error retries, and the owner can act for itself: an   *)
(* entry or exit that stays possible is eventually made.  Nothing is       *)
(* assumed of the authority, the bridge or the venue.                      *)
(***************************************************************************)
FairSpec ==
    /\ Spec
    /\ \A id \in DayTxIds : WF_vars(Receive(id)) /\ WF_vars(Exit(id))
-----------------------------------------------------------------------------
(***************************************************************************)
(* Properties.                                                             *)
(***************************************************************************)

Opened(id) == position[id].state # UNINIT
Active(id) == position[id].state = ACTIVE
Exited(id) == position[id].state = EXITED

\* What a handoff has paid to the owner its position names.
Paid(id) == payouts[id][position[id].origin_owner]

(***************************************************************************)
(* The measured balances account for every micro, per handoff: what was    *)
(* delivered and not taken as principal is still in the handoff's own      *)
(* custody account, and what was taken, with the venue's gains and losses, *)
(* is still behind the handoff's own receipts or was paid to its owner.    *)
(* So no handoff is ever funded from, or paid out of, another's custody,   *)
(* and the principal on record is the amount measured, never the claim,    *)
(* which is only a floor under it.                                         *)
(***************************************************************************)
BooksBalance ==
    \A id \in DayTxIds :
        /\ custody_usdc[id] + position[id].principal_micros = delivered[id]
        /\ venue[id] + Paid(id) = position[id].principal_micros + drift[id]
        /\ Opened(id) => /\ claimed[id] > 0
                         /\ claimed[id] <= position[id].principal_micros

(***************************************************************************)
(* Destination lock: USDC of a handoff reaches nobody but the origin owner *)
(* its position records, and only by an exit; one exit pays within the     *)
(* recorded floor and principal, whatever amount the relayer asked for and *)
(* whatever the venue paid.                                                *)
(***************************************************************************)
DestinationLocked ==
    \A id \in DayTxIds :
        /\ \A key \in OwnerKeys :
            payouts[id][key] > 0 =>
                /\ Exited(id)
                /\ key = position[id].origin_owner
                /\ key \in Owners
        /\ Exited(id) =>
            /\ Paid(id) > 0
            /\ position[id].min_return_micros <= Paid(id)
            /\ Paid(id) <= position[id].principal_micros

(***************************************************************************)
(* The binding an exit needs outlives the entry that relied on it: as long *)
(* as a position is active, the registry still binds its adapter to the    *)
(* very program that minted its shares, so the adapter_program pin of      *)
(* process_exit_handoff_to_origin can only ever wait for the active flag.  *)
(***************************************************************************)
ExitBindingKept ==
    \A id \in DayTxIds :
        Active(id) =>
            /\ Registered(position[id].adapter_id)
            /\ registry_v2[FindIndex(position[id].adapter_id)].protocol_program
                    = position[id].adapter_program
            /\ position[id].remaining_principal_micros
                    = position[id].principal_micros

(***************************************************************************)
(* A day_tx_id is globally single-use: a position is opened once, is       *)
(* exited once, and its binding (owner, adapter, program, principal and    *)
(* floor) never changes once it is written, through redeliveries, replayed *)
(* entries and registry changes.                                           *)
(***************************************************************************)
Binding(p) ==
    <<p.origin_owner, p.adapter_id, p.adapter_program, p.principal_micros,
      p.min_return_micros>>

PositionsKept ==
    \A id \in DayTxIds :
        Opened(id) => /\ position'[id].state >= position[id].state
                      /\ Binding(position'[id]) = Binding(position[id])
                      /\ Exited(id) => position'[id] = position[id]

SingleUse == [][PositionsKept]_vars

(***************************************************************************)
(* What the invariants above rest on: nothing is attributed to a handoff   *)
(* before its position is opened, and recorded amounts are within what can *)
(* be delivered.  With them the invariants are inductive.                  *)
(***************************************************************************)
UntouchedUntilOpened ==
    \A id \in DayTxIds :
        ~Opened(id) => /\ position[id] = NoPosition
                       /\ venue[id] = 0

WithinMicros ==
    \A id \in DayTxIds :
        /\ delivered[id] \in Micros
        /\ position[id].min_return_micros \in Micros

IInv ==
    /\ TypeOK
    /\ OneSlotPerAdapter
    /\ BooksBalance
    /\ DestinationLocked
    /\ ExitBindingKept
    /\ UntouchedUntilOpened
    /\ WithinMicros

(***************************************************************************)
(* Handoffs implement the promise made to their owners.                    *)
(***************************************************************************)
Phase(id) == IF position[id].state = UNINIT THEN "new"
             ELSE IF position[id].state = ACTIVE THEN "open" ELSE "closed"

Promise == INSTANCE HandoffPromise WITH
    phase    <- [id \in DayTxIds |-> Phase(id)],
    holder   <- [id \in DayTxIds |-> position[id].origin_owner],
    stake    <- [id \in DayTxIds |-> position[id].principal_micros],
    floor    <- [id \in DayTxIds |-> position[id].min_return_micros],
    returned <- payouts

KeepsPromise == Promise!Spec

(***************************************************************************)
(* Liveness.  The adapter is usable when the registry lets its program be  *)
(* invoked; a position can be recovered when its owner is payable and some *)
(* amount the venue can pay meets the floor however short the venue falls. *)
(***************************************************************************)
AdapterUsable ==
    registry_v2_exists /\ CpiJupiterLend(JupiterLend, JupiterEarnProgram)

Recoverable(id) ==
    /\ position[id].origin_owner \in Owners
    /\ \E amount \in Micros :
        /\ amount <= position[id].remaining_principal_micros
        /\ amount <= venue[id]
        /\ amount > MaxShortfall
        /\ amount >= position[id].min_return_micros + MaxShortfall

IngressOpen == mctp_config.exists /\ ~mctp_config.ingress_paused

(***************************************************************************)
(* Pause blocks entry, never exit: a position that stays recoverable, with *)
(* its adapter left usable, is exited, however often ingress is paused and *)
(* whatever else is delivered to its custody account.                      *)
(***************************************************************************)
OwnersExit ==
    \A id \in DayTxIds :
        <>[](Active(id) => AdapterUsable /\ Recoverable(id))
            => (Active(id) ~> Exited(id))

(***************************************************************************)
(* What is delivered before a position is opened is put to work whole:     *)
(* once ingress stays open and the adapter usable, a balance in custody,   *)
(* whatever its amount and in however many parts it came, is followed by   *)
(* an open position and an empty custody account.  Of a part that comes    *)
(* after the receive this says nothing: no instruction takes it out of     *)
(* custody again (LateDeliveryStays, of HandoffProofs).                    *)
(***************************************************************************)
DeliveryPositioned ==
    \A id \in DayTxIds :
        <>[](IngressOpen /\ AdapterUsable)
            => ((~Opened(id) /\ custody_usdc[id] > 0)
                    ~> (Opened(id) /\ custody_usdc[id] = 0))
=============================================================================

---------------------------- MODULE ForwardRouter ---------------------------
(***************************************************************************)
(* The forward router of the Solana day_router program: the accounts the   *)
(* authority creates for it, ForwardDeposit and ForwardWithdraw with the   *)
(* adapter arms they dispatch to, and the authority's recovery.            *)
(*                                                                         *)
(* An instruction is atomic, so each handler is one action, and what       *)
(* interleaves is transactions.  All token accounts are of one mint, and   *)
(* token accounts are named by the key that owns them.  The router's       *)
(* paused flag is left out: no instruction of the program sets it.         *)
(***************************************************************************)
EXTENDS RegistryV2, Integers

CONSTANTS
    Owners,             \* keys that submit forwards
    RouterPda,          \* the yield_router PDA
    ArmOf,              \* the dispatch arm of each adapter id
    PinnedProgram,      \* the program each arm is compiled for
    Requests,           \* what clients hand to the arms
    Claims,             \* what clients claim in a ForwardWithdraw
    Amounts,            \* amounts the outer instructions name
    FeeRates,           \* profit-fee rates the authority tries
    PROFIT_FEE_BPS_DEFAULT,
    MAX_PROFIT_FEE_BPS,
    Supply,             \* tokens each owner starts with
    MaxShortfall        \* bound on what a venue keeps of a withdrawal

Arms == {"kamino", "marginfi", "jupiter_lend", "save"}

\* What the router or an owner can hold: tokens of the mint, KLend obligations,
\* Marginfi accounts, and the receipt tokens of the two remaining venues.
SplAssets == {"liquidity", "jupiter_lend", "save"}
Assets == {"liquidity"} \cup Arms

Holders == Owners \cup {PROTOCOL_AUTHORITY, RouterPda}

Pdas == {"registry", "yield_router", "fee_config", "marginfi_account"}

(***************************************************************************)
(* The adapter's part of a forward: the discriminator or tag of the        *)
(* payload and its amount, the account list whose pinned slots the metas   *)
(* match, the key in the signer slot, and the holder of the token account  *)
(* in the destination slot.                                                *)
(***************************************************************************)
Request ==
    [direction : {"deposit", "withdraw", "unknown"},
     amount    : Nat,
     layout    : {"deposit", "withdraw", "unpinned"},
     authority : Holders,
     dest      : Holders]

Claim ==
    [amount_micros   : Nat,
     realized_profit : Nat,
     treasury_token  : Holders,
     owner_token     : Holders]

ASSUME ForwardAssumption ==
    /\ Owners \subseteq Signers
    /\ RouterPda \notin Signers
    /\ ArmOf \in [AdapterIds -> Arms \cup {"unknown"}]
    /\ PinnedProgram \in [Arms -> Programs]
    /\ Requests \subseteq Request
    /\ Claims \subseteq Claim
    /\ Amounts \subseteq Nat
    /\ FeeRates \subseteq Nat
    /\ PROFIT_FEE_BPS_DEFAULT \in Nat
    /\ MAX_PROFIT_FEE_BPS \in Nat
    /\ Supply \in [Owners -> Nat]
    /\ MaxShortfall \in Nat

VARIABLES
    account,           \* per PDA: absent, prefunded with lamports, or owned
    profit_fee,        \* rate and switch of the fee configuration
    balance,           \* what each holder has of each asset
    marginfi_reported, \* sum of the amounts logged for Marginfi deposits
    last_withdraw      \* owner and measure logged, if the last was a withdrawal

forwardVars == <<account, profit_fee, balance, marginfi_reported, last_withdraw>>
vars == <<registryVars, forwardVars>>

NoWithdraw == [owner |-> RouterPda, measured |-> 0]

ForwardTypeOK ==
    /\ RegistryTypeOK
    /\ account \in [Pdas -> {"absent", "prefunded", "owned"}]
    /\ profit_fee \in [profit_fee_bps : Nat, enabled : BOOLEAN]
    /\ balance \in [Assets -> [Holders -> Nat]]
    /\ marginfi_reported \in Nat
    /\ last_withdraw \in [owner : Owners, measured : Nat] \cup {NoWithdraw}

ForwardInit ==
    /\ account = [pda \in Pdas |-> "absent"]
    /\ profit_fee = [profit_fee_bps |-> 0, enabled |-> FALSE]
    /\ balance = [asset \in Assets |-> [holder \in Holders |->
                    IF asset = "liquidity" /\ holder \in Owners
                    THEN Supply[holder]
                    ELSE 0]]
    /\ marginfi_reported = 0
    /\ last_withdraw = NoWithdraw

Init == RegistryInit /\ ForwardInit

-----------------------------------------------------------------------------
(***************************************************************************)
(* Slips the properties below tell apart from the code: a prefunded        *)
(* address refused, the outer amount not compared, an arm that trusts the  *)
(* registry for its program, Kamino fed from the router as the other arms  *)
(* are, the withdrawal gate opened to receipt venues, a recovery of more   *)
(* than there is.                                                          *)
(***************************************************************************)

CreatableUnfunded(pda) == account[pda] = "absent"

AnyForwardAmount(arm, amount, request) == TRUE

PinnedByRegistry(arm, program) == arm \in Arms

RouterPays(owner) == RouterPda

AnyWiredArm(arm) == arm \in Arms

AnyRecovery(asset, amount) == amount > 0

-----------------------------------------------------------------------------
(***************************************************************************)
(* The router's own accounts.                                              *)
(***************************************************************************)

\* An address that only holds lamports is still topped up and assigned.
Creatable(pda) == account[pda] # "owned"

Initialize(signer) ==
    /\ signer = PROTOCOL_AUTHORITY
    /\ Creatable("registry") /\ Creatable("yield_router")
    /\ account' = [account EXCEPT !["registry"] = "owned",
                                  !["yield_router"] = "owned"]
    /\ last_withdraw' = NoWithdraw
    /\ UNCHANGED <<profit_fee, balance, marginfi_reported>>

InitFeeConfig(signer) ==
    /\ signer = PROTOCOL_AUTHORITY
    /\ Creatable("fee_config")
    /\ account' = [account EXCEPT !["fee_config"] = "owned"]
    /\ profit_fee' = [profit_fee_bps |-> PROFIT_FEE_BPS_DEFAULT,
                    enabled        |-> FALSE]
    /\ last_withdraw' = NoWithdraw
    /\ UNCHANGED <<balance, marginfi_reported>>

SetProfitFee(signer, bps, enabled) ==
    /\ account["fee_config"] = "owned"
    /\ signer = PROTOCOL_AUTHORITY
    /\ bps <= MAX_PROFIT_FEE_BPS
    /\ ~enabled
    /\ profit_fee' = [profit_fee_bps |-> bps, enabled |-> enabled]
    /\ last_withdraw' = NoWithdraw
    /\ UNCHANGED <<account, balance, marginfi_reported>>

-----------------------------------------------------------------------------
(***************************************************************************)
(* What a CPI can leave behind: a set of balances, empty if it is refused. *)
(* SPL lets the signing authority's tokens move and no others.             *)
(***************************************************************************)

Deposited(arm, payer, holder, amount) ==
    IF balance["liquidity"][payer] < amount THEN {}
    ELSE {[balance EXCEPT !["liquidity"][payer] = @ - amount,
                          ![arm][holder] = @ + amount]}

\* A venue burns the receipts asked for and may pay a little less, or nothing.
Withdrawn(arm, holder, dest, amount) ==
    IF balance[arm][holder] < amount THEN {}
    ELSE {[balance EXCEPT ![arm][holder] = @ - amount,
                          !["liquidity"][dest] = @ + amount - kept] :
            kept \in 0..(IF amount < MaxShortfall THEN amount ELSE MaxShortfall)}

\* The account list is the one of the payload's direction, every pin matching.
\* Amounts are exact: the flag a Marginfi payload of 17 bytes ends with, which
\* lets the bank take less than the amount and which no check looks at, is not
\* modelled (see MarginfiReported).
WellFormed(request, direction) ==
    /\ request.direction = direction
    /\ request.layout = direction
    /\ request.amount > 0

-----------------------------------------------------------------------------
(***************************************************************************)
(* The arms.  Kamino is signed by the owner, whose own token account pays  *)
(* and is paid: KLend holds both to the obligation's owner.  The others    *)
(* are signed by the router PDA, so its token accounts pay; of the         *)
(* destination slot of Save and Jupiter Lend only the mint is bound.       *)
(***************************************************************************)

KaminoPayer(owner) == owner

CpiAdapterKamino(owner, request) ==
    IF request.authority # owner THEN {}
    ELSE IF WellFormed(request, "deposit")
         THEN Deposited("kamino", KaminoPayer(owner), owner, request.amount)
    ELSE IF WellFormed(request, "withdraw") /\ request.dest = owner
         THEN Withdrawn("kamino", owner, owner, request.amount)
    ELSE {}

\* The canonical account is created on first use; lamports alone do not make it.
MarginfiAccountUsable == account["marginfi_account"] \in {"absent", "owned"}

\* One canonical account, one source account per bank, and no withdrawal.
CpiAdapterMarginfi(request) ==
    IF /\ WellFormed(request, "deposit")
       /\ request.authority = RouterPda
       /\ MarginfiAccountUsable
    THEN Deposited("marginfi", RouterPda, RouterPda, request.amount)
    ELSE {}

JupiterLendDeposit(request) ==
    IF WellFormed(request, "deposit")
    THEN Deposited("jupiter_lend", RouterPda, request.dest, request.amount)
    ELSE {}

JupiterLendWithdraw(request) ==
    IF WellFormed(request, "withdraw")
    THEN Withdrawn("jupiter_lend", RouterPda, request.dest, request.amount)
    ELSE {}

CpiAdapterJupiterLend(request) ==
    IF request.authority # RouterPda THEN {}
    ELSE JupiterLendDeposit(request) \cup JupiterLendWithdraw(request)

SaveDeposit(request) ==
    IF WellFormed(request, "deposit")
    THEN Deposited("save", RouterPda, request.dest, request.amount)
    ELSE {}

SaveRedeem(request) ==
    IF WellFormed(request, "withdraw")
    THEN Withdrawn("save", RouterPda, request.dest, request.amount)
    ELSE {}

CpiAdapterSave(request) ==
    IF request.authority # RouterPda THEN {}
    ELSE SaveDeposit(request) \cup SaveRedeem(request)

\* Each arm checks again, against its own constant, what the registry said.
ProgramPin(arm, program) == arm \in Arms /\ program = PinnedProgram[arm]

CpiProtocolAdapter(arm, program, owner, request) ==
    IF ~ProgramPin(arm, program) THEN {}
    ELSE CASE arm = "kamino"       -> CpiAdapterKamino(owner, request)
           [] arm = "marginfi"     -> CpiAdapterMarginfi(request)
           [] arm = "jupiter_lend" -> CpiAdapterJupiterLend(request)
           [] arm = "save"         -> CpiAdapterSave(request)

-----------------------------------------------------------------------------
(***************************************************************************)
(* ForwardDeposit.  Which way an arm moves is the payload's to say, not    *)
(* the instruction's; only Marginfi has its amount compared.               *)
(***************************************************************************)

ForwardAmountBound(arm, amount, request) ==
    arm = "marginfi" => /\ WellFormed(request, "deposit")
                        /\ request.amount = amount

ForwardDeposit(owner, adapter_id, program, amount_micros) ==
    LET arm == ArmOf[adapter_id]
    IN  /\ amount_micros > 0
        /\ registry_v2_exists
        /\ account["yield_router"] = "owned"
        /\ ValidateProtocolProgram(adapter_id, program)
        /\ \E request \in Requests :
            /\ ForwardAmountBound(arm, amount_micros, request)
            /\ balance' \in CpiProtocolAdapter(arm, program, owner, request)
        /\ account' = IF arm = "marginfi"
                      THEN [account EXCEPT !["marginfi_account"] = "owned"]
                      ELSE account
        /\ marginfi_reported' = IF arm = "marginfi"
                                THEN marginfi_reported + amount_micros
                                ELSE marginfi_reported
        /\ last_withdraw' = NoWithdraw
        /\ UNCHANGED <<registryVars, profit_fee>>

-----------------------------------------------------------------------------
(***************************************************************************)
(* ForwardWithdraw.                                                        *)
(***************************************************************************)

\* Receipt venues have no record of whose the router's receipts are.
ForwardWithdrawOwnerBinding(arm) == arm = "kamino"

\* Neither the caller's amount nor its profit may authorise a transfer.
LegacyClaimsQuarantined(claim) ==
    /\ claim.amount_micros = 0
    /\ ~profit_fee.enabled
    /\ claim.realized_profit = 0

PayoutAccountsBound(owner, claim) ==
    /\ claim.treasury_token = PROTOCOL_AUTHORITY
    /\ claim.owner_token = owner

\* Kamino pays the owner; any other arm would pay the router, which passes on
\* what it measured and no more.
PaidOut(arm, owner, after, measured) ==
    IF arm = "kamino" THEN after
    ELSE [after EXCEPT !["liquidity"][RouterPda] = @ - measured,
                       !["liquidity"][owner] = @ + measured]

ForwardWithdraw(owner, adapter_id, program, claim) ==
    LET arm   == ArmOf[adapter_id]
        payee == IF arm = "kamino" THEN owner ELSE RouterPda
    IN  /\ ForwardWithdrawOwnerBinding(arm)
        /\ registry_v2_exists
        /\ account["yield_router"] = "owned"
        /\ account["fee_config"] = "owned"
        /\ ValidateProtocolProgram(adapter_id, program)
        /\ PayoutAccountsBound(owner, claim)
        /\ LegacyClaimsQuarantined(claim)
        /\ \E request \in Requests :
            /\ arm = "kamino" => /\ request.authority = owner
                                 /\ request.dest = claim.owner_token
            /\ \E after \in CpiProtocolAdapter(arm, program, owner, request) :
                LET measured ==
                        after["liquidity"][payee] - balance["liquidity"][payee]
                IN  /\ measured > 0
                    /\ balance' = PaidOut(arm, owner, after, measured)
                    /\ last_withdraw' = [owner |-> owner, measured |-> measured]
        /\ UNCHANGED <<registryVars, account, profit_fee, marginfi_reported>>

-----------------------------------------------------------------------------
(***************************************************************************)
(* AuthorityRecoverRouterToken: any token account of the router, in full   *)
(* when no amount is named.                                                *)
(***************************************************************************)

Recoverable(asset, amount) ==
    amount > 0 /\ amount <= balance[asset][RouterPda]

AuthorityRecoverRouterToken(signer, asset, amount_micros, dest) ==
    LET held   == balance[asset][RouterPda]
        amount == IF amount_micros = 0 THEN held ELSE amount_micros
    IN  /\ signer = PROTOCOL_AUTHORITY
        /\ account["yield_router"] = "owned"
        /\ dest = PROTOCOL_AUTHORITY
        /\ Recoverable(asset, amount)
        /\ balance' = [balance EXCEPT ![asset][RouterPda] = @ - amount,
                                      ![asset][dest] = @ + amount]
        /\ last_withdraw' = NoWithdraw
        /\ UNCHANGED <<registryVars, account, profit_fee, marginfi_reported>>

-----------------------------------------------------------------------------
(***************************************************************************)
(* External: lamports sent to an address that is not created yet, and a    *)
(* transfer to the router's token account ahead of a ForwardDeposit.       *)
(***************************************************************************)

Prefund(pda) ==
    /\ account[pda] = "absent"
    /\ account' = [account EXCEPT ![pda] = "prefunded"]
    /\ last_withdraw' = NoWithdraw
    /\ UNCHANGED <<registryVars, profit_fee, balance, marginfi_reported>>

FundRouter(owner, asset) ==
    /\ balance[asset][owner] > 0
    /\ balance' = [balance EXCEPT ![asset][owner] = @ - 1,
                                  ![asset][RouterPda] = @ + 1]
    /\ last_withdraw' = NoWithdraw
    /\ UNCHANGED <<registryVars, account, profit_fee, marginfi_reported>>

-----------------------------------------------------------------------------

AdminNext ==
    \E signer \in Signers :
        \/ Initialize(signer)
        \/ InitFeeConfig(signer)
        \/ \E bps \in FeeRates, enabled \in BOOLEAN :
            SetProfitFee(signer, bps, enabled)

ForwardNext ==
    \/ \E owner \in Owners, adapter_id \in AdapterIds, program \in Programs :
        \/ \E amount \in Amounts :
            ForwardDeposit(owner, adapter_id, program, amount)
        \/ \E claim \in Claims :
            ForwardWithdraw(owner, adapter_id, program, claim)
    \/ \E signer \in Signers, asset \in SplAssets, amount \in Amounts,
          dest \in Holders :
        AuthorityRecoverRouterToken(signer, asset, amount, dest)

EnvironmentNext ==
    \/ \E pda \in Pdas : Prefund(pda)
    \/ \E owner \in Owners, asset \in SplAssets : FundRouter(owner, asset)

Next ==
    \/ /\ RegistryNext
       /\ last_withdraw' = NoWithdraw
       /\ UNCHANGED <<account, profit_fee, balance, marginfi_reported>>
    \/ AdminNext /\ UNCHANGED registryVars
    \/ ForwardNext
    \/ EnvironmentNext

Spec == Init /\ [][Next]_vars

(***************************************************************************)
(* The authority sends its set-up instructions until they land.            *)
(***************************************************************************)
SetUp ==
    /\ WF_vars(Initialize(PROTOCOL_AUTHORITY) /\ UNCHANGED registryVars)
    /\ WF_vars(InitFeeConfig(PROTOCOL_AUTHORITY) /\ UNCHANGED registryVars)

FairSpec == Spec /\ SetUp

-----------------------------------------------------------------------------

(***************************************************************************)
(* What the program logged as deposited through Marginfi is what the       *)
(* router's one Marginfi account holds: the arm deposits the amount of its *)
(* payload, the log names the amount of the outer instruction, and only    *)
(* assert_marginfi_forward_deposit_amount ties the two together.  This is  *)
(* of deposits that a bank takes in full: with deposit_up_to_limit set, a  *)
(* byte the program never reads, a bank near its cap may take less than    *)
(* what is logged.                                                         *)
(***************************************************************************)
MarginfiReported == marginfi_reported = balance["marginfi"][RouterPda]

(***************************************************************************)
(* A ForwardWithdraw pays its signer exactly what it measured, never       *)
(* nothing, and takes from no one else: not from another owner, not from   *)
(* the router's shared accounts, and no fee for the treasury.  The payload *)
(* may be a deposit and the venue may pay short, and it still holds.       *)
(***************************************************************************)
PaysWhatItMeasured ==
    last_withdraw' # NoWithdraw =>
        LET owner == last_withdraw'.owner
        IN  /\ last_withdraw'.measured > 0
            /\ balance'["liquidity"][owner] =
                balance["liquidity"][owner] + last_withdraw'.measured
            /\ \A asset \in Assets, holder \in Holders \ {owner} :
                balance'[asset][holder] = balance[asset][holder]

WithdrawPaysOwner == [][PaysWhatItMeasured]_vars

(***************************************************************************)
(* Whatever the router PDA gives up, it gives to the authority's recovery  *)
(* or to a venue whose adapter is registered, active, and bound to the     *)
(* very program the arm is compiled for.  Its tokens become a position     *)
(* there of the same amount, and a user gets none of them.  Its receipts   *)
(* are redeemed for no more than they stand for, in one payment: whom it   *)
(* goes to is the caller's choice, so it may be a user (ForwardClaims      *)
(* states what the repository says of that).                               *)
(***************************************************************************)
Usable(arm) ==
    \E i \in 1..Len(registry_v2) :
        /\ ArmOf[registry_v2[i].adapter_id] = arm
        /\ registry_v2[i].active
        /\ registry_v2[i].protocol_program = PinnedProgram[arm]

Gain(asset, holder) == balance'[asset][holder] - balance[asset][holder]

BecomesPosition(amount) ==
    /\ \A owner \in Owners : Gain("liquidity", owner) = 0
    /\ \E arm \in Arms, holder \in Holders :
        Usable(arm) /\ Gain(arm, holder) = amount

RedeemedOnce(amount) ==
    \E dest \in Holders :
        /\ Gain("liquidity", dest) \in 0..amount
        /\ \A holder \in Holders \ {dest} : Gain("liquidity", holder) = 0

RouterSpendsAsBound ==
    \A asset \in Assets :
        LET spent == - Gain(asset, RouterPda)
        IN  spent > 0 =>
                \/ Gain(asset, PROTOCOL_AUTHORITY) = spent
                \/ asset = "liquidity" /\ BecomesPosition(spent)
                \/ asset \in Arms /\ Usable(asset) /\ RedeemedOnce(spent)

RouterSpendsOnlyAsBound == [][RouterSpendsAsBound]_vars

(***************************************************************************)
(* A Kamino position is its owner's from end to end: when it changes,      *)
(* nothing of anybody else does, so neither the router's shared accounts   *)
(* nor another owner stand between the owner and KLend.                    *)
(***************************************************************************)
KaminoStaysWithOwner ==
    \A owner \in Owners :
        Gain("kamino", owner) # 0 =>
            \A asset \in Assets, holder \in Holders \ {owner} :
                Gain(asset, holder) = 0

KaminoOwnerRooted == [][KaminoStaysWithOwner]_vars

(***************************************************************************)
(* Lamports sent to the router's addresses before they are created do not  *)
(* stop the authority from creating them (process_initialize and           *)
(* create_pda_account say so).                                             *)
(***************************************************************************)
PrefundNeverBlocks ==
    /\ <>(account["yield_router"] = "owned")
    /\ <>(account["fee_config"] = "owned")
=============================================================================

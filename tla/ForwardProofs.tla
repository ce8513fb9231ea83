---------------------------- MODULE ForwardProofs ---------------------------
(***************************************************************************)
(* Proofs about ForwardRouter, for any owners, adapters, requests, claims  *)
(* and amounts.                                                            *)
(***************************************************************************)
EXTENDS ForwardRouter, RegistryV2Proofs, TLAPS

Balances == [Assets -> [Holders -> Nat]]

-----------------------------------------------------------------------------
(***************************************************************************)
(* What the two movements of a venue do, holder by holder.                 *)
(***************************************************************************)

\* A deposit takes from the payer's tokens and adds to the holder's position.
LEMMA DepositMoves ==
    ASSUME balance \in Balances,
           NEW arm \in Arms, NEW payer \in Holders, NEW holder \in Holders,
           NEW amount \in Nat, NEW after \in Deposited(arm, payer, holder, amount)
    PROVE  /\ after \in Balances
           /\ after["liquidity"][payer] = balance["liquidity"][payer] - amount
           /\ after[arm][holder] = balance[arm][holder] + amount
           /\ \A other \in Holders \ {payer} :
                after["liquidity"][other] = balance["liquidity"][other]
           /\ \A other \in Holders \ {holder} :
                after[arm][other] = balance[arm][other]
           /\ \A asset \in Assets \ {"liquidity", arm} :
                after[asset] = balance[asset]
  <1>1. /\ balance["liquidity"][payer] >= amount
        /\ after = [balance EXCEPT !["liquidity"][payer] = @ - amount,
                                   ![arm][holder] = @ + amount]
    BY DEF Deposited, Balances, Assets
  <1>2. arm # "liquidity" /\ arm \in Assets /\ "liquidity" \in Assets
    BY DEF Arms, Assets
  <1>3. after = [[balance EXCEPT !["liquidity"] =
                    [balance["liquidity"] EXCEPT ![payer] = @ - amount]]
                  EXCEPT ![arm] = [balance[arm] EXCEPT ![holder] = @ + amount]]
    BY <1>1, <1>2 DEF Balances
  <1>4. /\ [balance["liquidity"] EXCEPT ![payer] = @ - amount] \in [Holders -> Nat]
        /\ [balance[arm] EXCEPT ![holder] = @ + amount] \in [Holders -> Nat]
    BY <1>1, <1>2 DEF Balances
  <1>5. /\ after \in Balances
        /\ after["liquidity"] = [balance["liquidity"] EXCEPT ![payer] = @ - amount]
        /\ after[arm] = [balance[arm] EXCEPT ![holder] = @ + amount]
        /\ \A asset \in Assets \ {"liquidity", arm} : after[asset] = balance[asset]
    BY <1>2, <1>3, <1>4 DEF Balances
  <1>6. balance["liquidity"] \in [Holders -> Nat] /\ balance[arm] \in [Holders -> Nat]
    BY <1>2 DEF Balances
  <1> QED
    BY <1>5, <1>6

\* A withdrawal burns the holder's position and pays at most as much.
LEMMA WithdrawMoves ==
    ASSUME balance \in Balances, MaxShortfall \in Nat,
           NEW arm \in Arms, NEW holder \in Holders, NEW dest \in Holders,
           NEW amount \in Nat, NEW after \in Withdrawn(arm, holder, dest, amount)
    PROVE  /\ after \in Balances
           /\ after["liquidity"][dest] >= balance["liquidity"][dest]
           /\ after["liquidity"][dest] <= balance["liquidity"][dest] + amount
           /\ after[arm][holder] = balance[arm][holder] - amount
           /\ \A other \in Holders \ {dest} :
                after["liquidity"][other] = balance["liquidity"][other]
           /\ \A other \in Holders \ {holder} :
                after[arm][other] = balance[arm][other]
           /\ \A asset \in Assets \ {"liquidity", arm} :
                after[asset] = balance[asset]
  <1>1. PICK kept \in 0..amount :
            after = [balance EXCEPT ![arm][holder] = @ - amount,
                                    !["liquidity"][dest] = @ + amount - kept]
    BY DEF Withdrawn
  <1>2. arm # "liquidity" /\ arm \in Assets /\ "liquidity" \in Assets
    BY DEF Arms, Assets
  <1>3. balance[arm][holder] >= amount
    BY <1>2 DEF Withdrawn, Balances
  <1>4. after = [[balance EXCEPT ![arm] = [balance[arm] EXCEPT ![holder] = @ - amount]]
                  EXCEPT !["liquidity"] =
                    [balance["liquidity"] EXCEPT ![dest] = @ + amount - kept]]
    BY <1>1, <1>2 DEF Balances
  <1>5. /\ [balance[arm] EXCEPT ![holder] = @ - amount] \in [Holders -> Nat]
        /\ [balance["liquidity"] EXCEPT ![dest] = @ + amount - kept]
                \in [Holders -> Nat]
    BY <1>1, <1>2, <1>3 DEF Balances
  <1>6. /\ after \in Balances
        /\ after["liquidity"] =
                [balance["liquidity"] EXCEPT ![dest] = @ + amount - kept]
        /\ after[arm] = [balance[arm] EXCEPT ![holder] = @ - amount]
        /\ \A asset \in Assets \ {"liquidity", arm} : after[asset] = balance[asset]
    BY <1>2, <1>4, <1>5 DEF Balances
  <1>7. balance["liquidity"] \in [Holders -> Nat] /\ balance[arm] \in [Holders -> Nat]
    BY <1>2 DEF Balances
  <1>8. kept \in Int /\ 0 <= kept /\ kept <= amount
    OBVIOUS
  <1>9. /\ after["liquidity"][dest] >= balance["liquidity"][dest]
        /\ after["liquidity"][dest] <= balance["liquidity"][dest] + amount
    BY <1>6, <1>7, <1>8
  <1> QED
    BY <1>6, <1>7, <1>9

-----------------------------------------------------------------------------
(***************************************************************************)
(* The arms: whose balances each may touch.                                *)
(***************************************************************************)

LEMMA HoldersAre ==
    /\ RouterPda \in Holders /\ PROTOCOL_AUTHORITY \in Holders
    /\ \A owner \in Owners : owner \in Holders /\ owner # RouterPda
    /\ RouterPda # PROTOCOL_AUTHORITY
  BY ForwardAssumption, RegistryAssumption DEF Holders

\* Kamino moves tokens and obligation of the owner, and nothing else.
LEMMA KaminoMoves ==
    ASSUME balance \in Balances, NEW owner \in Owners, NEW request \in Request,
           NEW after \in CpiAdapterKamino(owner, request)
    PROVE  /\ after \in Balances
           /\ \A asset \in Assets, holder \in Holders \ {owner} :
                after[asset][holder] = balance[asset][holder]
           /\ after["marginfi"] = balance["marginfi"]
  <1>1. owner \in Holders /\ request.amount \in Nat /\ MaxShortfall \in Nat
        /\ "kamino" \in Arms
    BY HoldersAre, ForwardAssumption DEF Request, Arms
  <1>2. CASE after \in Deposited("kamino", owner, owner, request.amount)
    BY <1>1, <1>2, DepositMoves DEF Assets, Arms
  <1>3. CASE after \in Withdrawn("kamino", owner, owner, request.amount)
    BY <1>1, <1>3, WithdrawMoves DEF Assets, Arms
  <1> QED
    BY <1>2, <1>3 DEF CpiAdapterKamino, KaminoPayer

\* Marginfi adds the amount of the payload to the router's account.
LEMMA MarginfiMoves ==
    ASSUME balance \in Balances, NEW request \in Request,
           NEW after \in CpiAdapterMarginfi(request)
    PROVE  /\ after \in Balances
           /\ after["marginfi"][RouterPda] =
                balance["marginfi"][RouterPda] + request.amount
           /\ after["kamino"] = balance["kamino"]
  <1>1. /\ RouterPda \in Holders /\ request.amount \in Nat /\ "marginfi" \in Arms
        /\ after \in Deposited("marginfi", RouterPda, RouterPda, request.amount)
    BY HoldersAre DEF Request, Arms, CpiAdapterMarginfi
  <1> QED
    BY <1>1, DepositMoves DEF Assets, Arms

\* Save and Jupiter Lend leave obligations and the Marginfi account alone.
LEMMA ReceiptArmMoves ==
    ASSUME balance \in Balances, NEW request \in Request, NEW after,
           \/ after \in CpiAdapterJupiterLend(request)
           \/ after \in CpiAdapterSave(request)
    PROVE  /\ after \in Balances
           /\ after["marginfi"] = balance["marginfi"]
           /\ after["kamino"] = balance["kamino"]
  <1>1. /\ RouterPda \in Holders /\ request.amount \in Nat
        /\ request.dest \in Holders /\ MaxShortfall \in Nat
    BY HoldersAre, ForwardAssumption DEF Request
  <1>2. PICK arm \in {"save", "jupiter_lend"} :
            \/ after \in Deposited(arm, RouterPda, request.dest, request.amount)
            \/ after \in Withdrawn(arm, RouterPda, request.dest, request.amount)
    BY DEF CpiAdapterJupiterLend, JupiterLendDeposit, JupiterLendWithdraw,
           CpiAdapterSave, SaveDeposit, SaveRedeem
  <1>3. /\ arm \in Arms
        /\ "marginfi" \in Assets \ {"liquidity", arm}
        /\ "kamino" \in Assets \ {"liquidity", arm}
    BY <1>2 DEF Arms, Assets
  <1>4. CASE after \in Deposited(arm, RouterPda, request.dest, request.amount)
    BY <1>1, <1>3, <1>4, DepositMoves
  <1>5. CASE after \in Withdrawn(arm, RouterPda, request.dest, request.amount)
    BY <1>1, <1>3, <1>5, WithdrawMoves
  <1> QED
    BY <1>2, <1>4, <1>5

\* What dispatch adds up to.
LEMMA CpiMoves ==
    ASSUME balance \in Balances, NEW arm, NEW program, NEW owner \in Owners,
           NEW request \in Request,
           NEW after \in CpiProtocolAdapter(arm, program, owner, request)
    PROVE  /\ after \in Balances
           /\ arm = "kamino" =>
                \A asset \in Assets, holder \in Holders \ {owner} :
                    after[asset][holder] = balance[asset][holder]
           /\ arm = "kamino" \/ after["kamino"] = balance["kamino"]
           /\ arm = "marginfi" =>
                after["marginfi"][RouterPda] =
                    balance["marginfi"][RouterPda] + request.amount
           /\ arm = "marginfi" \/ after["marginfi"] = balance["marginfi"]
  <1>1. arm \in {"kamino", "marginfi", "jupiter_lend", "save"}
    BY DEF CpiProtocolAdapter, ProgramPin, Arms
  <1>2. CASE arm = "kamino"
    <2>1. after \in CpiAdapterKamino(owner, request)
      BY <1>2 DEF CpiProtocolAdapter
    <2> QED
      BY <1>2, <2>1, KaminoMoves
  <1>3. CASE arm = "marginfi"
    <2>1. after \in CpiAdapterMarginfi(request)
      BY <1>3 DEF CpiProtocolAdapter
    <2> QED
      BY <1>3, <2>1, MarginfiMoves
  <1>4. CASE arm \in {"jupiter_lend", "save"}
    <2>1. \/ after \in CpiAdapterJupiterLend(request)
          \/ after \in CpiAdapterSave(request)
      BY <1>4 DEF CpiProtocolAdapter
    <2> QED
      BY <1>4, <2>1, ReceiptArmMoves
  <1> QED
    BY <1>1, <1>2, <1>3, <1>4

-----------------------------------------------------------------------------
(***************************************************************************)
(* The invariant, and what each instruction does to it.  The step lemmas   *)
(* also carry the action properties: an instruction is looked at once.     *)
(***************************************************************************)

Inv == RegistryInv /\ ForwardTypeOK /\ MarginfiReported

StepSafe == Inv' /\ KaminoStaysWithOwner /\ PaysWhatItMeasured

LEMMA InitInv == ASSUME Init PROVE Inv
  <1>1. RegistryInv
    BY RegistryInitInv DEF Init
  <1>2. /\ account \in [Pdas -> {"absent", "prefunded", "owned"}]
        /\ profit_fee \in [profit_fee_bps : Nat, enabled : BOOLEAN]
        /\ marginfi_reported \in Nat
        /\ last_withdraw \in [owner : Owners, measured : Nat] \cup {NoWithdraw}
    BY DEF Init, ForwardInit
  <1>3. balance \in Balances
    BY ForwardAssumption DEF Init, ForwardInit, Balances
  <1>4. MarginfiReported
    BY HoldersAre DEF Init, ForwardInit, MarginfiReported, Assets, Arms
  <1> QED
    BY <1>1, <1>2, <1>3, <1>4 DEF Inv, ForwardTypeOK, RegistryInv, Balances

\* A step that keeps registry and balances keeps everything but the types.
LEMMA QuietStep ==
    ASSUME Inv, RegistryInv',
           account' \in [Pdas -> {"absent", "prefunded", "owned"}],
           profit_fee' \in [profit_fee_bps : Nat, enabled : BOOLEAN],
           UNCHANGED <<balance, marginfi_reported>>,
           last_withdraw' = NoWithdraw
    PROVE  StepSafe
  <1>1. Inv'
    BY DEF Inv, ForwardTypeOK, MarginfiReported, RegistryInv, NoWithdraw
  <1>2. \A asset \in Assets, holder \in Holders : Gain(asset, holder) = 0
    BY DEF Inv, ForwardTypeOK, Gain
  <1>3. KaminoStaysWithOwner
    BY <1>2, HoldersAre DEF KaminoStaysWithOwner, Assets, Arms
  <1> QED
    BY <1>1, <1>3 DEF StepSafe, PaysWhatItMeasured

\* A step that moves tokens or receipts among the others, and no obligation.
LEMMA MovingStep ==
    ASSUME Inv, UNCHANGED registryVars,
           account' \in [Pdas -> {"absent", "prefunded", "owned"}],
           UNCHANGED profit_fee,
           balance' \in Balances,
           balance'["kamino"] = balance["kamino"],
           MarginfiReported', marginfi_reported' \in Nat,
           last_withdraw' = NoWithdraw
    PROVE  StepSafe
  <1>1. RegistryInv'
    BY DEF Inv, RegistryInv, RegistryTypeOK, OneSlotPerAdapter, registryVars
  <1>2. Inv'
    BY <1>1 DEF Inv, ForwardTypeOK, RegistryInv, NoWithdraw, Balances
  <1>3. \A owner \in Owners : Gain("kamino", owner) = 0
    BY HoldersAre DEF Inv, ForwardTypeOK, Gain, Assets, Arms
  <1> QED
    BY <1>2, <1>3 DEF StepSafe, KaminoStaysWithOwner, PaysWhatItMeasured

\* A step of one owner and its obligation, whoever it pays.
LEMMA KaminoStep ==
    ASSUME Inv, UNCHANGED registryVars, UNCHANGED <<account, profit_fee>>,
           UNCHANGED marginfi_reported,
           NEW owner \in Owners,
           balance' \in Balances,
           balance'["marginfi"] = balance["marginfi"],
           \A asset \in Assets, holder \in Holders \ {owner} :
                balance'[asset][holder] = balance[asset][holder],
           \/ last_withdraw' = NoWithdraw
           \/ /\ last_withdraw' =
                    [owner    |-> owner,
                     measured |-> balance'["liquidity"][owner]
                                    - balance["liquidity"][owner]]
              /\ last_withdraw'.measured > 0
    PROVE  StepSafe
  <1>1. RegistryInv'
    BY DEF Inv, RegistryInv, RegistryTypeOK, OneSlotPerAdapter, registryVars
  <1>2. /\ balance \in Balances
        /\ owner \in Holders
        /\ "liquidity" \in Assets
    BY HoldersAre DEF Inv, ForwardTypeOK, Balances, Assets
  <1>3. /\ balance'["liquidity"][owner] \in Nat
        /\ balance["liquidity"][owner] \in Nat
    BY <1>2 DEF Balances
  <1>4. last_withdraw' \in [owner : Owners, measured : Nat] \cup {NoWithdraw}
    BY <1>3
  <1>5. Inv'
    BY <1>1, <1>4
    DEF Inv, ForwardTypeOK, RegistryInv, MarginfiReported, Balances
  <1>6. \A asset \in Assets, holder \in Holders \ {owner} :
            Gain(asset, holder) = 0
    BY DEF Inv, ForwardTypeOK, Gain
  <1>7. KaminoStaysWithOwner
    <2> SUFFICES ASSUME NEW other \in Owners, Gain("kamino", other) # 0
                 PROVE  \A asset \in Assets, holder \in Holders \ {other} :
                            Gain(asset, holder) = 0
      BY DEF KaminoStaysWithOwner
    <2>1. other = owner
      BY <1>6, HoldersAre DEF Assets, Arms
    <2> QED
      BY <1>6, <2>1
  <1>8. PaysWhatItMeasured
    BY <1>3 DEF PaysWhatItMeasured
  <1> QED
    BY <1>5, <1>7, <1>8 DEF StepSafe

LEMMA DepositStep ==
    ASSUME Inv, NEW owner \in Owners, NEW adapter_id \in AdapterIds, NEW program,
           NEW amount_micros \in Amounts,
           ForwardDeposit(owner, adapter_id, program, amount_micros)
    PROVE  StepSafe
  <1> DEFINE arm == ArmOf[adapter_id]
  <1>1. PICK request \in Requests :
            /\ ForwardAmountBound(arm, amount_micros, request)
            /\ balance' \in CpiProtocolAdapter(arm, program, owner, request)
    BY DEF ForwardDeposit
  <1>2. /\ request \in Request /\ amount_micros \in Nat
        /\ balance \in Balances
        /\ account \in [Pdas -> {"absent", "prefunded", "owned"}]
    BY ForwardAssumption DEF Inv, ForwardTypeOK, Balances
  <1>3. /\ balance' \in Balances
        /\ arm = "kamino" =>
            \A asset \in Assets, holder \in Holders \ {owner} :
                balance'[asset][holder] = balance[asset][holder]
        /\ arm # "kamino" => balance'["kamino"] = balance["kamino"]
        /\ arm = "marginfi" =>
            balance'["marginfi"][RouterPda] =
                balance["marginfi"][RouterPda] + request.amount
        /\ arm # "marginfi" => balance'["marginfi"] = balance["marginfi"]
    <2>1. balance' \in CpiProtocolAdapter(arm, program, owner, request)
      BY <1>1
    <2>2. balance \in Balances /\ request \in Request
      BY <1>2
    <2> HIDE DEF arm
    <2>3. balance' \in Balances
      BY <2>1, <2>2, CpiMoves
    <2>4. arm = "kamino" =>
            \A asset \in Assets, holder \in Holders \ {owner} :
                balance'[asset][holder] = balance[asset][holder]
      BY <2>1, <2>2, CpiMoves
    <2>5. arm = "kamino" \/ balance'["kamino"] = balance["kamino"]
      BY <2>1, <2>2, CpiMoves
    <2>6. arm = "marginfi" =>
            balance'["marginfi"][RouterPda] =
                balance["marginfi"][RouterPda] + request.amount
      BY <2>1, <2>2, CpiMoves
    <2>7. arm = "marginfi" \/ balance'["marginfi"] = balance["marginfi"]
      BY <2>1, <2>2, CpiMoves
    <2> QED
      BY <2>3, <2>4, <2>5, <2>6, <2>7
  <1>4. /\ UNCHANGED registryVars
        /\ UNCHANGED profit_fee
        /\ last_withdraw' = NoWithdraw
    BY DEF ForwardDeposit
  <1>5. CASE arm = "kamino"
    <2>1. UNCHANGED <<account, marginfi_reported>>
      BY <1>5 DEF ForwardDeposit
    <2> QED
      BY <1>3, <1>4, <1>5, <2>1, KaminoStep
  <1>6. CASE arm = "marginfi"
    <2>1. /\ account' = [account EXCEPT !["marginfi_account"] = "owned"]
          /\ marginfi_reported' = marginfi_reported + amount_micros
      BY <1>6 DEF ForwardDeposit
    <2>2. request.amount = amount_micros
      BY <1>1, <1>6 DEF ForwardAmountBound
    <2>3. marginfi_reported' \in Nat /\ MarginfiReported'
      BY <1>2, <1>3, <1>6, <2>1, <2>2 DEF Inv, ForwardTypeOK, MarginfiReported
    <2>4. account' \in [Pdas -> {"absent", "prefunded", "owned"}]
      BY <1>2, <2>1
    <2> QED
      BY <1>3, <1>4, <1>6, <2>3, <2>4, MovingStep
  <1>7. CASE arm # "kamino" /\ arm # "marginfi"
    <2>1. UNCHANGED <<account, marginfi_reported>>
      BY <1>7 DEF ForwardDeposit
    <2>2. marginfi_reported' \in Nat /\ MarginfiReported'
      BY <1>3, <1>7, <2>1 DEF Inv, ForwardTypeOK, MarginfiReported
    <2> QED
      BY <1>2, <1>3, <1>4, <1>7, <2>1, <2>2, MovingStep
  <1> QED
    BY <1>5, <1>6, <1>7

LEMMA WithdrawStep ==
    ASSUME Inv, NEW owner \in Owners, NEW adapter_id \in AdapterIds, NEW program,
           NEW claim, ForwardWithdraw(owner, adapter_id, program, claim)
    PROVE  StepSafe
  <1> DEFINE arm == ArmOf[adapter_id]
  <1>1. arm = "kamino"
    BY DEF ForwardWithdraw, ForwardWithdrawOwnerBinding
  <1>2. PICK request \in Requests :
         \E after \in CpiProtocolAdapter(arm, program, owner, request) :
            LET measured == after["liquidity"][owner] - balance["liquidity"][owner]
            IN  /\ measured > 0
                /\ balance' = PaidOut(arm, owner, after, measured)
                /\ last_withdraw' = [owner |-> owner, measured |-> measured]
    BY <1>1 DEF ForwardWithdraw
  <1>3. /\ balance' \in CpiProtocolAdapter(arm, program, owner, request)
        /\ last_withdraw' =
            [owner    |-> owner,
             measured |-> balance'["liquidity"][owner] - balance["liquidity"][owner]]
        /\ last_withdraw'.measured > 0
    BY <1>1, <1>2 DEF PaidOut
  <1>4. request \in Request /\ balance \in Balances
    BY ForwardAssumption DEF Inv, ForwardTypeOK, Balances
  <1>5. /\ balance' \in Balances
        /\ \A asset \in Assets, holder \in Holders \ {owner} :
            balance'[asset][holder] = balance[asset][holder]
        /\ balance'["marginfi"] = balance["marginfi"]
    <2>1. arm # "marginfi"
      BY <1>1
    <2> HIDE DEF arm
    <2> QED
      BY <1>1, <1>3, <1>4, <2>1, CpiMoves
  <1>6. UNCHANGED <<registryVars, account, profit_fee, marginfi_reported>>
    BY DEF ForwardWithdraw
  <1> QED
    BY <1>3, <1>5, <1>6, KaminoStep

LEMMA RecoverStep ==
    ASSUME Inv, NEW signer \in Signers, NEW asset \in SplAssets,
           NEW amount_micros \in Amounts, NEW dest \in Holders,
           AuthorityRecoverRouterToken(signer, asset, amount_micros, dest)
    PROVE  StepSafe
  <1> DEFINE amount == IF amount_micros = 0
                       THEN balance[asset][RouterPda] ELSE amount_micros
  <1>1. /\ balance \in Balances
        /\ account \in [Pdas -> {"absent", "prefunded", "owned"}]
        /\ marginfi_reported \in Nat
        /\ asset \in Assets \ {"kamino", "marginfi"}
        /\ RouterPda \in Holders /\ dest \in Holders /\ dest # RouterPda
    BY HoldersAre
    DEF AuthorityRecoverRouterToken, Inv, ForwardTypeOK, Balances, SplAssets, Assets,
        Arms
  <1>2. /\ amount \in Nat
        /\ amount <= balance[asset][RouterPda]
    <2>1. balance[asset][RouterPda] \in Nat /\ amount_micros \in Nat
      BY <1>1, ForwardAssumption DEF Balances
    <2> QED
      BY <2>1 DEF AuthorityRecoverRouterToken, Recoverable
  <1>3. balance' = [balance EXCEPT ![asset] =
            [balance[asset] EXCEPT ![RouterPda] = @ - amount, ![dest] = @ + amount]]
    BY <1>1 DEF AuthorityRecoverRouterToken, Balances
  <1>4. [balance[asset] EXCEPT ![RouterPda] = @ - amount, ![dest] = @ + amount]
            \in [Holders -> Nat]
    <2> HIDE DEF amount
    <2> QED
      BY <1>1, <1>2 DEF Balances
  <1>5. /\ balance' \in Balances
        /\ balance'["kamino"] = balance["kamino"]
        /\ balance'["marginfi"] = balance["marginfi"]
    <2> HIDE DEF amount
    <2> QED
      BY <1>1, <1>3, <1>4 DEF Balances, Assets, Arms
  <1>6. /\ UNCHANGED <<registryVars, account, profit_fee, marginfi_reported>>
        /\ last_withdraw' = NoWithdraw
    BY DEF AuthorityRecoverRouterToken
  <1>7. MarginfiReported'
    BY <1>5, <1>6 DEF Inv, MarginfiReported
  <1> QED
    BY <1>1, <1>5, <1>6, <1>7, MovingStep

LEMMA FundStep ==
    ASSUME Inv, NEW owner \in Owners, NEW asset \in SplAssets,
           FundRouter(owner, asset)
    PROVE  StepSafe
  <1>1. /\ balance \in Balances
        /\ account \in [Pdas -> {"absent", "prefunded", "owned"}]
        /\ marginfi_reported \in Nat
        /\ asset \in Assets \ {"kamino", "marginfi"}
        /\ RouterPda \in Holders /\ owner \in Holders /\ owner # RouterPda
    BY HoldersAre DEF Inv, ForwardTypeOK, Balances, SplAssets, Assets, Arms
  <1>2. balance' = [balance EXCEPT ![asset] =
            [balance[asset] EXCEPT ![owner] = @ - 1, ![RouterPda] = @ + 1]]
    BY <1>1 DEF FundRouter, Balances
  <1>3. [balance[asset] EXCEPT ![owner] = @ - 1, ![RouterPda] = @ + 1]
            \in [Holders -> Nat]
    BY <1>1 DEF FundRouter, Balances
  <1>4. /\ balance' \in Balances
        /\ balance'["kamino"] = balance["kamino"]
        /\ balance'["marginfi"] = balance["marginfi"]
    BY <1>1, <1>2, <1>3 DEF Balances, Assets, Arms
  <1>5. /\ UNCHANGED <<registryVars, account, profit_fee, marginfi_reported>>
        /\ last_withdraw' = NoWithdraw
    BY DEF FundRouter
  <1>6. MarginfiReported'
    BY <1>4, <1>5 DEF Inv, MarginfiReported
  <1> QED
    BY <1>1, <1>4, <1>5, <1>6, MovingStep

LEMMA AdminStep ==
    ASSUME Inv, UNCHANGED registryVars,
           AdminNext \/ \E pda \in Pdas : Prefund(pda)
    PROVE  StepSafe
  <1>1. RegistryInv'
    BY DEF Inv, RegistryInv, RegistryTypeOK, OneSlotPerAdapter, registryVars
  <1>2. /\ account \in [Pdas -> {"absent", "prefunded", "owned"}]
        /\ profit_fee \in [profit_fee_bps : Nat, enabled : BOOLEAN]
    BY DEF Inv, ForwardTypeOK
  <1>3. ASSUME NEW signer \in Signers, Initialize(signer) PROVE StepSafe
    BY <1>1, <1>2, <1>3, QuietStep DEF Initialize
  <1>4. ASSUME NEW signer \in Signers, InitFeeConfig(signer) PROVE StepSafe
    BY <1>1, <1>2, <1>4, QuietStep, ForwardAssumption DEF InitFeeConfig
  <1>5. ASSUME NEW signer \in Signers, NEW bps \in FeeRates,
               NEW enabled \in BOOLEAN, SetProfitFee(signer, bps, enabled)
        PROVE  StepSafe
    <2>1. profit_fee' \in [profit_fee_bps : Nat, enabled : BOOLEAN]
      BY <1>5, ForwardAssumption DEF SetProfitFee
    <2> QED
      BY <1>1, <1>2, <1>5, <2>1, QuietStep DEF SetProfitFee
  <1>6. ASSUME NEW pda \in Pdas, Prefund(pda) PROVE StepSafe
    BY <1>1, <1>2, <1>6, QuietStep DEF Prefund
  <1> QED
    BY <1>3, <1>4, <1>5, <1>6 DEF AdminNext

LEMMA NextStep ==
    ASSUME Inv, [Next]_vars
    PROVE  Inv' /\ [KaminoStaysWithOwner]_vars /\ [PaysWhatItMeasured]_vars
  <1>1. CASE UNCHANGED vars
    BY <1>1 DEF vars, registryVars, forwardVars, Inv, RegistryInv, RegistryTypeOK,
                OneSlotPerAdapter, ForwardTypeOK, MarginfiReported
  <1>2. ASSUME Next PROVE StepSafe
    <2>1. CASE /\ RegistryNext
               /\ last_withdraw' = NoWithdraw
               /\ UNCHANGED <<account, profit_fee, balance, marginfi_reported>>
      <3>1. RegistryInv'
        BY <2>1, RegistryStep DEF Inv
      <3> QED
        BY <2>1, <3>1, QuietStep DEF Inv, ForwardTypeOK
    <2>2. CASE AdminNext /\ UNCHANGED registryVars
      BY <2>2, AdminStep
    <2>3. CASE ForwardNext
      BY <2>3, DepositStep, WithdrawStep, RecoverStep DEF ForwardNext
    <2>4. CASE EnvironmentNext
      <3>1. ASSUME NEW pda \in Pdas, Prefund(pda) PROVE StepSafe
        BY <3>1, AdminStep DEF Prefund
      <3> QED
        BY <2>4, <3>1, FundStep DEF EnvironmentNext
    <2> QED
      BY <1>2, <2>1, <2>2, <2>3, <2>4 DEF Next
  <1> QED
    BY <1>1, <1>2 DEF StepSafe

-----------------------------------------------------------------------------

(***************************************************************************)
(* The types of every variable hold throughout: in particular no handler   *)
(* takes from a balance more than it holds.                                *)
(***************************************************************************)
THEOREM ForwardTypeCorrect == Spec => []ForwardTypeOK
  <1>1. Init => Inv
    BY InitInv
  <1>2. Inv /\ [Next]_vars => Inv'
    BY NextStep
  <1>3. Inv => ForwardTypeOK
    BY DEF Inv
  <1> QED
    BY <1>1, <1>2, <1>3, PTL DEF Spec

(***************************************************************************)
(* What was logged as deposited through Marginfi is in the router's        *)
(* Marginfi account.                                                       *)
(***************************************************************************)
THEOREM MarginfiAlwaysReported == Spec => []MarginfiReported
  <1>1. Init => Inv
    BY InitInv
  <1>2. Inv /\ [Next]_vars => Inv'
    BY NextStep
  <1>3. Inv => MarginfiReported
    BY DEF Inv
  <1> QED
    BY <1>1, <1>2, <1>3, PTL DEF Spec

(***************************************************************************)
(* An owner's Kamino position never moves together with anything that is   *)
(* somebody else's.                                                        *)
(***************************************************************************)
THEOREM KaminoAlwaysOwnerRooted == Spec => KaminoOwnerRooted
  <1>1. Init => Inv
    BY InitInv
  <1>2. Inv /\ [Next]_vars => Inv'
    BY NextStep
  <1>3. Inv /\ [Next]_vars => [KaminoStaysWithOwner]_vars
    BY NextStep
  <1> QED
    BY <1>1, <1>2, <1>3, PTL DEF Spec, KaminoOwnerRooted

(***************************************************************************)
(* Every ForwardWithdraw pays its signer what it measured and takes from   *)
(* no one else.                                                            *)
(***************************************************************************)
THEOREM WithdrawAlwaysPaysOwner == Spec => WithdrawPaysOwner
  <1>1. Init => Inv
    BY InitInv
  <1>2. Inv /\ [Next]_vars => Inv'
    BY NextStep
  <1>3. Inv /\ [Next]_vars => [PaysWhatItMeasured]_vars
    BY NextStep
  <1> QED
    BY <1>1, <1>2, <1>3, PTL DEF Spec, WithdrawPaysOwner

-----------------------------------------------------------------------------
(***************************************************************************)
(* What the router gives up.  First what an arm may take from it: tokens   *)
(* that come back as a position, or receipts of its own venue, redeemed.   *)
(***************************************************************************)
Invests(arm, after) ==
    /\ \A owner \in Owners :
        after["liquidity"][owner] = balance["liquidity"][owner]
    /\ \E holder \in Holders :
        after[arm][holder] - balance[arm][holder]
            = balance["liquidity"][RouterPda] - after["liquidity"][RouterPda]

Redeems(arm, after) ==
    \E dest \in Holders :
        /\ after["liquidity"][dest] >= balance["liquidity"][dest]
        /\ after["liquidity"][dest] - balance["liquidity"][dest]
            <= balance[arm][RouterPda] - after[arm][RouterPda]
        /\ \A other \in Holders \ {dest} :
            after["liquidity"][other] = balance["liquidity"][other]

Spends(arm, after) ==
    \A asset \in Assets :
        after[asset][RouterPda] < balance[asset][RouterPda] =>
            \/ asset = "liquidity" /\ Invests(arm, after)
            \/ asset = arm /\ Redeems(arm, after)

LEMMA DepositSpends ==
    ASSUME balance \in Balances, NEW arm \in Arms, NEW holder \in Holders,
           NEW amount \in Nat, NEW after \in Deposited(arm, RouterPda, holder, amount)
    PROVE  Spends(arm, after)
  <1>1. /\ after \in Balances
        /\ after["liquidity"][RouterPda] = balance["liquidity"][RouterPda] - amount
        /\ after[arm][holder] = balance[arm][holder] + amount
        /\ \A other \in Holders \ {RouterPda} :
             after["liquidity"][other] = balance["liquidity"][other]
        /\ \A other \in Holders \ {holder} : after[arm][other] = balance[arm][other]
        /\ \A asset \in Assets \ {"liquidity", arm} : after[asset] = balance[asset]
    BY HoldersAre, DepositMoves
  <1>2. arm # "liquidity" /\ arm \in Assets /\ "liquidity" \in Assets
    BY DEF Arms, Assets
  <1>3. /\ balance["liquidity"] \in [Holders -> Nat] /\ balance[arm] \in [Holders -> Nat]
        /\ after[arm] \in [Holders -> Nat]
        /\ \A asset \in Assets : balance[asset][RouterPda] \in Nat
    BY <1>1, <1>2, HoldersAre DEF Balances
  <1>4. ASSUME NEW asset \in Assets \ {"liquidity"}
        PROVE  ~(after[asset][RouterPda] < balance[asset][RouterPda])
    <2>1. CASE asset # arm
      BY <1>1, <1>3, <1>4, <2>1
    <2>2. CASE asset = arm /\ holder = RouterPda
      BY <1>1, <1>2, <1>3, <2>2
    <2>3. CASE asset = arm /\ holder # RouterPda
      BY <1>1, <1>2, <1>3, <2>3, HoldersAre
    <2> QED
      BY <2>1, <2>2, <2>3
  <1>5. \A owner \in Owners : after["liquidity"][owner] = balance["liquidity"][owner]
    BY <1>1, HoldersAre
  <1>6. balance[arm][holder] \in Nat /\ balance["liquidity"][RouterPda] \in Nat
    BY <1>3, HoldersAre
  <1>7. after[arm][holder] - balance[arm][holder]
            = balance["liquidity"][RouterPda] - after["liquidity"][RouterPda]
    BY <1>1, <1>6
  <1>8. Invests(arm, after)
    BY <1>5, <1>7 DEF Invests
  <1> QED
    BY <1>4, <1>8 DEF Spends

LEMMA WithdrawSpends ==
    ASSUME balance \in Balances, NEW arm \in Arms, NEW dest \in Holders,
           NEW amount \in Nat, NEW after \in Withdrawn(arm, RouterPda, dest, amount)
    PROVE  Spends(arm, after)
  <1>1. /\ after \in Balances
        /\ after["liquidity"][dest] >= balance["liquidity"][dest]
        /\ after["liquidity"][dest] <= balance["liquidity"][dest] + amount
        /\ after[arm][RouterPda] = balance[arm][RouterPda] - amount
        /\ \A other \in Holders \ {dest} :
             after["liquidity"][other] = balance["liquidity"][other]
        /\ \A asset \in Assets \ {"liquidity", arm} : after[asset] = balance[asset]
    BY HoldersAre, ForwardAssumption, WithdrawMoves
  <1>2. \A asset \in Assets : balance[asset][RouterPda] \in Nat
    BY HoldersAre DEF Balances
  <1>3. "liquidity" \in Assets /\ RouterPda \in Holders
    BY HoldersAre DEF Assets
  <1>4. after["liquidity"][RouterPda] \in Nat /\ balance["liquidity"][RouterPda] \in Nat
    BY <1>1, <1>2, <1>3 DEF Balances
  <1>5. ~(after["liquidity"][RouterPda] < balance["liquidity"][RouterPda])
    <2>1. CASE dest = RouterPda
      BY <1>1, <1>4, <2>1
    <2>2. CASE dest # RouterPda
      BY <1>1, <1>3, <1>4, <2>2
    <2> QED
      BY <2>1, <2>2
  <1>6. ASSUME NEW asset \in Assets \ {"liquidity", arm}
        PROVE  ~(after[asset][RouterPda] < balance[asset][RouterPda])
    BY <1>1, <1>2, <1>6
  <1>7. Redeems(arm, after)
    <2>1. balance["liquidity"][dest] \in Nat /\ after["liquidity"][dest] \in Nat
      BY <1>1, <1>3 DEF Balances
    <2>2. balance[arm][RouterPda] \in Nat
      BY <1>2 DEF Arms, Assets
    <2>3. after["liquidity"][dest] - balance["liquidity"][dest]
            <= balance[arm][RouterPda] - after[arm][RouterPda]
      BY <1>1, <2>1, <2>2
    <2> QED
      BY <1>1, <2>3 DEF Redeems
  <1> QED
    BY <1>5, <1>6, <1>7 DEF Spends

\* No arm but the owner's own takes from the router in any other way.
LEMMA CpiSpends ==
    ASSUME balance \in Balances, NEW arm, NEW program, NEW owner \in Owners,
           NEW request \in Request,
           NEW after \in CpiProtocolAdapter(arm, program, owner, request)
    PROVE  Spends(arm, after)
  <1>1. arm \in Arms
    BY DEF CpiProtocolAdapter, ProgramPin
  <1>2. /\ request.amount \in Nat /\ request.dest \in Holders /\ RouterPda \in Holders
    BY HoldersAre DEF Request
  <1>3. CASE arm = "kamino"
    <2>1. \A asset \in Assets : after[asset][RouterPda] = balance[asset][RouterPda]
      <3>1. \A asset \in Assets, holder \in Holders \ {owner} :
                after[asset][holder] = balance[asset][holder]
        BY <1>3, CpiMoves
      <3> QED
        BY <3>1, HoldersAre
    <2>2. \A asset \in Assets : balance[asset][RouterPda] \in Nat
      BY <1>2 DEF Balances
    <2>3. \A asset \in Assets : ~(after[asset][RouterPda] < balance[asset][RouterPda])
      BY <2>1, <2>2
    <2> QED
      BY <2>3 DEF Spends
  <1>4. CASE arm = "marginfi"
    <2>1. after \in Deposited(arm, RouterPda, RouterPda, request.amount)
      BY <1>4 DEF CpiProtocolAdapter, CpiAdapterMarginfi
    <2> QED
      BY <1>1, <1>2, <2>1, DepositSpends
  <1>5. CASE arm \in {"jupiter_lend", "save"}
    <2>1. \/ after \in Deposited(arm, RouterPda, request.dest, request.amount)
          \/ after \in Withdrawn(arm, RouterPda, request.dest, request.amount)
      BY <1>5 DEF CpiProtocolAdapter, CpiAdapterJupiterLend, JupiterLendDeposit,
                  JupiterLendWithdraw, CpiAdapterSave, SaveDeposit, SaveRedeem
    <2> QED
      BY <1>1, <1>2, <2>1, DepositSpends, WithdrawSpends
  <1> QED
    BY <1>1, <1>3, <1>4, <1>5 DEF Arms

\* The registry's check and the arm's own, put together.
LEMMA GateMakesUsable ==
    ASSUME RegistryInv, NEW adapter_id, NEW program,
           ValidateProtocolProgram(adapter_id, program),
           ProgramPin(ArmOf[adapter_id], program)
    PROVE  Usable(ArmOf[adapter_id])
  BY FindIndexHoldsId DEF ValidateProtocolProgram, ProgramPin, Usable

LEMMA DepositAsBound ==
    ASSUME Inv, NEW owner \in Owners, NEW adapter_id \in AdapterIds, NEW program,
           NEW amount_micros \in Amounts,
           ForwardDeposit(owner, adapter_id, program, amount_micros)
    PROVE  RouterSpendsAsBound
  <1> DEFINE arm == ArmOf[adapter_id]
  <1>1. PICK request \in Requests :
            balance' \in CpiProtocolAdapter(arm, program, owner, request)
    BY DEF ForwardDeposit
  <1>2. request \in Request /\ balance \in Balances
    BY ForwardAssumption DEF Inv, ForwardTypeOK, Balances
  <1>3. ProgramPin(arm, program) /\ ValidateProtocolProgram(adapter_id, program)
    BY <1>1 DEF ForwardDeposit, CpiProtocolAdapter
  <1>4. Usable(arm) /\ arm \in Arms
    BY <1>3, GateMakesUsable DEF Inv, ProgramPin
  <1> HIDE DEF arm
  <1>5. Spends(arm, balance') /\ balance' \in Balances
    BY <1>1, <1>2, CpiSpends, CpiMoves
  <1>6. /\ \A asset \in Assets, holder \in Holders :
                balance[asset][holder] \in Nat /\ balance'[asset][holder] \in Nat
        /\ RouterPda \in Holders /\ "liquidity" \in Assets /\ arm \in Assets
        /\ \A other \in Owners : other \in Holders
    BY <1>2, <1>4, <1>5, HoldersAre DEF Balances, Assets, Arms
  <1> SUFFICES ASSUME NEW asset \in Assets, - Gain(asset, RouterPda) > 0
               PROVE  \/ /\ asset = "liquidity"
                         /\ BecomesPosition(- Gain(asset, RouterPda))
                      \/ /\ asset \in Arms /\ Usable(asset)
                         /\ RedeemedOnce(- Gain(asset, RouterPda))
    BY DEF RouterSpendsAsBound
  <1>7. balance'[asset][RouterPda] < balance[asset][RouterPda]
    BY <1>6 DEF Gain
  <1>8. CASE asset = arm /\ Redeems(arm, balance')
    <2>1. PICK dest \in Holders :
            /\ balance'["liquidity"][dest] >= balance["liquidity"][dest]
            /\ balance'["liquidity"][dest] - balance["liquidity"][dest]
                <= balance[arm][RouterPda] - balance'[arm][RouterPda]
            /\ \A other \in Holders \ {dest} :
                balance'["liquidity"][other] = balance["liquidity"][other]
      BY <1>8 DEF Redeems
    <2>2. Gain("liquidity", dest) \in 0..(- Gain(arm, RouterPda))
      BY <1>6, <2>1 DEF Gain
    <2>3. \A other \in Holders \ {dest} : Gain("liquidity", other) = 0
      BY <1>6, <2>1 DEF Gain
    <2> QED
      BY <1>4, <1>8, <2>2, <2>3 DEF RedeemedOnce
  <1>9. CASE asset = "liquidity" /\ Invests(arm, balance')
    <2>1. PICK holder \in Holders :
            balance'[arm][holder] - balance[arm][holder]
              = balance["liquidity"][RouterPda] - balance'["liquidity"][RouterPda]
      BY <1>9 DEF Invests
    <2>2. Gain(arm, holder) = - Gain("liquidity", RouterPda)
      BY <1>6, <2>1 DEF Gain
    <2>3. \A other \in Owners : Gain("liquidity", other) = 0
      BY <1>6, <1>9 DEF Gain, Invests
    <2> QED
      BY <1>4, <1>9, <2>2, <2>3 DEF BecomesPosition
  <1> QED
    BY <1>5, <1>7, <1>8, <1>9 DEF Spends

\* A step that takes nothing from the router is bound by nothing.
LEMMA NothingSpent ==
    ASSUME \A asset \in Assets :
                /\ balance[asset][RouterPda] \in Nat
                /\ balance'[asset][RouterPda] \in Nat
                /\ balance'[asset][RouterPda] >= balance[asset][RouterPda]
    PROVE  RouterSpendsAsBound
  <1>1. \A asset \in Assets : ~(- Gain(asset, RouterPda) > 0)
    BY DEF Gain
  <1> QED
    BY <1>1 DEF RouterSpendsAsBound

LEMMA WithdrawAsBound ==
    ASSUME Inv, NEW owner \in Owners, NEW adapter_id \in AdapterIds, NEW program,
           NEW claim, ForwardWithdraw(owner, adapter_id, program, claim)
    PROVE  RouterSpendsAsBound
  <1> DEFINE arm == ArmOf[adapter_id]
  <1>1. arm = "kamino"
    BY DEF ForwardWithdraw, ForwardWithdrawOwnerBinding
  <1>2. PICK request \in Requests :
            balance' \in CpiProtocolAdapter(arm, program, owner, request)
    BY <1>1 DEF ForwardWithdraw, PaidOut
  <1>3. request \in Request /\ balance \in Balances
    BY ForwardAssumption DEF Inv, ForwardTypeOK, Balances
  <1> HIDE DEF arm
  <1>4. \A asset \in Assets, holder \in Holders \ {owner} :
            balance'[asset][holder] = balance[asset][holder]
    BY <1>1, <1>2, <1>3, CpiMoves
  <1>5. RouterPda \in Holders \ {owner}
    BY HoldersAre
  <1>6. \A asset \in Assets : balance[asset][RouterPda] \in Nat
    BY <1>3, <1>5 DEF Balances
  <1> QED
    BY <1>4, <1>5, <1>6, NothingSpent

LEMMA RecoverAsBound ==
    ASSUME Inv, NEW signer \in Signers, NEW asset \in SplAssets,
           NEW amount_micros \in Amounts, NEW dest \in Holders,
           AuthorityRecoverRouterToken(signer, asset, amount_micros, dest)
    PROVE  RouterSpendsAsBound
  <1> DEFINE amount == IF amount_micros = 0
                       THEN balance[asset][RouterPda] ELSE amount_micros
  <1>1. /\ balance \in Balances /\ asset \in Assets
        /\ RouterPda \in Holders /\ PROTOCOL_AUTHORITY \in Holders
        /\ PROTOCOL_AUTHORITY # RouterPda /\ dest = PROTOCOL_AUTHORITY
    BY HoldersAre
    DEF AuthorityRecoverRouterToken, Inv, ForwardTypeOK, Balances, SplAssets, Assets,
        Arms
  <1>2. amount \in Nat
    <2>1. balance[asset][RouterPda] \in Nat /\ amount_micros \in Nat
      BY <1>1, ForwardAssumption DEF Balances
    <2> QED
      BY <2>1
  <1>3. balance' = [balance EXCEPT ![asset] =
            [balance[asset] EXCEPT ![RouterPda] = @ - amount,
                                   ![PROTOCOL_AUTHORITY] = @ + amount]]
    BY <1>1 DEF AuthorityRecoverRouterToken, Balances
  <1> HIDE DEF amount
  <1>4. balance[asset] \in [Holders -> Nat]
    BY <1>1 DEF Balances
  <1>5. balance'[asset] = [balance[asset] EXCEPT ![RouterPda] = @ - amount,
                                   ![PROTOCOL_AUTHORITY] = @ + amount]
    BY <1>1, <1>3 DEF Balances
  <1>6. /\ balance'[asset][RouterPda] = balance[asset][RouterPda] - amount
        /\ balance'[asset][PROTOCOL_AUTHORITY]
                = balance[asset][PROTOCOL_AUTHORITY] + amount
        /\ balance[asset][RouterPda] \in Nat
        /\ balance[asset][PROTOCOL_AUTHORITY] \in Nat
    BY <1>1, <1>4, <1>5
  <1>7. Gain(asset, PROTOCOL_AUTHORITY) = - Gain(asset, RouterPda)
    BY <1>2, <1>6 DEF Gain
  <1>8. ASSUME NEW other \in Assets \ {asset}
        PROVE  ~(- Gain(other, RouterPda) > 0)
    <2>1. balance'[other] = balance[other] /\ balance[other][RouterPda] \in Nat
      BY <1>1, <1>3, <1>8 DEF Balances
    <2> QED
      BY <2>1 DEF Gain
  <1> QED
    BY <1>7, <1>8 DEF RouterSpendsAsBound

LEMMA FundAsBound ==
    ASSUME Inv, NEW owner \in Owners, NEW asset \in SplAssets,
           FundRouter(owner, asset)
    PROVE  RouterSpendsAsBound
  <1>1. /\ balance \in Balances /\ asset \in Assets
        /\ RouterPda \in Holders /\ owner \in Holders /\ owner # RouterPda
    BY HoldersAre DEF Inv, ForwardTypeOK, Balances, SplAssets, Assets, Arms
  <1>2. balance' = [balance EXCEPT ![asset] =
            [balance[asset] EXCEPT ![owner] = @ - 1, ![RouterPda] = @ + 1]]
    BY <1>1 DEF FundRouter, Balances
  <1>3. ASSUME NEW other \in Assets
        PROVE  /\ balance[other][RouterPda] \in Nat
               /\ balance'[other][RouterPda] \in Nat
               /\ balance'[other][RouterPda] >= balance[other][RouterPda]
    <2>1. balance[other] \in [Holders -> Nat]
      BY <1>1 DEF Balances
    <2>2. CASE other = asset
      BY <1>1, <1>2, <2>1, <2>2 DEF Balances
    <2>3. CASE other # asset
      BY <1>1, <1>2, <2>1, <2>3 DEF Balances
    <2> QED
      BY <2>2, <2>3
  <1> QED
    BY <1>3, NothingSpent

LEMMA NextAsBound ==
    ASSUME Inv, [Next]_vars
    PROVE  [RouterSpendsAsBound]_vars
  <1> SUFFICES ASSUME Next PROVE RouterSpendsAsBound
    OBVIOUS
  <1>1. CASE UNCHANGED balance
    <2>1. \A asset \in Assets : balance[asset][RouterPda] \in Nat
      BY HoldersAre DEF Inv, ForwardTypeOK
    <2> QED
      BY <1>1, <2>1, NothingSpent
  <1>2. CASE AdminNext
    BY <1>1, <1>2 DEF AdminNext, Initialize, InitFeeConfig, SetProfitFee
  <1>3. CASE ForwardNext
    BY <1>3, DepositAsBound, WithdrawAsBound, RecoverAsBound DEF ForwardNext
  <1>4. CASE EnvironmentNext
    BY <1>1, <1>4, FundAsBound DEF EnvironmentNext, Prefund
  <1> QED
    BY <1>1, <1>2, <1>3, <1>4 DEF Next

(***************************************************************************)
(* The router gives up nothing but to the authority's recovery or to a     *)
(* venue whose adapter is active and bound to the program of its arm,      *)
(* whatever clients hand to the arms: tokens against a position of the     *)
(* same amount and none of them to a user, receipts against one payment of *)
(* at most as much, to whom the caller says (lib.rs 2119-2182, 5284-5423). *)
(***************************************************************************)
THEOREM RouterAlwaysSpendsAsBound == Spec => RouterSpendsOnlyAsBound
  <1>1. Init => Inv
    BY InitInv
  <1>2. Inv /\ [Next]_vars => Inv'
    BY NextStep
  <1>3. Inv /\ [Next]_vars => [RouterSpendsAsBound]_vars
    BY NextAsBound
  <1> QED
    BY <1>1, <1>2, <1>3, PTL DEF Spec, RouterSpendsOnlyAsBound
=============================================================================

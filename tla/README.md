# A verification development of DAY

TLA+ modules that model the DAY repository, TLC configurations that check them
on small instances, and TLAPS proofs that hold for every instance. Paths are
those of the repository; `lib.rs` is `contracts/solana/day_router/src/lib.rs`.

    tlc -workers 2 -config MCHandoff.cfg MCHandoff     # a run
    tlapm HandoffProofs.tla                            # the proofs

`PROJECT.json` lists the runs, the lines each definition models, a mutant that
each property catches, the hazards of the code and where each is covered.

## 1. Inventory

DAY moves stable-value deposits of an owner into yield venues and back. A Solana
program, two EVM contracts, an SDK and the fee tables of a runtime share no
memory; they meet through chain accounts, bridges and HTTP.

| Component | State it keeps | Operations | What is hard | Module |
|---|---|---|---|---|
| **Adapter registry V2** (lib.rs) | one PDA, 16 slots of (adapter id, program, active) | `InitRegistryV2`, `RegisterAdapterV2`, `SetActiveV2`; read before every CPI | the authority changes it between a deposit and its exit; slots are never freed | `RegistryV2` |
| **Handoffs, path A** (lib.rs) | `MctpConfig` PDA; per `day_tx_id` a `HandoffPosition` PDA, a USDC account, a receipt account | `InitializeMctpConfig`, `SetMctpIngressPaused`, `ReceiveAndForwardDeposit`, `ExitHandoffToOrigin` | late, partial and repeated deliveries; relayers mixing the accounts of two handoffs; a venue that pays short; a pause between entry and exit | `Handoff`, `HandoffPromise` |
| **Kamino arm** (lib.rs) | none of its own; KLend's obligation of the owner | `cpi_adapter_kamino` with its two sequence builders | the frame of accounts is read by the client before the transaction lands; reserves refreshed once and in order | `KaminoSequence` |
| **Fee configuration** (`runtime/config`, `runtime/lib`) | none; frozen tables | resolution, getters, waterfall, fund #3, profit fee, schedule | sparse overrides in a fixed order; roundings; the same quote written twice | `FeeConfig` |
| **SDK client** (`packages/sdk/src`) | two result caches, two one-shot flags | `request`, `checkForUpdate`, `checkApiVersion`, the automatic check | continuations in any order; failures swallowed; a cache two writers fill | `SdkClient` |
| **Router accounts** (lib.rs) | router, V1 registry and fee-config PDAs | `Initialize`, `InitFeeConfig`, `SetProfitFee`; `RegisterAdapter`, `SetAdapterActive` (V1) | PDAs prefunded before creation | `ForwardRouter`; V1 not modelled |
| **Forward router** (lib.rs) | token accounts of the router PDA, venue positions | `ForwardDeposit`, `ForwardWithdraw`, `AuthorityRecoverRouterToken` | receipts of many owners in shared accounts, with no owner on record; what is logged, claimed, in the payload and measured are four amounts | `ForwardRouter` |
| **Marginfi, Save, Jupiter Lend arms** (lib.rs) | Marginfi: one canonical account | account pins and CPI of each | the payload, not the instruction, says which way tokens move | `ForwardRouter` |
| **Path B** (`reverse_attestation.rs`) | none: every handler ends in a terminal error | six handlers with their message, parameter and account checks | six account lists about one handoff; bodies without a type tag; what the receipts behind the gates will rely on | `PathB` |
| **ABI codecs** (`abi_codec.rs`) | none | encode, decode, commitment, request id, payload hash | one spelling per message, one id per request | `AbiCodec` |
| **`DayThinRouter.sol`** | owner, pendingOwner, paused, strategies and their count, skim rate | two-step ownership, pause, allowlist, plan events | a nomination replaced, accepted late, or made by a former owner | `ThinRouter` |
| **`DayCreate3Factory.sol`** | one proxy per deployer and salt, each with its nonce and what it deployed | `deploy` of factory and proxy, `predict` | the code deployed calls back while it is being created, or reverts after it did | `Create3Factory` |
| Idempotency keys and micros strings (SDK) | none | build, validate, normalise | | not modelled |
| Adapter interface (`runtime/adapters`) | none | synonyms, shape check | | not modelled |
| Plan log handlers, OApp scaffold, peer registration (lib.rs) | none: they log or refuse | | | not modelled: no state |
| Schemas, SQL, Solidity interfaces | | | | not modelled: no code runs them |

How they interact. A bridge delivers USDC to the account of a `day_tx_id`. A
relayer submits `ReceiveAndForwardDeposit`, which asks the ingress pause and the
registry, has the venue take the balance, and writes the position. Anybody later
submits `ExitHandoffToOrigin`, which asks the registry and the position, has the
venue pay the custody account, and pays the increase to the origin owner. An
owner may instead use the forward router; with Kamino its own obligation at KLend
is the position. Path B is to carry the same handoffs over Mayan and Wormhole:
its instructions decode and check a message and the accounts of a handoff, and
stop. On EVM chains the thin router announces plans. Integrators reach the hosted
API through the SDK; the API quotes fees from the runtime's tables, and the
program quotes the profit fee itself.

What makes each component correct:

- *Registry*: one slot per adapter; a binding, once made, is never re-pointed.
- *Handoffs*: per handoff, every micro delivered is in custody, at the venue, or
  paid to the owner on record; one entry, one exit, between floor and principal;
  a pause never blocks an exit.
- *Kamino*: every reserve of the frame is refreshed once, before the obligation;
  a frame that is current is not refused; a stale one fails whole.
- *Fees*: shares add up to the profit; principal is never charged; the two
  implementations of the profit fee agree; the shipped rates survive overrides.
- *SDK client*: automatic checks start once, come to a result, and a newer
  version in the cache has been told.
- *Forward router*: a withdrawal pays its signer what it measured and takes from
  no one else; a Kamino position moves with nothing of anybody else; what the
  router spends goes to the authority or to a venue that is registered, active
  and the very program the arm is compiled for, tokens for a position of the same
  amount, receipts for one payment; what is logged for Marginfi is
  in the account; prefunded addresses do not stop the set-up.
- *Path B, codecs*: what a handler decodes is what was encoded, and no message
  has a second spelling; a body is for one handler; accounts and receipts follow
  the handoff, the withdrawal and the owner of the message, never the sender.
- *Thin router*: ownership passes only to the owner's last nominee; the count is
  exact; a skim is rounded in the user's favour and capped.
- *Factory*: a route deploys once, at its predicted address; nobody but its
  deployer uses it up; a failure that reverts leaves nothing behind.

## 2. Modules and the code they model

    RegistryV2 <- Handoff <- MCHandoff <- HandoffClaims
        |            |\______ HandoffPromise   (INSTANCE ... WITH)
        |            |
    RegistryV2Proofs <- HandoffProofs
        |\________ ForwardRouter <- MCForward
        |                |
    RegistryV2Proofs <- ForwardProofs          MCForward <- ForwardClaims
    KaminoSequence <- MCKamino,    KaminoSequence <- KaminoProofs
    AbiCodec <- PathB <- MCPathB,  PathB <- PathBProofs
    FeeConfig <- MCFeeConfig,      FeeConfig <- FeeConfigProofs
    SdkClient <- MCSdkClient,      SdkClient <- SdkClientProofs
    ThinRouter <- MCThinRouter
    ThinRouter, Create3Factory <- EvmProofs

**RegistryV2** (lib.rs 590-640, 1777-1826, 5659-5758). The account is the
sequence of its used slots: slots are filled from the left and never freed, and
the length is `count`. One action per instruction, `FindIndex` for `find_index`,
`ValidateProtocolProgram` for the gate of every CPI. The V1 registry, which no
money path reads, is left out.

**Handoff** (lib.rs 505-575, 934-1501) EXTENDS the registry. A Solana instruction
is atomic: an error aborts the transaction with every CPI in it. So a handler is
one action whose guard is the conjunction of its checks in the code's order, and
what interleaves is transactions, of relayers, authority, bridge and venue.

| Model | Code |
|---|---|
| `mctp_config` | the `MctpConfig` PDA and its `ingress_paused` |
| `position[id]` | the `HandoffPosition` PDA of the `day_tx_id` |
| `custody_usdc[id]`, `venue[id]` | the USDC account and the receipts of the custody PDA |
| `payouts[id][key]` | USDC paid to token accounts of `key` by exits of `id` |
| `delivered`, `drift`, `claimed` | history variables, read by no action |
| `ReceiveAndForwardDeposit`, `ExitHandoffToOrigin` | the two handlers with the CPI, the SPL transfer and the PDA write |
| `Deliver`, `VenueRevalue` | external: bridge and venue |

The accounts a transaction supplies are a parameter (`custody`, `recipient`), and
the checks that pin them (`CustodyPinned`, `PaysOriginOwner`) are guards. Custody
accounts are named by the `day_tx_id` they are derived from: the code accepts any
USDC account that the custody PDA owns (lib.rs:1171-1174, 1365-1368), and the
model gives each PDA one. A receive takes what is in custody when it is made. A
part that comes later stays there: the model delivers at any time, the positive
promise (`DeliveryPositioned`) is about what came before, and `LateDeliveryStays`
proves the rest of it stuck. A left-padded EVM
address is a `ForeignOwner`: it owns no token account (lib.rs:540-544). The
chain and asset labels are checked on entry and not kept, as nothing reads them.
Amounts are natural numbers; the code's `u64` operations are checked and the
bound is far below 2^64. The paused flag of the *router* account is read by the
forward router and the plan handlers only, and is left out. Only the
jupiter-lend arm is wired to handoffs.

**HandoffPromise** is the abstract specification: a handoff id is opened once for
one owner with a stake and a floor, and closed once by one payment to that owner
between the two. `Handoff` maps to it by phase, owner, principal, floor and
payouts; nothing about custody, venue, registry or pause remains.

**KaminoSequence** (lib.rs 2384-2415, 2502-3269). The frame that trails the fixed
accounts is a sequence of account metas; delimiters are found and sections are
cut as in `build_kamino_*_sequence`. The instructions are built from them, and by a
second loop the account infos they are invoked with (`RefreshReserves`, `RefreshInfos`):
a CPI runs only if every account an instruction names is among them, and the two
lists must pair up one by one (`Invocable`, `Runs`).
KLend's rules (positions must match the obligation, what is used must be fresh)
are external, modelled from what the sequence is built for. The loop over the
listed reserves is a recursive function on its prefixes. Pinned vaults, mints
and programs are one flag, `layout`; amounts are abstracted to part or all.

**ForwardRouter** (lib.rs 1503-1928, 1945-2182, 3083-5590) EXTENDS the registry.

| Model | Code |
|---|---|
| `account[pda]` | an address that is absent, holds lamports only, or is owned by its program |
| `profit_fee` | rate and switch of `RouterFeeConfig` |
| `balance[asset][holder]` | token accounts by the key that owns them, receipts, KLend obligations, Marginfi accounts |
| `marginfi_reported`, `last_withdraw` | history: the amounts the two handlers log |
| `Request` | the adapter's part of an instruction: payload direction and amount, which account list matches its pins, the key in the signer slot, the holder in the destination slot |
| `CpiAdapter...` | an arm, as the set of balances its CPI can leave, empty if refused |
| `FundRouter`, `Prefund` | external: transfers outside the program |

The direction of a forward is the payload's: `ForwardDeposit` with a withdrawal
payload is accepted by three arms, and the model has it. Of the destination slot
of Save and Jupiter Lend the code asks only that it is given, so the slot is any
holder: receipts parked on the router may be redeemed to a user, which
`RouterSpendsOnlyAsBound` allows and `claim_router_held` shows (section 6).
Marginfi has no withdrawal payload. The last byte of a Marginfi payload of 17
bytes, `deposit_up_to_limit`, is checked by nothing (lib.rs:3421-3437) and left
out: with it set a bank may take less than what is logged, so `MarginfiReported`
is about deposits taken in full, as the program's own encoder makes them
(lib.rs:3450-3455). Its account is created only while the address
holds no lamports (lib.rs:3736), unlike the router's own. `ForwardWithdraw` is
modelled whole, the payment through the router's account included (`PaidOut`),
although the gate keeps all arms but Kamino out of that path. Pinned keys are one
`layout` value; the Kamino frame is `KaminoSequence`'s. The `paused` flag of the
router is left out: no instruction sets it, so its checks never fail.

**FeeConfig** (`runtime/config/fee-config.mjs`, lib.rs 446-458 and 5879-5885). A
row is the record of its numeric fields, an override table a function of sparse
rows; merging is `Spread`, an object spread. A behaviour picks a pair of tables, then asks quotes.
Overrides beyond the shipped ones are rows a release may ship. Labels, query
parsing, and the net-APY and notional helpers of `bps.mjs` are left out, and so
is `min_bps`, which is published and never enforced. A merged `max_bps` may be
above the global one: the code caps with the merged value, and so does the model.

**SdkClient** (`packages/sdk/src/index.mjs` 112-381, `version.mjs`). A step is
what the one thread does between two awaits. A call goes from sent to answered to
read to done. Versions are abstracted to newer or not. `lastApiVersionHeaders`,
which nothing reads, the minimum version, which is told as the newer one is, and
unparsable bodies are left out. Endpoint methods only name a path. Calls are
interchangeable: `NextCall` chooses the next one, so that TLC need not try all.

**AbiCodec** (`abi_codec.rs`). A body is a sequence of words, a word a string of
bytes, and a message the sequence of its fields, each as many bytes as its type
is wide. `Written` and `Read` are the layouts of the encoder and of the decoder,
transcribed separately, as the code writes them separately; `Canonical` is the
padding a reader asks for. `Keccak` is external: an injective function, its
argument. Widths are constants, 32, 20, 8, 4 and 256 byte values in the code.

**PathB** (`reverse_attestation.rs` 134-1329) EXTENDS the codec. No instruction
writes an account, so the state is the history of those that passed every check
and came to their terminal error (`gated`): what is to be wired behind it will
find them. `Preflight` is parameters, decoding and intent checks in the code's
order; a key is what it is derived from, and `FixedAccounts` is the list the
validator of each instruction asks for. Every submission is a record with the
message its sender meant, the body sent, the parameters that are not empty, the
accounts and the signature.

**ThinRouter** (`DayThinRouter.sol`). One action per function, `planned` the
events of the two plan functions; `named` (whom each account named last) and
`sender` are history. A call that reverts changes nothing and is no step.
Solidity's multiplication is checked: a yield whose product with the rate exceeds
`MAX_UINT256` reverts. The fee getters, which return constants, are left out.

**Create3Factory** (`DayCreate3Factory.sol`). `frames` is the stack of
deployments under way in a transaction. `Deploy` is the factory's up to the
CREATE2 of the proxy, `ProxyDeploy` the proxy's up to the constructor,
`ConstructorEnds` what follows it in both; between them contracts that a
constructor calls may enter factory or proxy again. Each frame keeps the world it
returns to if it reverts. A route's hash is its deployer and salt, an address what
it is derived from, nonces included. A constructor may leave no code: CREATE
answers an address all the same, the event announces it, the proxy stays and the
route is used up (DayCreate3Factory.sol:23-27, 50-56). `bare` is the history of
such targets; the properties say that every announced target has code or is one
of them, not that something is there.

## 3. Runs

| Run | Distinct states | What it shows |
|---|---|---|
| `handoff` | 19,644 (symmetry) | two handoffs of two owners interleave with everything: books balance, the destination is locked, ids are single-use, the abstract promise is kept |
| `handoff_inputs` | 12,518 | one handoff, every kind of bad origin record, three adapters for two slots, a wrong program, an undeployed one, a signer without authority; owners exit, and what is delivered before the receive is positioned whole, under fairness |
| `forward` | 42,080 | two owners, all four arms, every payload against every instruction, strayed tokens, short payments, prefunded addresses and registry switches; the set-up completes |
| `kamino` | 839,600 | a client and the owner at KLend race, beside every frame of up to five accounts and malformed ones of up to three: a current frame is never refused and a stale one never lands, the format accepted is the documented one, every reserve is refreshed once, in order, and with its own accounts |
| `fees` | 124,862 | every quote over 41 strategy and 16 opportunity tables: shares add up, principal is free, fund #3 keeps its rates, both profit fees agree |
| `sdk_checks` | 473,772 | two integrator calls against the automatic checks, failures, missing headers, and a release at any moment; both checks come to a result |
| `path_b` | 6,941 | six instructions well-formed or with one fault each: what any two that reach a gate share is what their messages share |
| `thin_router` | 124,020 | three accounts hand ownership around while they pause, register, switch, price and plan |
| `create3` | 39,741 | an account and two contracts deploy inside each other's constructors, which may revert or leave no code |
| `claim_payable`, `claim_exit_any_time`, `claim_router_held` | | a sentence of the repository that the code does not keep (section 6) |

Bounds, and why they are enough.

- *Two handoffs* are what one can take from another; a third adds no new pair of
  accounts. `MaxMicros = 2` or `3` gives a delivery in parts, a claim under it, a
  floor within, at and above the principal, and an exit of part. `MaxDrift = 1`
  and `MaxShortfall = 1` give a gain, a loss and a short payment. The theorems of
  section 5 drop all of these bounds.
- *Two slots for three adapters* reach the full registry, and a registration
  refused; nothing depends on the number 16.
- *Two tokens, two owners, four arms* in `forward`: one owner starts with both
  tokens, so that whatever the other is paid is somebody else's. Requests are all
  well-formed ones of amount 1 and 2 with any signer and destination, and one of
  each malformed kind. The registry is filled at the start, its last slot naming
  Save, Save bound to a foreign program, or an adapter without an arm; switches
  go on from there, and registrations themselves are checked with `Handoff`.
- *Two positions a side, three reserves* give a reserve deposited and borrowed at
  once, a first deposit, a withdrawal beside borrows, and a position outside the
  pinned set. Five accounts hold two delimiters and a section of each kind.
- *Amounts 0, 1, 9999, 10001 and rates 777, 1500, 3333, 9999, 10001* lie on both
  sides of each rounding and include a rate that must throw. Profit-fee caps
  are none, below and above the fee.
- *Four calls*: two product calls that succeed together, and the two checks.
  `Reserved` keeps two calls for the latter, so that the bound cannot be what
  stops them.
- *Words of four bytes, bytes of four values* leave every type narrower than a
  word a padding, and no two types one width. Two handoffs, two remote chains and
  three withdrawals make messages that agree in one respect and differ in
  another. Each instruction comes well-formed, with one field emptied, one word
  or length altered, a body of another message or type, or one account, id,
  parameter or signature wrong. The properties are about pairs: two are
  remembered (`MaxGated`). The theorems drop widths, bytes and submissions.
- *Three accounts* are an owner, its nominee and a nominee that replaces it; *two
  ids* are one switched while another is registered; rates up to 2 in 5 and
  yields 0, 1, 3, 7 leave every remainder, and 12 is a product that overflows.
  One event is remembered: the property is about each.
- *Two contracts, two salts, depth three*: a constructor that deploys its own
  route, its caller's, or a third inside the second.

Symmetry is used for safety only, for handoff ids and owners of good records in
`handoff`. The calls of a client may all be spent, and all routes of all deployers
used, so `sdk_checks` and `create3` do not check for deadlock; the others do.

Every property has a mutant: a definition of the model replaced by a slip a
programmer could make (an unpinned custody account, a floor not compared, a slot
dropped, an overlay in the other order, a flag not set), under which TLC must
find the property violated.

## 4. Fairness

- `Handoff!FairSpec`: weak fairness of `Receive(id)` and `Exit(id)`. Both
  instructions are permissionless: a relayer retries, and the owner can submit
  them itself. Nothing is assumed of the authority, the bridge or the venue; the
  liveness properties state as hypotheses what they need of them (the adapter
  stays usable, the position stays recoverable, ingress stays open).
- `ForwardRouter!FairSpec`: weak fairness of the authority's `Initialize` and
  `InitFeeConfig`: it sends its set-up instructions until they land. Nothing is
  assumed of anybody who sends lamports to their addresses meanwhile.
- `SdkClient!Fairness`: the event loop runs a queued microtask, and every fetch
  settles. The second is the platform's, as the client sets no timeout; without
  it a check that hangs fills no cache.

## 5. What is proved

| Theorem | Statement |
|---|---|
| `RegistryV2Proofs!RegistrySafe` | type correctness and one slot per adapter |
| `RegistryV2Proofs!RegistryNeverRepointed` | bindings are never re-pointed or dropped |
| `HandoffProofs!TypeCorrect`, `BooksAlwaysBalance`, `DestinationAlwaysLocked`, `ExitBindingAlwaysKept` | the invariants of the runs |
| `HandoffProofs!SingleUseAlways`, `HandoffsNeverRepoint` | the action properties of the runs |
| `HandoffProofs!PromiseAlwaysKept` | `Handoff` implements `HandoffPromise` |
| `HandoffProofs!LateDeliveryStays` | what is delivered once a position is open is taken out of custody by no instruction |
| `HandoffProofs!StuckForGood` | a position whose floor is above its principal, or whose owner owns no token account, is locked for good; entry accepts both (lib.rs:1448, section 6) |
| `ForwardProofs!ForwardTypeCorrect`, `MarginfiAlwaysReported` | the invariants of `forward` |
| `ForwardProofs!KaminoAlwaysOwnerRooted`, `WithdrawAlwaysPaysOwner`, `RouterAlwaysSpendsAsBound` | action properties of `forward` |
| `FeeConfigProofs!WaterfallAlwaysConserves`, `ProfitQuotesAlwaysAgree`, `PrincipalNeverEverCharged` | for any tables, contexts and amounts |
| `FeeConfigProofs!FundLegsAlwaysKeepRates` | for any tables in which no opportunity row marks the strategy fee (below) |
| `SdkClientProofs!ChecksStartOnce`, `KnownAlwaysTold` | for any number of calls |
| `PathBProofs!DecodeAfterEncode`, `EncodeAfterDecode`, `PayloadsBind` | the codec and its inverse, for any widths and bytes |
| `PathBProofs!TypeCorrect`, `BodyAlwaysIsMessage`, `OneHandlerAlways`, `RequestIdsAlwaysBind`, `AccountsAlwaysFollow`, `ReturnsAlwaysFollow` | every property of `path_b`, for any submissions |
| `EvmProofs!CountAlwaysExact`, `SkimAlwaysInFavour`, `OwnershipAlwaysHandedOver` | the properties of `thin_router`, and its types |
| `EvmProofs!ProxyAlwaysOneShot`, `RouteAlwaysOpen`, `NothingEverHalfway` | the properties of `create3`, for any deployers, salts and depth of calls |
| `KaminoProofs!FrameAlwaysChecked`, `RefreshAlwaysOnceInOrder`, `CurrentFrameAlwaysAccepted` | the invariants of `kamino`, for any reserves, positions and frames |
| `KaminoProofs!NothingStaleLands` | a transaction lands only if the positions it lists are the obligation's at that moment, all of them pinned; with a referrer and a borrow, only on the very frame a client would compose then |

They hold for any number of handoffs, owners, adapters, programs, slots, calls,
messages and ids and for any amounts, from the named assumptions of the modules:
the null keys are not keys, jupiter-lend is an adapter and its program a program,
the authority is a signer, widths are ordered, bounds are natural numbers
(`RegistryAssumption`, `HandoffAssumption`, `ForwardAssumption`, `FeeAssumption`,
`SdkAssumption`, `CodecAssumption`, `PathBAssumption`, `ThinRouterAssumption`,
`KaminoAssumption`: the program pins finitely many reserves, and every reserve has
a referrer token state of its own, an account that is no reserve).
One theorem has a hypothesis besides: an opportunity row that marks the strategy
fee superseded or locked would switch off fund #3's ROI leg, since a strategy row
overrides only the fields it has. `OpportunitiesMarkNothing` says that none does;
the shipped opportunity table is empty.

*The inductive invariant.* `BooksBalance`, `DestinationLocked` and
`ExitBindingKept` are not inductive alone. An exit pays at most what is
*remaining*, while the lock speaks of the *principal*: `ExitBindingKept` carries
that the two are equal while a position is active. An entry starts the books of a
handoff: it needs that nothing was attributed to it before
(`UntouchedUntilOpened`). An exit finds the registry as it is now: the binding
survives because `OneSlotPerAdapter` makes `FindIndex` the slot it was, and every
registry step keeps the slots (`BindingsKeptByLookup`). The refinement maps
principal and floor to `Micros`: `WithinMicros` bounds both, the first through
the books. `IInv` is their conjunction. The proof of `NextInv` has a lemma per
action (`ConfigStep`, `RegistryStepKeepsHandoffs`, `ReceiveStep`, `ExitStep`,
`DeliverStep`, `RevalueStep`), each about one handoff (`IInvByHandoff` puts them
together). The refinement takes `Receive` to `Open` of the abstract handoff,
`Exit` to `Close` and every other step to a stutter.

*The forward router.* `DepositMoves` and `WithdrawMoves` say what a venue's two
movements do holder by holder; `KaminoMoves`, `MarginfiMoves` and
`ReceiptArmMoves` what each arm may touch; `CpiMoves` puts dispatch together. The
invariant needs little (`Inv`: the registry's, the types, and Marginfi's books),
because the arms guard every subtraction: that is what `ForwardTypeCorrect` says.
Each instruction is then one of three kinds of step: quiet, moving tokens and
receipts, or one owner's own (`QuietStep`, `MovingStep`, `KaminoStep`), and a
step lemma per instruction shows which, for the invariant and both action
properties at once (`StepSafe`). What the router gives up needs a finer account
of the arms: `CpiSpends` says that an arm takes the router's tokens only for a
position of the same amount (`Invests`), and receipts of its own venue only, for
one payment of at most as much (`Redeems`), and
`GateMakesUsable` that the registry's gate and the arm's own pin together leave
no other venue.

*The fee lemmas* are about integer division: a fraction of at most 10000 basis
points lies between zero and the amount (`FractionBounds`), so the split of a
split conserves (`SplitConserves`). That the resolved rates are within bounds
needs no induction: the waterfall refuses others. For the overrides, `FieldsWin`
says which row a merged field comes from, whatever lies below it; the lock, which
is the last overlay, then decides the principal rails (`LockedFields`), and the
strategy row the legs of fund #3 (`LegRows`).

*Path B.* `TypeOK` is inductive and already says all: what is in `gated` passed
every check. The rest are facts about two checked instructions. `ReadWritten` and
`WrittenRead` are the two directions for one word, `LayoutsAgree` that encoder and
decoder have the same layout, `LengthTells` which types a length leaves.
`OneHandlerPerBody` rests on the local and the remote network being different
(`DirectionsExclude`); for accounts, `RoleKeys` reads from the six lists which key
stands in the slot of a role, and `KeysApart` that keys of different handoffs
differ. `RequestIdsBind` needs that a request id hashes one word more than any
commitment of a request, and no message of another type is that long.

*Thin router.* An heir who accepts was named last by the *present* owner: that is
`PendingNamed`, and a transfer of ownership keeps it because accepting clears the
nomination. *SDK client.* Started checks are counted by the flag (`FlagCounts`),
which is set only after a success (`FlagEarned`); the checks' own calls succeed
too, and it is the flag, set before the microtask is queued, that keeps them out.

*Factory.* A frame keeps the world it returns to if its constructor fails, and
the frames below it keep older ones, so an invariant of the present world says
nothing of the one a failure brings back. `FactoryInv` therefore speaks of every
world: the present one is well-formed but for the proxies of the frames under way
(`WorldOK(world, InFlight(...))`), and the world kept at depth `i` is well-formed
but for the proxies of the frames below `i`. A proxy in flight has not
deployed; no two frames have one route. A deployment adds the proxy of the
new frame to those in flight, the end of a constructor takes it out, and a failure
falls back on a world that was described already. A proxy's event names what
CREATE answered, and whether code is there is kept apart (`bare`): a constructor
may leave none, and its route is used up all the same. With no frame left there is no
exception left: that is `RouteOpen` and `NothingHalfway`.

*Kamino.* The types are the invariant; the rest is about frames and lists. The
library's induction takes an operator, so `InductionUpTo` is stated for a set of
numbers, from the least number outside it; `SeenExists` and `SeenOnce` follow the
loop over the listed reserves with it, prefix by prefix, and give
`RefreshReservesOnce`: all listed and the current one, once each, that one last.
For the format, `FrameSections` shows that the scan finds the three sections a
frame was composed from, `FrameCut` that a delimited frame of writable accounts is
composed of its own sections; the two directions of `FormatOf` follow, with
`DistinctIsShort` (a list without repetitions is no longer than the pinned
reserves are many). `TwoLoops` has the loop of the infos make the choices of the
loop of the instructions, and `InfosPaired` that each instruction finds its
accounts. `CurrentAccepted` puts them together: the obligation's own
lists are without repetitions, so their frame has the format, and what the
sequence refreshes is what KLend wants fresh. `LandingStep` goes the other way,
from what KLend accepted to the obligation; the number of referrer states fixes
where deposits end and borrows begin, and without them the two are told apart by
no one.

Model-checked only: liveness (fairness and `ENABLED` are outside the prover) and
the refuted claims. Every invariant and every safety action property of a run has
a theorem.

## 6. Where text and code disagree

Each is a run whose counterexample is the code's behaviour.

1. lib.rs:1150-1151 says an origin owner that is not a real Solana key is
   rejected; `assert_solana_origin_owner` refuses only the null key. A receive
   for a left-padded EVM owner opens a position that no payout account matches
   (`OnlyPayableOwners`).
2. README.md:24 says the owner can exit at any time; the exit goes through the
   registry gate, so a deactivated adapter closes it (`CanExitAnyTime`).
3. lib.rs:187-188 says that a signer-owned payout account is not sufficient
   authority to withdraw a router-held position, and 5354-5356 that what a
   `ForwardDeposit` parked on the router is recovered by the authority, not by a
   user. `ForwardWithdraw` is closed to those venues; `ForwardDeposit` with a
   withdrawal payload is not, and pays any destination
   (`RouterHeldNotWithdrawnByUsers`).

Seen while modelling and not run: lib.rs:472-473 says that the remaining principal
only decreases by a measured withdrawal, and an exit of any part sets it to zero
(lib.rs:1475), whatever stays behind; a target that left no code uses a route up
(DayCreate3Factory.sol:23-27, 50-56); packages/sdk/README.md:99 speaks of a one-time
warning, and an automatic check and one asked for meanwhile both warn;
lib.rs:66-68 says the profit fee may be flipped enabled later, and `SetProfitFee`
refuses it; lib.rs:171 says a deposit lands in the user's position, which only
Kamino's does; lib.rs:186 and 1934-1936 say that `ForwardWithdraw` is closed and
that dispatch is a stub, and four arms have been wired since;
lib.rs:248-250 says that unpausing grants no
money-moving path, which `ReceiveAndForwardDeposit` has since become; lib.rs:323-324
says that a mismatch with the claim is rejected, and only a smaller delivery is;
lib.rs:326 calls the floor the minimum the owner is exit-capable for, and it is
not compared with the principal; lib.rs:3078 says the Kamino arm binds USDC metas,
and it accepts ten reserves; packages/sdk/README.md:66 gives rates of 500, 100 and
100 for skim, swap and gas, and the runtime charges 0, 10 and 10;
reverse_attestation.rs:453 says that the account list of a withdrawal request
locks the owner, and the account it names is bound to nothing
(`let _ = source_owner`); `redeem_return` asks for the attestation of a return and
not for the redeem manifest hash that `redeem` asks for; the request id of an
executed withdrawal pins its account and is compared with nothing in the message;
idempotency.mjs:20-21 says that delimiters stay unambiguous, and wallets `a_b` and
`a-b` build one key.

## 7. Not modelled, and what is left

- *V1 registry and plan handlers* (lib.rs 5592-5657, 5760-5885). The plan
  handlers write a log line marked `intent_only` and nothing else; the V1 registry
  is read by them alone (lib.rs:366-367). Its slots are filled and searched as the
  V2 registry's, without the program that is what can go wrong there. Their
  arithmetic is `Fraction`.
- *OApp scaffold and peer registration*: an error on every path, so no step.
- *SDK values* (idempotency keys, micros strings): regular expressions over one
  string. A model would spell strings out.
- *Adapter interface*: synonyms and a shape check; no adapter is in the repository.
- *`bps.mjs` helpers* for net APY and notional, labels and query parsing of the fee
  schedule: presentation.
- *Schemas, SQL, Solidity interfaces*: no code of the repository runs them.
- *Behind the gates of path B*: nothing exists in the code. When receipts and
  transfers are wired there, `gated` becomes their state, and single use of the
  receipts the first property to state.

Proofs that could follow: a Kamino transaction refused changes nothing, stated
between `KaminoSequence` and `ForwardRouter`, which abstracts its frame; and that
`ForwardRouter`'s arms implement a venue that only moves what it is asked to.

----------------------------- MODULE ThinRouter -----------------------------
(***************************************************************************)
(* DayThinRouter.sol: a contract that holds no funds.  Its owner keeps a   *)
(* list of strategies, a skim rate and a pause; anybody may announce the   *)
(* deposit it plans, and the owner a harvest with the skim it takes.       *)
(*                                                                         *)
(* Every action is one successful call; a call that reverts changes        *)
(* nothing.  Events are what the contract is for: `planned' keeps them.    *)
(***************************************************************************)
EXTENDS Naturals, FiniteSets

CONSTANTS
    Accounts,               \* who may call
    Zero,                   \* address(0)
    Ids,                    \* strategy ids
    Amounts,                \* amounts planned, in micros
    MAX_YIELD_SKIM_BPS,     \* 1000 in the code,
    DEFAULT_YIELD_SKIM_BPS, \* 500,
    BPS,                    \* 10 000
    MAX_UINT256,
    MaxPlanned              \* bound: events remembered

ASSUME ThinRouterAssumption ==
    /\ Zero \notin Accounts
    /\ Amounts \subseteq Nat
    /\ BPS \in Nat /\ MAX_YIELD_SKIM_BPS \in 1 .. BPS
    /\ DEFAULT_YIELD_SKIM_BPS \in 1 .. MAX_YIELD_SKIM_BPS
    /\ MAX_UINT256 \in Nat /\ MaxPlanned \in Nat

VARIABLES
    owner, pendingOwner, paused, yieldSkimBps,
    strategies,             \* ids that are active
    registered,             \* ids that are known
    strategyCount,
    planned,                \* history: the events of the plan functions
    sender,                 \* history: who called last
    named                   \* history: whom each account named last as owner

ownership == <<owner, pendingOwner, named>>
settings == <<paused, yieldSkimBps, strategies, registered, strategyCount>>
vars == <<ownership, settings, planned, sender>>

-----------------------------------------------------------------------------
(* Modifiers. *)

Calls(account) == sender' = account
OnlyOwner(account) == account = owner
WhenNotPaused == ~paused

-----------------------------------------------------------------------------
(* Ownership. *)

\* Mutant: a nomination that is pending is not replaced.
FirstHeirStays(account, newOwner) ==
    /\ OnlyOwner(account)
    /\ newOwner # Zero
    /\ pendingOwner' = IF pendingOwner = Zero THEN newOwner ELSE pendingOwner
    /\ named' = [named EXCEPT ![account] = newOwner]
    /\ Calls(account)
    /\ UNCHANGED <<owner, settings, planned>>

TransferOwnership(account, newOwner) ==
    /\ OnlyOwner(account)
    /\ newOwner # Zero
    /\ pendingOwner' = newOwner
    /\ named' = [named EXCEPT ![account] = newOwner]
    /\ Calls(account)
    /\ UNCHANGED <<owner, settings, planned>>

AcceptOwnership(account) ==
    /\ account = pendingOwner
    /\ owner' = account
    /\ pendingOwner' = Zero
    /\ Calls(account)
    /\ UNCHANGED <<named, settings, planned>>

-----------------------------------------------------------------------------
(* Settings. *)

Pause(account) ==
    /\ OnlyOwner(account)
    /\ ~paused
    /\ paused' = TRUE
    /\ Calls(account)
    /\ UNCHANGED <<ownership, yieldSkimBps, strategies, registered,
                   strategyCount, planned>>

Unpause(account) ==
    /\ OnlyOwner(account)
    /\ paused
    /\ paused' = FALSE
    /\ Calls(account)
    /\ UNCHANGED <<ownership, yieldSkimBps, strategies, registered,
                   strategyCount, planned>>

\* Mutant: a strategy may be registered again.
RegisterAgain(account, id) ==
    /\ OnlyOwner(account)
    /\ WhenNotPaused
    /\ id \notin strategies
    /\ registered' = registered \cup {id}
    /\ strategies' = strategies \cup {id}
    /\ strategyCount' = strategyCount + 1
    /\ Calls(account)
    /\ UNCHANGED <<ownership, paused, yieldSkimBps, planned>>

\* (The count, whose increment is unchecked, has as many values as the ids.)
RegisterStrategy(account, id) ==
    /\ OnlyOwner(account)
    /\ WhenNotPaused
    /\ id \notin registered
    /\ registered' = registered \cup {id}
    /\ strategies' = strategies \cup {id}
    /\ strategyCount' = strategyCount + 1
    /\ Calls(account)
    /\ UNCHANGED <<ownership, paused, yieldSkimBps, planned>>

SetActive(account, id, active) ==
    /\ OnlyOwner(account)
    /\ id \in registered
    /\ strategies' = IF active THEN strategies \cup {id} ELSE strategies \ {id}
    /\ Calls(account)
    /\ UNCHANGED <<ownership, paused, yieldSkimBps, registered, strategyCount,
                   planned>>

SetYieldSkimBps(account, newSkimBps) ==
    /\ OnlyOwner(account)
    /\ newSkimBps # 0
    /\ newSkimBps <= MAX_YIELD_SKIM_BPS
    /\ yieldSkimBps' = newSkimBps
    /\ Calls(account)
    /\ UNCHANGED <<ownership, paused, strategies, registered, strategyCount,
                   planned>>

-----------------------------------------------------------------------------
(* Plans. *)

Usable(id) == id \in registered /\ id \in strategies

Announce(event) ==
    /\ planned' = planned \cup {event}
    /\ Cardinality(planned') <= MaxPlanned
    /\ UNCHANGED <<ownership, settings>>

PlanDeposit(account, id, amount) ==
    /\ WhenNotPaused
    /\ amount # 0
    /\ Usable(id)
    /\ Announce([event |-> "deposit", owner |-> account, strategy |-> id,
                 gross |-> amount, skim |-> 0, net |-> amount, bps |-> 0])
    /\ Calls(account)

\* Mutant: the skim is rounded up.
SkimRoundedUp(gross) == (gross * yieldSkimBps + (BPS - 1)) \div BPS

Skim(gross) == (gross * yieldSkimBps) \div BPS

\* The product is checked: a gross yield too large for it reverts.
PlanHarvestSkim(account, id, gross) ==
    /\ OnlyOwner(account)
    /\ WhenNotPaused
    /\ gross # 0
    /\ Usable(id)
    /\ gross * yieldSkimBps <= MAX_UINT256
    /\ Announce([event |-> "harvest", owner |-> account, strategy |-> id,
                 gross |-> gross, skim |-> Skim(gross),
                 net |-> gross - Skim(gross), bps |-> yieldSkimBps])
    /\ Calls(account)

-----------------------------------------------------------------------------
Init ==
    /\ owner \in Accounts           \* the deployer
    /\ pendingOwner = Zero
    /\ paused = FALSE
    /\ yieldSkimBps = DEFAULT_YIELD_SKIM_BPS
    /\ strategies = {} /\ registered = {} /\ strategyCount = 0
    /\ planned = {}
    /\ sender = owner
    /\ named = [account \in Accounts |-> Zero]

Next ==
    \E account \in Accounts :
        \/ \E heir \in Accounts \cup {Zero} : TransferOwnership(account, heir)
        \/ AcceptOwnership(account)
        \/ Pause(account)
        \/ Unpause(account)
        \/ \E id \in Ids : RegisterStrategy(account, id)
        \/ \E id \in Ids, active \in BOOLEAN : SetActive(account, id, active)
        \/ \E bps \in 0 .. MAX_YIELD_SKIM_BPS + 1 : SetYieldSkimBps(account, bps)
        \/ \E id \in Ids, amount \in Amounts : PlanDeposit(account, id, amount)
        \/ \E id \in Ids, gross \in Amounts : PlanHarvestSkim(account, id, gross)

Spec == Init /\ [][Next]_vars

-----------------------------------------------------------------------------
(* Properties. *)

Event ==
    [event : {"deposit", "harvest"}, owner : Accounts, strategy : Ids,
     gross : Nat, skim : Nat, net : Nat, bps : Nat]

TypeOK ==
    /\ owner \in Accounts
    /\ pendingOwner \in Accounts \cup {Zero}
    /\ paused \in BOOLEAN
    /\ yieldSkimBps \in 1 .. MAX_YIELD_SKIM_BPS
    /\ registered \in SUBSET Ids /\ IsFiniteSet(registered)
    /\ strategies \in SUBSET registered
    /\ strategyCount \in Nat
    /\ planned \in SUBSET Event
    /\ sender \in Accounts
    /\ named \in [Accounts -> Accounts \cup {Zero}]

\* The count says how many strategies there are, however often they are
\* switched off and on and whatever registerStrategy is asked to repeat.
CountExact == strategyCount = Cardinality(registered)

\* Every announced skim is the rate's share of the yield rounded in the
\* user's favour by less than one unit, within the protocol's cap, and leaves
\* the rest of it; a deposit is announced whole. No rate the owner sets in
\* between changes that.
SkimInFavour ==
    \A e \in planned :
        /\ e.skim + e.net = e.gross
        /\ e.skim * BPS <= e.gross * e.bps
        /\ e.gross * e.bps < (e.skim + 1) * BPS
        /\ e.skim * BPS <= e.gross * MAX_YIELD_SKIM_BPS
        /\ e.event = "deposit" => e.skim = 0

\* Ownership passes only to the account the owner named last, by that
\* account's own call: a superseded nomination gives nothing, and neither does
\* one by somebody who is no longer the owner. Nothing else an account may do
\* changes the settings unless it is the owner.
HandedOver ==
    /\ owner' # owner => owner' = named[owner] /\ sender' = owner'
    /\ settings' # settings => sender' = owner

OwnershipHandedOver == [][HandedOver]_vars
=============================================================================

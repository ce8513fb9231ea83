------------------------------ MODULE EvmProofs ------------------------------
(***************************************************************************)
(* Proofs about the contracts: DayThinRouter, for any accounts, strategies,*)
(* amounts and rates, and DayCreate3Factory, for any deployers, contracts, *)
(* salts and depth of reentrancy.                                          *)
(***************************************************************************)
EXTENDS ThinRouter, Create3Factory, FiniteSetTheorems, SequenceTheorems, TLAPS

(***************************************************************************)
(*                              DayThinRouter                              *)
(***************************************************************************)
-----------------------------------------------------------------------------
(* Arithmetic. *)

LEMMA FloorDivision ==
    ASSUME NEW n \in Nat, NEW d \in Nat, d > 0
    PROVE  /\ n \div d \in Nat
           /\ (n \div d) * d <= n
           /\ n < (n \div d + 1) * d
OBVIOUS

LEMMA ProductMonotone ==
    ASSUME NEW g \in Nat, NEW x \in Nat, NEW y \in Nat, x <= y
    PROVE  g * x \in Nat /\ g * x <= g * y
<1>1. PICK z \in Nat : y = x + z
  BY y - x \in Nat, y = x + (y - x)
<1>2. g * y = g * x + g * z /\ g * z \in Nat /\ g * x \in Nat
  BY <1>1
<1> QED
  BY <1>2

\* The skim of a yield: within the rate's share of it.
LEMMA SkimBounds ==
    ASSUME NEW gross \in Nat, yieldSkimBps \in 1 .. MAX_YIELD_SKIM_BPS
    PROVE  /\ Skim(gross) \in Nat
           /\ Skim(gross) * BPS <= gross * yieldSkimBps
           /\ gross * yieldSkimBps < (Skim(gross) + 1) * BPS
           /\ Skim(gross) * BPS <= gross * MAX_YIELD_SKIM_BPS
           /\ Skim(gross) <= gross
<1> DEFINE s == Skim(gross)
           share == gross * yieldSkimBps
<1>1. /\ BPS \in Nat /\ BPS > 0 /\ MAX_YIELD_SKIM_BPS \in Nat
      /\ MAX_YIELD_SKIM_BPS <= BPS
      /\ yieldSkimBps \in Nat /\ yieldSkimBps <= MAX_YIELD_SKIM_BPS
  BY ThinRouterAssumption
<1>2. share \in Nat /\ share <= gross * MAX_YIELD_SKIM_BPS
  BY <1>1, ProductMonotone
<1>3. gross * MAX_YIELD_SKIM_BPS <= gross * BPS
  BY <1>1, ProductMonotone
<1>4. s \in Nat /\ s * BPS <= share
        /\ share < (s + 1) * BPS
  BY <1>1, <1>2, FloorDivision DEF Skim
<1>5. s <= gross
  <2> SUFFICES ASSUME s > gross PROVE FALSE
    BY <1>4
  <2>1. BPS * (gross + 1) <= BPS * s
    BY <1>1, <1>4, ProductMonotone
  <2>2. BPS * (gross + 1) = gross * BPS + BPS /\ BPS * s = s * BPS
    BY <1>1, <1>4
  <2>3. gross * BPS \in Nat /\ s * BPS \in Nat /\ gross * MAX_YIELD_SKIM_BPS \in Nat
    BY <1>1, <1>4, ProductMonotone
  <2> QED
    BY <1>1, <1>2, <1>3, <1>4, <2>1, <2>2, <2>3
<1> QED
  BY <1>1, <1>2, <1>4, <1>5, ProductMonotone

-----------------------------------------------------------------------------
(* The inductive invariant. *)

\* A pending nomination is the last one of the owner.
PendingNamed == pendingOwner # Zero => pendingOwner = named[owner]

IInv == TypeOK /\ CountExact /\ SkimInFavour /\ PendingNamed

\* A call that announces nothing and leaves the settings alone.
LEMMA Kept ==
    ASSUME IInv, UNCHANGED settings, UNCHANGED planned
    PROVE  CountExact' /\ SkimInFavour'
BY DEF IInv, settings, CountExact, SkimInFavour

LEMMA InitIInv == Init => IInv
<1> SUFFICES ASSUME Init PROVE IInv
  OBVIOUS
<1>1. TypeOK
  BY ThinRouterAssumption, FS_EmptySet DEF Init, TypeOK
<1>2. CountExact
  BY FS_EmptySet DEF Init, CountExact
<1> QED
  BY <1>1, <1>2 DEF Init, IInv, SkimInFavour, PendingNamed

LEMMA NextIInv == IInv /\ [Next]_vars => IInv'
<1> SUFFICES ASSUME IInv, [Next]_vars PROVE IInv'
  OBVIOUS
<1> USE ThinRouterAssumption
<1>1. ASSUME NEW account \in Accounts, NEW heir \in Accounts \cup {Zero},
             TransferOwnership(account, heir)
      PROVE  IInv'
  <2>1. TypeOK' /\ PendingNamed'
    BY <1>1 DEF TransferOwnership, OnlyOwner, Calls, IInv, TypeOK, PendingNamed,
       settings
  <2> QED
    BY <1>1, <2>1, Kept DEF TransferOwnership, IInv
<1>2. ASSUME NEW account \in Accounts, AcceptOwnership(account)
      PROVE  IInv'
  <2>1. TypeOK' /\ PendingNamed'
    BY <1>2 DEF AcceptOwnership, Calls, IInv, TypeOK, PendingNamed, settings
  <2> QED
    BY <1>2, <2>1, Kept DEF AcceptOwnership, IInv
<1>3. ASSUME NEW account \in Accounts, Pause(account) \/ Unpause(account)
      PROVE  IInv'
  BY <1>3 DEF Pause, Unpause, Calls, ownership, IInv, TypeOK, CountExact,
     SkimInFavour, PendingNamed
<1>4. ASSUME NEW account \in Accounts, NEW id \in Ids,
             RegisterStrategy(account, id)
      PROVE  IInv'
  <2>1. IsFiniteSet(registered') /\ Cardinality(registered') = strategyCount + 1
    BY <1>4, FS_AddElement DEF RegisterStrategy, IInv, TypeOK, CountExact
  <2>2. TypeOK' /\ PendingNamed' /\ SkimInFavour'
    BY <1>4, <2>1 DEF RegisterStrategy, Calls, ownership, IInv, TypeOK,
       SkimInFavour, PendingNamed
  <2>3. CountExact'
    BY <1>4, <2>1 DEF RegisterStrategy, CountExact
  <2> QED
    BY <2>2, <2>3 DEF IInv
<1>5. ASSUME NEW account \in Accounts, NEW id \in Ids, NEW active \in BOOLEAN,
             SetActive(account, id, active)
      PROVE  IInv'
  BY <1>5 DEF SetActive, Calls, ownership, IInv, TypeOK, CountExact,
     SkimInFavour, PendingNamed
<1>6. ASSUME NEW account \in Accounts, NEW bps \in 0 .. MAX_YIELD_SKIM_BPS + 1,
             SetYieldSkimBps(account, bps)
      PROVE  IInv'
  BY <1>6 DEF SetYieldSkimBps, Calls, ownership, IInv, TypeOK, CountExact,
     SkimInFavour, PendingNamed
<1>7. ASSUME NEW account \in Accounts, NEW id \in Ids, NEW amount \in Amounts,
             PlanDeposit(account, id, amount)
      PROVE  IInv'
  <2> DEFINE e == [event |-> "deposit", owner |-> account, strategy |-> id,
                   gross |-> amount, skim |-> 0, net |-> amount, bps |-> 0]
  <2>1. planned' = planned \cup {e} /\ UNCHANGED <<ownership, settings>>
        /\ sender' = account
    BY <1>7 DEF PlanDeposit, Announce, Calls
  <2>2. e \in Event /\ amount \in Nat
    BY DEF Event
  <2>3. /\ e.skim + e.net = e.gross
        /\ e.skim * BPS <= e.gross * e.bps
        /\ e.skim * BPS <= e.gross * MAX_YIELD_SKIM_BPS
        /\ e.skim = 0
    BY <2>2, ProductMonotone
  <2>4. e.gross * e.bps < (e.skim + 1) * BPS
    BY <2>2, ThinRouterAssumption
  <2> HIDE DEF e
  <2> QED
    BY <2>1, <2>2, <2>3, <2>4 DEF ownership, settings, IInv, TypeOK,
       CountExact, SkimInFavour, PendingNamed
<1>8. ASSUME NEW account \in Accounts, NEW id \in Ids, NEW gross \in Amounts,
             PlanHarvestSkim(account, id, gross)
      PROVE  IInv'
  <2> DEFINE e == [event |-> "harvest", owner |-> account, strategy |-> id,
                   gross |-> gross, skim |-> Skim(gross),
                   net |-> gross - Skim(gross), bps |-> yieldSkimBps]
  <2>1. planned' = planned \cup {e} /\ UNCHANGED <<ownership, settings>>
        /\ sender' = account
    BY <1>8 DEF PlanHarvestSkim, Announce, Calls
  <2>2. /\ gross \in Nat /\ yieldSkimBps \in Nat /\ Skim(gross) \in Nat
        /\ Skim(gross) <= gross
        /\ Skim(gross) * BPS <= gross * yieldSkimBps
        /\ gross * yieldSkimBps < (Skim(gross) + 1) * BPS
        /\ Skim(gross) * BPS <= gross * MAX_YIELD_SKIM_BPS
    BY SkimBounds DEF IInv, TypeOK
  <2>3. e \in Event /\ e.skim + e.net = e.gross /\ e.event # "deposit"
        /\ e.skim * BPS <= e.gross * e.bps
        /\ e.gross * e.bps < (e.skim + 1) * BPS
        /\ e.skim * BPS <= e.gross * MAX_YIELD_SKIM_BPS
    BY <2>2 DEF Event
  <2> HIDE DEF e
  <2> QED
    BY <2>1, <2>3 DEF ownership, settings, IInv, TypeOK, CountExact,
       SkimInFavour, PendingNamed
<1>9. CASE UNCHANGED vars
  BY <1>9 DEF vars, ownership, settings, IInv, TypeOK, CountExact, SkimInFavour,
     PendingNamed
<1> QED
  BY <1>1, <1>2, <1>3, <1>4, <1>5, <1>6, <1>7, <1>8, <1>9 DEF Next

LEMMA Invariant == Spec => []IInv
BY InitIInv, NextIInv, PTL DEF Spec

\* TypeOK and CountExact, for any strategies.
THEOREM CountAlwaysExact == Spec => [](TypeOK /\ CountExact)
<1>1. IInv => TypeOK /\ CountExact
  BY DEF IInv
<1> QED
  BY <1>1, Invariant, PTL

\* SkimInFavour, for any rates and yields.
THEOREM SkimAlwaysInFavour == Spec => []SkimInFavour
<1>1. IInv => SkimInFavour
  BY DEF IInv
<1> QED
  BY <1>1, Invariant, PTL

\* OwnershipHandedOver, for any accounts.
THEOREM OwnershipAlwaysHandedOver == Spec => OwnershipHandedOver
<1>1. IInv /\ [Next]_vars => [HandedOver]_vars
  <2> SUFFICES ASSUME IInv, Next PROVE HandedOver
    OBVIOUS
  <2>1. PICK account \in Accounts :
            \/ \E heir \in Accounts \cup {Zero} : TransferOwnership(account, heir)
            \/ AcceptOwnership(account)
            \/ Pause(account)
            \/ Unpause(account)
            \/ \E id \in Ids : RegisterStrategy(account, id)
            \/ \E id \in Ids, active \in BOOLEAN : SetActive(account, id, active)
            \/ \E bps \in 0 .. MAX_YIELD_SKIM_BPS + 1 : SetYieldSkimBps(account, bps)
            \/ \E id \in Ids, amount \in Amounts : PlanDeposit(account, id, amount)
            \/ \E id \in Ids, gross \in Amounts : PlanHarvestSkim(account, id, gross)
    BY DEF Next
  <2>2. CASE AcceptOwnership(account)
    BY <2>2, ThinRouterAssumption DEF AcceptOwnership, Calls, HandedOver, IInv,
       PendingNamed
  <2>3. CASE ~AcceptOwnership(account)
    BY <2>1, <2>3 DEF TransferOwnership, Pause, Unpause, RegisterStrategy,
       SetActive, SetYieldSkimBps, PlanDeposit, PlanHarvestSkim, Announce,
       OnlyOwner, Calls, ownership, HandedOver
  <2> QED
    BY <2>2, <2>3
<1> QED
  BY <1>1, Invariant, PTL DEF Spec, OwnershipHandedOver

(***************************************************************************)
(*                            DayCreate3Factory                            *)
(***************************************************************************)
-----------------------------------------------------------------------------
(* The inductive invariant: ProxyOneShot speaks of every world, those a    *)
(* failure returns to included, RouteOpen and NothingHalfway only of the   *)
(* world between transactions; FactoryInv says what holds in the middle.   *)

\* What a deployment that succeeds announces.
Events == {<<d, s, Predict(d, s)>> : d \in Deployers, s \in Salts}

World ==
    [proxies : SUBSET Proxies, nonce : [Proxies -> 0..2],
     deployed : [Proxies -> {ZeroAddress} \cup {Created(p, 1) : p \in Proxies}],
     code : SUBSET {Created(p, 1) : p \in Proxies},
     bare : SUBSET {Created(p, 1) : p \in Proxies}, events : SUBSET Events]

\* The proxies whose constructor is under way in the lowest deployments.
InFlight(n) == {frames[i].proxy : i \in 1..n}

\* Exactly the targets that are there, with or without code, were announced.
Told(w) ==
    /\ {e[3] : e \in w.events} = w.code \cup w.bare
    /\ w.code \cap w.bare = {}

\* A world in which exactly the proxies in flight have yet to deploy.
WorldOK(w, flying) ==
    /\ w \in World
    /\ \A p \in Proxies \ w.proxies :
        w.nonce[p] = 0 /\ w.deployed[p] = ZeroAddress
    /\ flying \subseteq w.proxies
    /\ \A p \in flying : w.deployed[p] = ZeroAddress
    /\ \A p \in w.proxies \ flying :
        /\ w.deployed[p] = Created(p, 1) /\ w.deployed[p] # ZeroAddress
        /\ \E e \in w.events : e[3] = w.deployed[p]
    /\ \A e \in w.events : Proxy(e[1], e[2]) \in w.proxies \ flying
    /\ Told(w)

Frame ==
    [stage : {"proxy", "constructor"}, deployer : Deployers, salt : Salts,
     proxy : Proxies, caller : {Factory},
     target : {ZeroAddress} \cup {Created(p, 1) : p \in Proxies},
     before : World, entry : World]

\* A deployment: one between the proxy's creation and its call is the top one.
FrameOK(i) ==
    LET frame == frames[i] IN
    /\ frame.proxy = Proxy(frame.deployer, frame.salt)
    /\ frame.proxy \notin InFlight(i - 1)
    /\ WorldOK(frame.before, InFlight(i - 1))
    /\ frame.stage = "proxy" => i = Len(frames) /\ world.nonce[frame.proxy] = 1
    /\ frame.stage = "constructor" => frame.target = Created(frame.proxy, 1)

\* Each deployment under way has a proxy of its own, in flight in the world as
\* it is; the world it would return to has those below it in flight.
FactoryInv ==
    /\ frames \in Seq(Frame)
    /\ WorldOK(world, InFlight(Len(frames)))
    /\ \A i \in 1..Len(frames) : FrameOK(i)

-----------------------------------------------------------------------------
(* Addresses and worlds. *)

\* No two routes share a proxy, and no two proxies an address.
LEMMA AddressesDiffer ==
    ASSUME NEW d, NEW s, NEW d2, NEW s2, NEW p, NEW q
    PROVE  /\ Proxy(d, s) = Proxy(d2, s2) => d = d2 /\ s = s2
           /\ Created(p, 1) = Created(q, 1) => p = q
BY DEF Proxy, NamespacedSalt, Created

\* An event names the address predicted for its route.
LEMMA EventShape ==
    ASSUME NEW e \in Events
    PROVE  /\ e[1] \in Deployers /\ e[2] \in Salts
           /\ Proxy(e[1], e[2]) \in Proxies
           /\ e[3] = Predict(e[1], e[2])
BY DEF Events, Proxies

\* Creating a proxy puts it in flight.
LEMMA ProxyCreated ==
    ASSUME NEW w, NEW flying, WorldOK(w, flying),
           NEW p \in Proxies, p \notin w.proxies,
           NEW v \in World,
           v.proxies = w.proxies \cup {p},
           v.nonce = [w.nonce EXCEPT ![p] = 1],
           v.deployed = w.deployed, v.code = w.code, v.bare = w.bare,
           v.events = w.events
    PROVE  WorldOK(v, flying \cup {p})
<1>1. w.nonce \in [Proxies -> 0..2] /\ v.deployed[p] = ZeroAddress
  BY DEF World, WorldOK
<1> QED
  BY <1>1 DEF WorldOK, Told

\* A proxy that creates only counts its nonce.
LEMMA NonceCounted ==
    ASSUME NEW w, NEW flying, WorldOK(w, flying),
           NEW p \in w.proxies, NEW n \in 0..2
    PROVE  WorldOK([w EXCEPT !.nonce[p] = n], flying)
<1> DEFINE v == [w EXCEPT !.nonce[p] = n]
<1>1. w \in World /\ p \in Proxies
  BY DEF WorldOK, World
<1>2. /\ v \in World
      /\ v.proxies = w.proxies /\ v.nonce = [w.nonce EXCEPT ![p] = n]
      /\ v.deployed = w.deployed /\ v.code = w.code /\ v.bare = w.bare
      /\ v.events = w.events
  BY <1>1 DEF World
<1> HIDE DEF v
<1>3. w.nonce \in [Proxies -> 0..2]
  BY <1>1 DEF World
<1>4. WorldOK(v, flying)
  BY <1>1, <1>2, <1>3 DEF WorldOK, Told
<1> QED
  BY <1>4 DEF v

\* A proxy in flight has no target yet, with or without code.
LEMMA TargetIsNew ==
    ASSUME NEW w, NEW flying, WorldOK(w, flying), NEW p \in flying
    PROVE  Created(p, 1) \notin w.code \cup w.bare
<1>1. SUFFICES ASSUME NEW x \in w.events, x[3] = Created(p, 1) PROVE FALSE
  BY DEF WorldOK, Told
<1>2. x \in Events
  BY DEF WorldOK, World
<1>3. x[3] = Created(Proxy(x[1], x[2]), 1)
  BY <1>2, EventShape DEF Predict
<1>4. Proxy(x[1], x[2]) = p
  BY <1>1, <1>3, AddressesDiffer
<1> QED
  BY <1>4 DEF WorldOK

\* A proxy whose contract stays has landed: it is recorded and announced.
LEMMA ContractStays ==
    ASSUME NEW w, NEW flying, NEW d \in Deployers, NEW s \in Salts,
           NEW p, p = Proxy(d, s), p \notin flying,
           WorldOK(w, flying \cup {p}),
           NEW target, target = Predict(d, s), target # ZeroAddress,
           NEW v \in World,
           v.proxies = w.proxies, v.nonce = w.nonce,
           v.deployed = [w.deployed EXCEPT ![p] = target],
           v.events = w.events \cup {<<d, s, target>>},
           Told(v)
    PROVE  WorldOK(v, flying)
<1> DEFINE e == <<d, s, target>>
<1>1. w \in World /\ p \in w.proxies /\ p \in Proxies
  BY DEF WorldOK, World
<1>2. w.deployed \in [Proxies -> {ZeroAddress} \cup {Created(q, 1) : q \in Proxies}]
  BY <1>1 DEF World
<1>3. v.deployed[p] = Created(p, 1) /\ v.deployed[p] # ZeroAddress
  BY <1>1, <1>2 DEF Predict
<1>4. \A q \in Proxies : q # p => v.deployed[q] = w.deployed[q]
  BY <1>2
<1>5. e \in v.events /\ e[1] = d /\ e[2] = s /\ e[3] = v.deployed[p]
  BY <1>1, <1>2
<1>6. w.proxies \subseteq Proxies
  BY <1>1 DEF World
<1> HIDE DEF e
<1>7. \A q \in v.proxies \ flying :
        /\ v.deployed[q] = Created(q, 1) /\ v.deployed[q] # ZeroAddress
        /\ \E x \in v.events : x[3] = v.deployed[q]
  BY <1>3, <1>4, <1>5, <1>6 DEF WorldOK
<1>8. \A x \in v.events : Proxy(x[1], x[2]) \in v.proxies \ flying
  BY <1>1, <1>5 DEF WorldOK, e
<1>9. \A q \in Proxies \ v.proxies : v.nonce[q] = 0 /\ v.deployed[q] = ZeroAddress
  BY <1>1, <1>4 DEF WorldOK
<1>10. flying \subseteq v.proxies /\ \A q \in flying : v.deployed[q] = ZeroAddress
  BY <1>4, <1>6 DEF WorldOK
<1> QED
  BY <1>7, <1>8, <1>9, <1>10 DEF WorldOK

-----------------------------------------------------------------------------
(* Steps. *)

\* What lies below in the stack is what it was.
LEMMA SameBelow ==
    ASSUME NEW n \in Nat,
           \A i \in 1..n : frames'[i].proxy = frames[i].proxy
    PROVE  \A m \in 0..n : InFlight(m)' = InFlight(m)
BY DEF InFlight

\* Before any call no proxy exists.
LEMMA InitFactoryInv == FactoryInit => FactoryInv
<1> SUFFICES ASSUME FactoryInit PROVE FactoryInv
  OBVIOUS
<1>1. frames = <<>> /\ frames \in Seq(Frame) /\ Len(frames) = 0
  BY EmptySeq DEF FactoryInit
<1>2. InFlight(0) = {}
  BY DEF InFlight
<1>3. WorldOK(EmptyWorld, {})
  BY DEF EmptyWorld, World, WorldOK, Told
<1> QED
  BY <1>1, <1>2, <1>3 DEF FactoryInit, FactoryInv

\* A deployment begins with a proxy no deployment under way has.
LEMMA DeployStep ==
    ASSUME FactoryInv, NEW d \in Deployers, NEW s \in Salts,
           NEW code_length \in {0, 1}, Deploy(d, s, code_length)
    PROVE  FactoryInv'
<1>0. PICK n \in Nat : n = Len(frames)
  BY LenProperties DEF FactoryInv
<1> DEFINE p == Proxy(d, s)
           f == [stage |-> "proxy", deployer |-> d, salt |-> s,
                 proxy |-> p, caller |-> Factory, target |-> ZeroAddress,
                 before |-> world, entry |-> world]
<1>1. frames \in Seq(Frame) /\ WorldOK(world, InFlight(n))
  BY <1>0 DEF FactoryInv
<1>2. /\ p \in Proxies /\ p \notin world.proxies
      /\ frames' = Append(frames, f)
  BY DEF Deploy, RouteFree, Proxies
<1>3. world \in World
  BY <1>1 DEF WorldOK
<1>4. /\ f \in Frame
      /\ f.proxy = p /\ f.deployer = d /\ f.salt = s /\ f.before = world
      /\ f.stage = "proxy"
  BY <1>2, <1>3 DEF Frame
<1> HIDE DEF f, p
<1>5. /\ frames' \in Seq(Frame) /\ Len(frames') = n + 1
      /\ \A i \in 1..n : frames'[i] = frames[i]
      /\ frames'[n + 1] = f
  BY <1>0, <1>1, <1>2, <1>4, AppendProperties
<1>6. \A m \in 0..n : InFlight(m)' = InFlight(m)
  BY <1>1, <1>5, SameBelow
<1>7. InFlight(n + 1)' = InFlight(n) \cup {p}
  <2>1. \A i : i \in 1..(n + 1) <=> i \in 1..n \/ i = n + 1
    OBVIOUS
  <2>2. InFlight(n + 1)' = {frames'[i].proxy : i \in 1..(n + 1)}
    BY DEF InFlight
  <2>3. InFlight(n) = {frames[i].proxy : i \in 1..n}
    BY DEF InFlight
  <2> QED
    BY <1>4, <1>5, <2>1, <2>2, <2>3
<1>8. /\ world' \in World
      /\ world'.proxies = world.proxies \cup {p}
      /\ world'.nonce = [world.nonce EXCEPT ![p] = 1]
      /\ world'.deployed = world.deployed /\ world'.code = world.code
      /\ world'.bare = world.bare /\ world'.events = world.events
  <2> DEFINE u == [world EXCEPT !.proxies = @ \cup {p}]
             v == [u EXCEPT !.nonce[p] = 1]
  <2>1. /\ u \in World
        /\ u.proxies = world.proxies \cup {p} /\ u.nonce = world.nonce
        /\ u.deployed = world.deployed /\ u.code = world.code
        /\ u.bare = world.bare /\ u.events = world.events
    BY <1>2, <1>3 DEF World
  <2> HIDE DEF u
  <2>2. /\ v \in World
        /\ v.proxies = u.proxies /\ v.nonce = [u.nonce EXCEPT ![p] = 1]
        /\ v.deployed = u.deployed /\ v.code = u.code /\ v.bare = u.bare
        /\ v.events = u.events
    BY <2>1 DEF World
  <2>3. world' = v
    BY DEF u, p, Deploy
  <2> HIDE DEF v
  <2> QED
    BY <2>1, <2>2, <2>3
<1>9. p \notin InFlight(n)
  BY <1>1, <1>2 DEF WorldOK
<1>10. WorldOK(world', InFlight(n + 1)') /\ world'.nonce[p] = 1
  <2>1. WorldOK(world', InFlight(n) \cup {p})
    BY <1>1, <1>2, <1>8, ProxyCreated
  <2> QED
    BY <1>2, <1>3, <1>7, <1>8, <2>1 DEF World
<1>11. ASSUME NEW i \in 1..n PROVE FrameOK(i)'
  <2>1. FrameOK(i) /\ i - 1 \in 0..n
    BY <1>0 DEF FactoryInv
  <2>2. frames[i].stage # "proxy"
    <3>1. frames # <<>> => Top.stage = "constructor"
      BY DEF Deploy, MayCall
    <3>2. frames # <<>> /\ Top = frames[n]
      BY <1>0, <1>1, EmptySeq DEF Top, Last
    <3> QED
      BY <1>0, <2>1, <3>1, <3>2 DEF FrameOK
  <2> QED
    BY <1>1, <1>5, <1>6, <2>1, <2>2 DEF FrameOK
<1>12. FrameOK(n + 1)'
  BY <1>1, <1>4, <1>5, <1>6, <1>9, <1>10 DEF FrameOK, p
<1> QED
  <2>1. \A i \in 1..(n + 1) : i \in 1..n \/ i = n + 1
    OBVIOUS
  <2> QED
    BY <1>5, <1>10, <1>11, <1>12, <2>1 DEF FactoryInv

\* The factory calls the proxy it has just created: the constructor starts.
LEMMA ProxyDeployStep ==
    ASSUME FactoryInv, NEW caller, NEW p \in Proxies, ProxyDeploy(caller, p)
    PROVE  FactoryInv'
<1>0. PICK n \in Nat : n = Len(frames)
  BY LenProperties DEF FactoryInv
<1>1. frames \in Seq(Frame) /\ WorldOK(world, InFlight(n)) /\ world \in World
  BY <1>0 DEF FactoryInv, WorldOK
<1> DEFINE f == frames[n]
           g == [f EXCEPT !.stage = "constructor",
                          !.target = Created(p, world.nonce[p]),
                          !.entry = world']
<1>2. /\ n \in 1..n /\ f.stage = "proxy" /\ f.proxy = p
      /\ p \in world.proxies
      /\ world' = [world EXCEPT !.nonce[p] = @ + 1]
  BY <1>0, <1>1, EmptySeq DEF ProxyDeploy, OnlyFactory, Top, Last
<1>3. f \in Frame /\ FrameOK(n) /\ world.nonce[p] = 1
  BY <1>0, <1>1, <1>2, ElementOfSeq DEF FactoryInv, FrameOK
<1>4. frames' = [frames EXCEPT ![n] = g]
  BY <1>0 DEF ProxyDeploy, OnlyFactory
<1>5. WorldOK(world', InFlight(n)) /\ world' \in World
  <2>1. WorldOK([world EXCEPT !.nonce[p] = 2], InFlight(n))
    <3>1. p \in world.proxies /\ WorldOK(world, InFlight(n)) /\ 2 \in 0..2
      BY <1>1, <1>2
    <3> QED
      BY <3>1, NonceCounted
  <2>2. world' = [world EXCEPT !.nonce[p] = 2]
    BY <1>2, <1>3
  <2> QED
    BY <2>1, <2>2 DEF WorldOK
<1>6. /\ g \in Frame
      /\ g.proxy = f.proxy /\ g.deployer = f.deployer /\ g.salt = f.salt
      /\ g.before = f.before /\ g.stage = "constructor"
      /\ g.target = Created(g.proxy, 1)
  BY <1>2, <1>3, <1>5 DEF Frame
<1> HIDE DEF g
<1>7. /\ frames' \in Seq(Frame) /\ Len(frames') = n
      /\ \A i \in 1..n : frames'[i] = IF i = n THEN g ELSE frames[i]
  BY <1>0, <1>1, <1>2, <1>4, <1>6, ExceptSeq
<1>8. \A m \in 0..n : InFlight(m)' = InFlight(m)
  BY <1>6, <1>7, SameBelow
<1>9. ASSUME NEW i \in 1..n PROVE FrameOK(i)'
  <2>1. FrameOK(i) /\ i - 1 \in 0..n
    BY <1>0 DEF FactoryInv
  <2>2. CASE i = n
    BY <1>3, <1>6, <1>7, <1>8, <2>1, <2>2 DEF FrameOK
  <2>3. CASE i # n
    <3>1. frames'[i] = frames[i] /\ frames[i].stage # "proxy"
      BY <1>0, <1>7, <2>1, <2>3 DEF FrameOK
    <3> QED
      BY <1>8, <2>1, <3>1 DEF FrameOK
  <2> QED
    BY <2>2, <2>3
<1>10. WorldOK(world', InFlight(n)')
  BY <1>5, <1>8
<1> QED
  BY <1>7, <1>9, <1>10 DEF FactoryInv

\* A constructor that fails undoes what it did; one that succeeds lands.
LEMMA ConstructorEndsStep ==
    ASSUME FactoryInv, NEW succeeds \in BOOLEAN, NEW leaves_code \in BOOLEAN,
           ConstructorEnds(succeeds, leaves_code)
    PROVE  FactoryInv'
<1>0. PICK n \in Nat : n = Len(frames)
  BY LenProperties DEF FactoryInv
<1>1. frames \in Seq(Frame) /\ WorldOK(world, InFlight(n)) /\ world \in World
  BY <1>0 DEF FactoryInv, WorldOK
<1> DEFINE f == frames[n]
           p == f.proxy
<1>2. /\ n \in 1..n /\ f.stage = "constructor" /\ Top = f
      /\ frames' = Front(frames)
  BY <1>0, <1>1, EmptySeq DEF ConstructorEnds, Top, Last
<1>3. /\ f \in Frame /\ FrameOK(n) /\ f.target = Predict(f.deployer, f.salt)
      /\ f.deployer \in Deployers /\ f.salt \in Salts
      /\ p = Proxy(f.deployer, f.salt) /\ f.caller = Factory
  <2>1. f \in Frame /\ FrameOK(n)
    BY <1>0, <1>1, <1>2, ElementOfSeq DEF FactoryInv
  <2> QED
    BY <1>2, <2>1 DEF Frame, FrameOK, Predict
<1>4. /\ frames' \in Seq(Frame) /\ Len(frames') = n - 1
      /\ \A i \in 1..(n - 1) : frames'[i] = frames[i]
  <2>1. \A i \in 1..(n - 1) : frames[i] \in Frame
    BY <1>0, <1>1, ElementOfSeq
  <2>2. frames' = SubSeq(frames, 1, n - 1)
    BY <1>0, <1>2 DEF Front
  <2> QED
    BY <1>2, <2>1, <2>2, SubSeqProperties
<1>5. \A m \in 0..(n - 1) : InFlight(m)' = InFlight(m)
  BY <1>2, <1>4, SameBelow
<1>6. InFlight(n) = InFlight(n - 1) \cup {p} /\ p \notin InFlight(n - 1)
  <2>1. \A i : i \in 1..n <=> i \in 1..(n - 1) \/ i = n
    BY <1>2
  <2>2. InFlight(n) = {frames[i].proxy : i \in 1..n}
    BY DEF InFlight
  <2>3. InFlight(n - 1) = {frames[i].proxy : i \in 1..(n - 1)}
    BY DEF InFlight
  <2> QED
    BY <1>3, <2>1, <2>2, <2>3 DEF FrameOK
<1>7. WorldOK(world', InFlight(n - 1))
  <2>1. CASE ~succeeds
    <3>1. world' = f.before
      BY <1>2, <1>3, <2>1 DEF ConstructorEnds, TargetAccepted
    <3> QED
      BY <1>3, <3>1 DEF FrameOK
  <2>2. CASE succeeds /\ f.target = ZeroAddress
    <3>1. world' = f.before
      BY <1>2, <1>3, <2>2 DEF ConstructorEnds, TargetAccepted
    <3> QED
      BY <1>3, <3>1 DEF FrameOK
  <2>3. CASE succeeds /\ f.target # ZeroAddress
    <3> DEFINE e == <<f.deployer, f.salt, f.target>>
               u == [world EXCEPT !.deployed[p] = f.target]
               code == IF leaves_code THEN u.code \cup {f.target} ELSE u.code
               bare == IF leaves_code THEN u.bare ELSE u.bare \cup {f.target}
               v == [u EXCEPT !.code = code, !.bare = bare,
                              !.events = u.events \cup {e}]
    <3>1. /\ u \in World
          /\ u.proxies = world.proxies /\ u.nonce = world.nonce
          /\ u.deployed = [world.deployed EXCEPT ![p] = f.target]
          /\ u.code = world.code /\ u.bare = world.bare
          /\ u.events = world.events
      BY <1>1, <1>3 DEF World, Frame
    <3> HIDE DEF u
    <3>2. e \in Events /\ f.target \in {Created(q, 1) : q \in Proxies}
      BY <1>3, <2>3 DEF Events, Frame
    <3> HIDE DEF e
    <3>3. /\ v \in World
          /\ v.proxies = world.proxies /\ v.nonce = world.nonce
          /\ v.deployed = [world.deployed EXCEPT ![p] = f.target]
          /\ v.code = (IF leaves_code THEN world.code \cup {f.target} ELSE world.code)
          /\ v.bare = (IF leaves_code THEN world.bare ELSE world.bare \cup {f.target})
          /\ v.events = world.events \cup {e}
      BY <3>1, <3>2 DEF World
    <3>4. world' = v
      <4>1. f.proxy = p /\ TargetAccepted(f, f.target)
        BY <1>3, <2>3 DEF TargetAccepted
      <4>2. world' = [world EXCEPT
                !.deployed[p] = f.target,
                !.code = IF leaves_code THEN @ \cup {f.target} ELSE @,
                !.bare = IF ~leaves_code THEN @ \cup {f.target} ELSE @,
                !.events = @ \cup {e}]
        BY <1>2, <1>3, <2>3, <4>1 DEF ConstructorEnds, e
      <4> QED
        BY <4>2 DEF u
    <3> HIDE DEF v
    <3>5. v.events = world.events \cup {<<f.deployer, f.salt, f.target>>}
      BY <3>3 DEF e
    <3>6. WorldOK(world, InFlight(n - 1) \cup {p})
      BY <1>1, <1>6
    <3>7. WorldOK(v, InFlight(n - 1))
      <4>1. f.target \notin world.code \cup world.bare
        <5>1. f.target = Created(p, 1) /\ p \in InFlight(n - 1) \cup {p}
          BY <1>3 DEF Predict
        <5>2. Created(p, 1) \notin world.code \cup world.bare
          BY <3>6, <5>1, TargetIsNew
        <5> QED
          BY <5>1, <5>2
      <4>2. {x[3] : x \in v.events} = {x[3] : x \in world.events} \cup {f.target}
        <5>1. \A x : x \in v.events <=> x \in world.events \/ x = e
          BY <3>3
        <5>2. e[3] = f.target
          BY DEF e
        <5> QED
          BY <5>1, <5>2
      <4>3. Told(v)
        <5>1. {x[3] : x \in world.events} = world.code \cup world.bare
          BY <3>6 DEF WorldOK, Told
        <5>2. world.code \cap world.bare = {}
          BY <3>6 DEF WorldOK, Told
        <5>3. CASE leaves_code
          <6>1. v.code = world.code \cup {f.target} /\ v.bare = world.bare
            BY <3>3, <5>3
          <6> QED
            BY <4>1, <4>2, <5>1, <5>2, <6>1 DEF Told
        <5>4. CASE ~leaves_code
          <6>1. v.code = world.code /\ v.bare = world.bare \cup {f.target}
            BY <3>3, <5>4
          <6> QED
            BY <4>1, <4>2, <5>1, <5>2, <6>1 DEF Told
        <5> QED
          BY <5>3, <5>4
      <4>4. /\ v \in World /\ v.proxies = world.proxies /\ v.nonce = world.nonce
            /\ v.deployed = [world.deployed EXCEPT ![p] = f.target]
        BY <3>3
      <4> QED
        BY <1>3, <1>6, <2>3, <3>5, <3>6, <4>3, <4>4, ContractStays, SMTT(60)
    <3> QED
      BY <3>4, <3>7
  <2> QED
    BY <2>1, <2>2, <2>3
<1>8. ASSUME NEW i \in 1..(n - 1) PROVE FrameOK(i)'
  <2>1. FrameOK(i) /\ i - 1 \in 0..(n - 1) /\ frames[i].stage # "proxy"
    BY <1>0 DEF FactoryInv, FrameOK
  <2> QED
    BY <1>4, <1>5, <2>1 DEF FrameOK
<1>9. WorldOK(world', InFlight(n - 1)')
  BY <1>2, <1>5, <1>7
<1> QED
  BY <1>4, <1>8, <1>9 DEF FactoryInv

\* Every step, one action at a time.
LEMMA NextFactoryInv == FactoryInv /\ [FactoryNext]_factoryVars => FactoryInv'
<1> SUFFICES ASSUME FactoryInv, [FactoryNext]_factoryVars PROVE FactoryInv'
  OBVIOUS
<1>1. CASE FactoryNext
  BY <1>1, DeployStep, ProxyDeployStep, ConstructorEndsStep DEF FactoryNext
<1>2. CASE UNCHANGED factoryVars
  BY <1>2 DEF factoryVars, FactoryInv, FrameOK, WorldOK, InFlight
<1> QED
  BY <1>1, <1>2

LEMMA FactoryInvariant == FactorySpec => []FactoryInv
BY InitFactoryInv, NextFactoryInv, PTL DEF FactorySpec

-----------------------------------------------------------------------------
(* The properties. *)

\* Every world, the ones a failure returns to included, is well-formed.
LEMMA WorldsOneShot == FactoryInv => ProxyOneShot
<1> SUFFICES ASSUME FactoryInv, NEW w \in Worlds, NEW p \in Proxies
             PROVE  /\ w.nonce[p] <= 2
                    /\ w.deployed[p] \in {ZeroAddress, Created(p, 1)}
                    /\ p \notin w.proxies => w.nonce[p] = 0 /\ w.deployed[p] = ZeroAddress
  BY DEF ProxyOneShot
<1>1. PICK flying : WorldOK(w, flying)
  <2>1. CASE w = world
    BY <2>1 DEF FactoryInv
  <2>2. CASE w # world
    <3>1. DOMAIN frames = 1..Len(frames)
      BY LenProperties DEF FactoryInv
    <3>2. PICK i \in 1..Len(frames) : w = frames[i].before
      BY <2>2, <3>1 DEF Worlds
    <3> QED
      BY <3>2 DEF FactoryInv, FrameOK
  <2> QED
    BY <2>1, <2>2
<1>2. w.nonce[p] \in 0..2
  BY <1>1 DEF WorldOK, World
<1>3. w.deployed[p] \in {ZeroAddress, Created(p, 1)}
  BY <1>1 DEF WorldOK
<1> QED
  BY <1>1, <1>2, <1>3 DEF WorldOK

\* Between transactions nothing is in flight.
LEMMA Settled ==
    ASSUME FactoryInv, frames = <<>>
    PROVE  WorldOK(world, {})
<1>1. InFlight(Len(frames)) = {}
  BY EmptySeq DEF InFlight
<1> QED
  BY <1>1 DEF FactoryInv

\* A route is used up exactly by its deployer's own event.
LEMMA SettledRoutes == FactoryInv => RouteOpen
<1> SUFFICES ASSUME FactoryInv, frames = <<>>, NEW d \in Deployers, NEW s \in Salts
             PROVE  RouteFree(d, s) <=> \A e \in world.events : <<e[1], e[2]>> # <<d, s>>
  BY DEF RouteOpen
<1>1. WorldOK(world, {})
  BY Settled
<1>2. world.events \subseteq Events /\ Proxy(d, s) \in Proxies
  BY <1>1 DEF WorldOK, World, Proxies
<1>3. ASSUME NEW e \in world.events, e[1] = d, e[2] = s
      PROVE  ~RouteFree(d, s)
  BY <1>1, <1>3 DEF WorldOK, RouteFree
<1>4. ASSUME NEW e \in world.events, e[3] = Predict(d, s)
      PROVE  e[1] = d /\ e[2] = s
  BY <1>2, <1>4, EventShape, AddressesDiffer DEF Predict
<1>5. ASSUME ~RouteFree(d, s)
      PROVE  \E e \in world.events : e[3] = Predict(d, s)
  BY <1>1, <1>2, <1>5 DEF WorldOK, Told, RouteFree, Predict
<1> QED
  BY <1>3, <1>4, <1>5

\* With nothing in flight every proxy has deployed what its event announces.
LEMMA SettledWhole == FactoryInv => NothingHalfway
<1> SUFFICES ASSUME FactoryInv, frames = <<>>
             PROVE  /\ \A p \in world.proxies :
                        \E e \in world.events :
                            Proxy(e[1], e[2]) = p /\ e[3] = world.deployed[p]
                    /\ \A e \in world.events : e[3] = Predict(e[1], e[2])
                    /\ {e[3] : e \in world.events} = world.code \cup world.bare
                    /\ world.code \cap world.bare = {}
  BY DEF NothingHalfway
<1>1. WorldOK(world, {})
  BY Settled
<1>2. world.events \subseteq Events
  BY <1>1 DEF WorldOK, World
<1>3. ASSUME NEW p \in world.proxies
      PROVE  \E e \in world.events :
                Proxy(e[1], e[2]) = p /\ e[3] = world.deployed[p]
  <2>1. PICK e \in world.events : e[3] = world.deployed[p]
    BY <1>1 DEF WorldOK
  <2>2. e[3] = Created(p, 1) /\ e[3] = Created(Proxy(e[1], e[2]), 1)
    BY <1>1, <1>2, <2>1, EventShape DEF WorldOK, Predict
  <2> QED
    BY <2>1, <2>2, AddressesDiffer
<1> QED
  BY <1>1, <1>2, <1>3, EventShape DEF WorldOK, Told

\* ProxyOneShot, however deep the constructors call back (DayCreate3Proxy.deploy).
THEOREM ProxyAlwaysOneShot == FactorySpec => []ProxyOneShot
BY FactoryInvariant, WorldsOneShot, PTL

\* RouteOpen: nobody else uses up a deployer's route (_namespacedSalt, deploy).
THEOREM RouteAlwaysOpen == FactorySpec => []RouteOpen
BY FactoryInvariant, SettledRoutes, PTL

\* NothingHalfway: a constructor that fails leaves no trace, and every target
\* announced is there, or was left without code by its own constructor (deploy).
THEOREM NothingEverHalfway == FactorySpec => []NothingHalfway
BY FactoryInvariant, SettledWhole, PTL
=============================================================================

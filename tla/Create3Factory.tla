--------------------------- MODULE Create3Factory ---------------------------
(***************************************************************************)
(* DayCreate3Factory.sol: a factory without an administrator that deploys  *)
(* any code at an address known from the deployer and a salt, by way of a  *)
(* one-shot proxy per deployer and salt (the contract's route).            *)
(*                                                                         *)
(* The code deployed is anybody's: while its constructor runs it may call  *)
(* the factory again, as may the contracts it calls, for any salt, the one *)
(* being deployed included.  `frames' is the stack of deployments under    *)
(* way; each remembers the world to return to if it reverts.  A route's    *)
(* hash is its deployer and salt, and an address what it is derived from.  *)
(***************************************************************************)
EXTENDS Naturals, SequencesExt

CONSTANTS
    Deployers,              \* accounts that call the factory,
    Contracts,              \* those among them that a constructor may call
    Factory,                \* the factory's own address
    ZeroAddress,            \* address(0)
    Salts,
    MaxDepth                \* bound: deployments under way at a time

ASSUME Create3Assumption ==
    /\ Contracts \subseteq Deployers
    /\ Factory \notin Deployers
    /\ MaxDepth \in Nat

VARIABLES
    world,                  \* the accounts of the chain that matter here
    frames

factoryVars == <<world, frames>>

-----------------------------------------------------------------------------
(* Addresses. *)

SaltAlone(deployer, salt) == <<salt>>   \* mutant: salts are not namespaced

NamespacedSalt(deployer, salt) == <<deployer, salt>>

Proxy(deployer, salt) == <<"create2", NamespacedSalt(deployer, salt)>>

\* What a proxy creates with the nonce it has.
Created(proxy, nonce) == <<"create", proxy, nonce>>

Predict(deployer, salt) == Created(Proxy(deployer, salt), 1)

Proxies == {Proxy(d, s) : d \in Deployers, s \in Salts}

-----------------------------------------------------------------------------
(* The world: proxies and their nonces, what they deployed, which targets  *)
(* have code, which were made bare (their constructor left none), and the  *)
(* Deployed events. *)

EmptyWorld ==
    [proxies |-> {}, nonce |-> [p \in Proxies |-> 0],
     deployed |-> [p \in Proxies |-> ZeroAddress], code |-> {}, bare |-> {},
     events |-> {}]

Top == Last(frames)

\* Nobody's call but a constructor's comes in between those of a transaction.
MayCall(account) ==
    IF frames = <<>> THEN TRUE
    ELSE Top.stage = "constructor" /\ account \in Contracts

\* DayCreate3Factory.deploy up to the proxy's creation. CREATE2 fails where
\* an account is.
RouteFree(deployer, salt) ==
    /\ Predict(deployer, salt) \notin world.code
    /\ Proxy(deployer, salt) \notin world.proxies

Deploy(deployer, salt, code_length) ==
    LET proxy == Proxy(deployer, salt) IN
    /\ MayCall(deployer)
    /\ Len(frames) < MaxDepth
    /\ code_length # 0
    /\ RouteFree(deployer, salt)
    /\ world' = [world EXCEPT !.proxies = @ \cup {proxy}, !.nonce[proxy] = 1]
    /\ frames' = Append(frames,
            [stage |-> "proxy", deployer |-> deployer, salt |-> salt,
             proxy |-> proxy, caller |-> Factory, target |-> ZeroAddress,
             before |-> world, entry |-> world])

AnyCaller(caller) == TRUE               \* mutant: anybody may use a proxy

OnlyFactory(caller) == caller = Factory

\* DayCreate3Proxy.deploy up to the constructor: by the factory right after
\* it created the proxy, or by anybody who knows the proxy's address.
ProxyDeploy(caller, proxy) ==
    LET target == Created(proxy, world.nonce[proxy])
        entry == [world EXCEPT !.nonce[proxy] = @ + 1]
    IN /\ proxy \in world.proxies
       /\ IF caller = Factory
            THEN frames # <<>> /\ Top.stage = "proxy" /\ Top.proxy = proxy
            ELSE MayCall(caller) /\ Len(frames) < MaxDepth
       /\ OnlyFactory(caller)
       /\ world.deployed[proxy] = ZeroAddress
       /\ world' = entry
       /\ frames' = IF caller = Factory
            THEN [frames EXCEPT ![Len(frames)] =
                    [@ EXCEPT !.stage = "constructor", !.target = target,
                              !.entry = entry]]
            ELSE Append(frames,
                    [stage |-> "constructor", deployer |-> caller,
                     salt |-> ZeroAddress, proxy |-> proxy, caller |-> caller,
                     target |-> target, before |-> world, entry |-> entry])

AnyTarget(frame, target) == TRUE        \* mutant: what CREATE answers is taken

\* The checks on what CREATE answered, the proxy's and the factory's.
TargetAccepted(frame, target) ==
    /\ target # ZeroAddress
    /\ frame.caller = Factory => target = Predict(frame.deployer, frame.salt)

\* The constructor ends, with or without code to leave behind, or reverts and
\* CREATE answers zero; a call that fails undoes all it did.
ConstructorEnds(succeeds, leaves_code) ==
    LET frame == Top
        target == IF succeeds THEN frame.target ELSE ZeroAddress
        after == IF succeeds THEN world ELSE frame.entry
        event == <<frame.deployer, frame.salt, target>>
    IN /\ frames # <<>> /\ frame.stage = "constructor"
       /\ frames' = Front(frames)
       /\ world' = IF ~TargetAccepted(frame, target) THEN frame.before
            ELSE [after EXCEPT
                    !.deployed[frame.proxy] = target,
                    !.code = IF succeeds /\ leaves_code THEN @ \cup {target} ELSE @,
                    !.bare = IF succeeds /\ ~leaves_code THEN @ \cup {target} ELSE @,
                    !.events = IF frame.caller = Factory THEN @ \cup {event} ELSE @]

FactoryInit == world = EmptyWorld /\ frames = <<>>

FactoryNext ==
    \/ \E d \in Deployers, s \in Salts, code_length \in {0, 1} :
            Deploy(d, s, code_length)
    \/ \E caller \in {Factory} \cup Deployers, p \in Proxies : ProxyDeploy(caller, p)
    \/ \E succeeds, leaves_code \in BOOLEAN : ConstructorEnds(succeeds, leaves_code)

FactorySpec == FactoryInit /\ [][FactoryNext]_factoryVars

-----------------------------------------------------------------------------
(* Properties. *)

Worlds == {world} \cup {frames[i].before : i \in DOMAIN frames}

\* A proxy creates one contract, at the address predicted for its route, no
\* matter who calls it, or the factory, while the constructor runs, and what a
\* failed call returns to is no exception.
ProxyOneShot ==
    \A w \in Worlds, p \in Proxies :
        /\ w.nonce[p] <= 2
        /\ w.deployed[p] \in {ZeroAddress, Created(p, 1)}
        /\ p \notin w.proxies => w.nonce[p] = 0 /\ w.deployed[p] = ZeroAddress

\* Between transactions a deployer can still use a route exactly if it has
\* not been announced a target there itself: no call of another account,
\* failed constructor or reentrant call uses the route up for it. A target
\* without code is announced like any other (CREATE answers its address) and
\* does use the route up, for good.
RouteOpen ==
    frames = <<>> =>
        \A d \in Deployers, s \in Salts :
            RouteFree(d, s) <=> \A e \in world.events : <<e[1], e[2]>> # <<d, s>>

\* Nothing is left halfway: between transactions every proxy has deployed the
\* target its own event announces, at the address predicted for its route; a
\* target is announced exactly if it has code or its own constructor ended
\* well and left none, so nothing that was reverted is announced and nothing
\* that has code is not.
NothingHalfway ==
    frames = <<>> =>
        /\ \A p \in world.proxies :
            \E e \in world.events :
                Proxy(e[1], e[2]) = p /\ e[3] = world.deployed[p]
        /\ \A e \in world.events : e[3] = Predict(e[1], e[2])
        /\ {e[3] : e \in world.events} = world.code \cup world.bare
        /\ world.code \cap world.bare = {}
=============================================================================

------------------------------ MODULE MCPathB -------------------------------
(***************************************************************************)
(* A small instance of PathB for TLC: bytes of four values and words of    *)
(* four bytes, two handoffs, two withdrawals, two remote chains; every     *)
(* instruction well-formed, or with one fault in one place.                *)
(***************************************************************************)
EXTENDS PathB

Num(width, n) == [i \in 1 .. width |-> IF i = width THEN n ELSE 0]
Real(n) == [i \in 1 .. WORD |-> n]      \* a hash: no byte of it is zero

SolanaChain == Num(U32, 2)
SolanaDomain == Num(U32, 2)
Base == <<Num(U32, 3), Num(U32, 3)>>
Ethereum == <<Num(U32, 1), Num(U32, 0)>>
EvmPeers == {Base, Ethereum}
TwoNonces == {Num(U64, 1), Num(U64, 2)}

SolanaRoute(owner) ==
    <<SolanaChain, SolanaDomain, owner, Real(1), Real(1), Real(1)>>
EvmRoute(peer) ==
    <<peer[1], peer[2], Num(WORD, 3), Num(WORD, 3), Num(WORD, 3), Num(WORD, 3)>>

Routes(kind, owner, peer) ==
    IF kind \in Outbound THEN SolanaRoute(owner) \o EvmRoute(peer)
                         ELSE EvmRoute(peer) \o SolanaRoute(owner)

Amount == Num(WORD, 1)
Controller == Num(ADDRESS, 3)

\* A message: its handoff, owner, remote peer, withdrawal and data hash.
Fields(kind, tx, owner, peer, wid, hash) ==
    LET routes == Routes(kind, owner, peer)
        head == <<tx, Controller>> \o routes \o <<Real(1), Real(1)>>
    IN CASE Type(kind) = "deposit" ->
            head \o <<Amount, Amount, Amount, Amount, Amount, Num(U64, 1), hash>>
         [] Type(kind) = "request" ->
            head \o <<Amount, Amount, Amount, Num(U64, 1), Num(U64, 1), hash,
                      Num(1, 1)>>
         [] Type(kind) = "return" ->
            <<tx, Real(2), wid, Controller>> \o routes
                \o <<Real(1), Real(1), Amount, Amount, Amount, Num(U64, 1)>>

Messages(kind) ==
    {Fields(kind, Real(1), Real(1), Base, Real(1), Real(3)),
     Fields(kind, Real(1), Real(1), Ethereum, Real(2), Num(WORD, 1)),
     Fields(kind, Real(2), Real(2), Base, Real(3), Real(3))}

First(kind) == Fields(kind, Real(1), Real(1), Base, Real(1), Real(3))

Id(fields) == fields[3]                  \* the withdrawal of a return intent

\* An instruction with the accounts its body asks for.
Good(kind, fields, body) ==
    LET signer == IF kind \in {"initiate", "reverse"}
                    THEN Wallet(Message(Type(kind), fields).source.owner)
                    ELSE Wallet(Real(3))
        blank == [kind |-> kind, fields |-> fields, body |-> body,
                  filled |-> RequiredParams(kind), signed |-> TRUE,
                  id |-> IF Type(kind) = "return" THEN Id(fields) ELSE Real(2),
                  accounts |-> [i \in 1 .. 16 |-> signer]]
    IN [blank EXCEPT !.accounts =
            IF Decodes(Type(kind), body) THEN FixedAccounts(blank) ELSE @]

Fair(kind) ==
    {Good(kind, f, Encode(Written(Type(kind)), f)) : f \in Messages(kind)}

\* The fields a handler asks about.
Asked(kind) ==
    IF Type(kind) = "return" THEN {1, 2, 3, 5, 6, 7, 10, 11, 12, 13, 16, 19}
                             ELSE {1, 3, 4, 5, 8, 9, 10, 11, 14, 17}

\* One field emptied, or a chain or domain of another network.
Zeroed(kind) ==
    LET f == First(kind)
        small(i, n) == [j \in DOMAIN f[i] |-> IF j = Len(f[i]) THEN n ELSE 0]
        fields == {[f EXCEPT ![i] = small(i, 0)] : i \in Asked(kind)}
                    \cup {[f EXCEPT ![i] = small(i, 1)] :
                            i \in {n \in Asked(kind) : Len(f[n]) = U32}}
    IN {Good(kind, g, Encode(Written(Type(kind)), g)) : g \in fields}

\* The first message with the upper byte of a narrow word or of its handoff
\* set, with another last word, cut or extended on its way.
Altered(kind) ==
    LET f == First(kind)
        body == Encode(Written(Type(kind)), f)
        narrow == {i \in DOMAIN f : Len(f[i]) < WORD}
        bodies == {[body EXCEPT ![i][1] = 2] : i \in narrow \cup {1}}
                    \cup {[body EXCEPT ![Len(body)][WORD] = 2],
                          Tail(body), Append(body, body[1]), <<>>}
    IN {Good(kind, f, b) : b \in bodies}

\* Somebody else's message, or one of the other type.
Crossed(kind) ==
    {Good(kind, First(kind), Encode(Written(Type(other)), f)) :
        <<other, f>> \in UNION {{<<k, g>> : g \in Messages(k)} : k \in Instruction}}

\* One account of another handoff, or a stranger's where they share it; too
\* few accounts, no signature, another id, a parameter left out.
Swapped(kind) ==
    LET right == Good(kind, First(kind), Encode(Written(Type(kind)), First(kind)))
        g == Fields(kind, Real(2), Real(2), Ethereum, Real(2), Real(3))
        wrong == Good(kind, g, Encode(Written(Type(kind)), g))
        key(i) == IF wrong.accounts[i] # right.accounts[i] THEN wrong.accounts[i]
                  ELSE IF i = 1 THEN Wallet(Real(2)) ELSE Pinned("default")
    IN {[right EXCEPT !.accounts[i] = key(i)] : i \in DOMAIN right.accounts}
         \cup {[right EXCEPT !.accounts = Tail(@)],
               [right EXCEPT !.accounts = <<>>],
               [right EXCEPT !.signed = FALSE]}
         \cup {[right EXCEPT !.filled = @ \ {param}] :
                    param \in RequiredParams(kind)}
         \cup (IF kind \in {"execute", "bridge_return"}
                THEN {[right EXCEPT !.id = Real(3)]} ELSE {})

AllSubmissions ==
    UNION {Fair(k) \cup Zeroed(k) \cup Altered(k) \cup Crossed(k) \cup Swapped(k) :
            k \in Instruction}
=============================================================================

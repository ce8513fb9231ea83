------------------------------ MODULE AbiCodec ------------------------------
(***************************************************************************)
(* The Solidity ABI codecs of abi_codec.rs: static bodies, one 32-byte     *)
(* word per field, nested routes inlined in declaration order.             *)
(*                                                                         *)
(* A body is the sequence of its words and a word the string of its bytes. *)
(* A message is the sequence of its fields in declaration order, and a     *)
(* field its big-endian bytes, as many as its type is wide: what the two   *)
(* directions of the codec do to them is left-padding and its inverse.     *)
(***************************************************************************)
EXTENDS Naturals, Sequences

CONSTANTS
    Byte,               \* the values of a byte: 0 .. 255 in the code
    WORD,               \* widths in bytes: 32 in the code,
    ADDRESS,            \* 20,
    U64,                \* 8
    U32                 \* and 4

ASSUME CodecAssumption ==
    /\ {0, 1} \subseteq Byte
    /\ {WORD, ADDRESS, U64, U32} \subseteq Nat
    /\ 1 <= U32 /\ U32 < U64 /\ U64 < ADDRESS /\ ADDRESS < WORD

Kind == {"u32", "u64", "address", "bytes32", "bool"}

Width(kind) ==
    CASE kind = "u32" -> U32
      [] kind = "u64" -> U64
      [] kind = "address" -> ADDRESS
      [] kind = "bytes32" -> WORD
      [] kind = "bool" -> 1

Word == [1 .. WORD -> Byte]

\* The values a field of the kind may have.
Value(kind) ==
    IF kind = "bool" THEN [1 .. 1 -> {0, 1}] ELSE [1 .. Width(kind) -> Byte]

Nonzero(bytes) == \E i \in DOMAIN bytes : bytes[i] # 0

-----------------------------------------------------------------------------
(* Words. *)

\* The value in the low bytes, zeros above.
WriteWord(kind, value) ==
    LET padding == WORD - Width(kind) IN
    [i \in 1 .. WORD |-> IF i <= padding THEN 0 ELSE value[i - padding]]

CanonicalUnpadded(kind, word) ==        \* mutant: padding is not looked at
    kind = "bool" => word[WORD] \in {0, 1}

\* A word the reader of the kind accepts.
Canonical(kind, word) ==
    /\ \A i \in 1 .. WORD - Width(kind) : word[i] = 0
    /\ kind = "bool" => word[WORD] \in {0, 1}

ReadWord(kind, word) ==
    [i \in 1 .. Width(kind) |-> word[i + (WORD - Width(kind))]]

-----------------------------------------------------------------------------
(* Layouts: the kind of every word, as written and as read. *)

RouteWritten ==
    <<"u32", "u32", "bytes32", "bytes32", "bytes32", "bytes32">>

RouteRead ==
    <<"u32", "u32", "bytes32", "bytes32", "bytes32", "bytes32">>

DepositIntentWritten ==
    <<"bytes32", "address">> \o RouteWritten \o RouteWritten
        \o <<"bytes32", "bytes32", "bytes32", "bytes32", "bytes32", "bytes32",
             "bytes32", "u64", "bytes32">>

DepositIntentRead ==
    <<"bytes32", "address">> \o RouteRead \o RouteRead
        \o <<"bytes32", "bytes32", "bytes32", "bytes32", "bytes32", "bytes32",
             "bytes32", "u64", "bytes32">>

WithdrawalRequestWritten ==
    <<"bytes32", "address">> \o RouteWritten \o RouteWritten
        \o <<"bytes32", "bytes32", "bytes32", "bytes32", "bytes32", "u64",
             "u64", "bytes32", "bool">>

WithdrawalRequestRead ==
    <<"bytes32", "address">> \o RouteRead \o RouteRead
        \o <<"bytes32", "bytes32", "bytes32", "bytes32", "bytes32", "u64",
             "u64", "bytes32", "bool">>

ReturnIntentWritten ==
    <<"bytes32", "bytes32", "bytes32", "address">> \o RouteWritten \o RouteWritten
        \o <<"bytes32", "bytes32", "bytes32", "bytes32", "bytes32", "u64">>

ReturnIntentRead ==
    <<"bytes32", "bytes32", "bytes32", "address">> \o RouteRead \o RouteRead
        \o <<"bytes32", "bytes32", "bytes32", "bytes32", "bytes32", "u64">>

\* Written only: the context goes out in a Wormhole payload.
WithdrawalContextWritten ==
    <<"bytes32", "bytes32", "address", "u32", "bytes32", "bytes32", "bytes32",
      "bytes32", "bytes32", "u32", "bytes32", "bytes32", "bytes32", "bytes32",
      "bytes32", "bytes32", "bytes32", "u64", "u64", "bytes32", "bool">>

MessageType == {"deposit", "request", "return"}

Written(type) ==
    CASE type = "deposit" -> DepositIntentWritten
      [] type = "request" -> WithdrawalRequestWritten
      [] type = "return" -> ReturnIntentWritten

Read(type) ==
    CASE type = "deposit" -> DepositIntentRead
      [] type = "request" -> WithdrawalRequestRead
      [] type = "return" -> ReturnIntentRead

-----------------------------------------------------------------------------
(* Bodies. *)

\* A value of a struct with the layout, and of a message's struct.
Fits(layout, fields) ==
    /\ DOMAIN fields = 1 .. Len(layout)
    /\ fields = [i \in 1 .. Len(layout) |-> fields[i]]
    /\ \A i \in 1 .. Len(layout) : fields[i] \in Value(layout[i])

WellTyped(type, fields) == Fits(Read(type), fields)

\* abi_encode
Encode(layout, fields) ==
    [i \in 1 .. Len(layout) |-> WriteWord(layout[i], fields[i])]

\* abi_decode answers Some
Decodes(type, body) ==
    /\ Len(body) = Len(Read(type))
    /\ \A i \in 1 .. Len(body) : Canonical(Read(type)[i], body[i])

\* and what it answers.
Decode(type, body) ==
    [i \in 1 .. Len(body) |-> ReadWord(Read(type)[i], body[i])]

-----------------------------------------------------------------------------
(* Hashes. keccak256 is an external, collision-free function of the bytes. *)

Keccak(words) == <<"keccak256", words>>

CommitmentHash(type, fields) == Keccak(Encode(Written(type), fields))

RequestIdOnce(fields, nonce) ==         \* mutant: the nonce is left out
    Keccak(Encode(WithdrawalRequestWritten, fields))

RequestId(fields, nonce) ==
    Keccak(Encode(WithdrawalRequestWritten, fields) \o <<WriteWord("u64", nonce)>>)

One == [i \in 1 .. 1 |-> 1]

PayloadHash(domain, fields) ==
    Keccak(<<domain, WriteWord("bool", One), WriteWord("bool", One)>>
             \o Encode(WithdrawalContextWritten, fields))

-----------------------------------------------------------------------------
(* Where the messages keep what the handlers ask of them. *)

Message(type, fields) ==
    LET source == IF type = "return" THEN 5 ELSE 3
        Route(at) == [chain |-> fields[at], domain |-> fields[at + 1],
                      owner |-> fields[at + 2], executor |-> fields[at + 5]]
    IN [day_tx_id |-> fields[1],
        withdrawal_id |-> fields[3],        \* of a return intent
        ids |-> IF type = "return" THEN {fields[1], fields[2], fields[3]}
                                   ELSE {fields[1]},
        source |-> Route(source),
        destination |-> Route(source + 6),
        amount |-> fields[IF type = "return" THEN 19 ELSE 17]]
=============================================================================

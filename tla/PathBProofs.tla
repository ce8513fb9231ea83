---------------------------- MODULE PathBProofs -----------------------------
(***************************************************************************)
(* Proofs about the codecs and the preflights of path B, for any widths,   *)
(* bytes and instructions.                                                 *)
(***************************************************************************)
EXTENDS PathB, SequenceTheorems, TLAPS

-----------------------------------------------------------------------------
(* Sequences and hashes. *)

LEMMA Appended ==
    ASSUME NEW T, NEW s \in Seq(T), NEW x \in T
    PROVE  /\ Len(s \o <<x>>) = Len(s) + 1
           /\ (s \o <<x>>)[Len(s) + 1] = x
           /\ \A i \in 1 .. Len(s) : (s \o <<x>>)[i] = s[i]
<1>1. <<x>> \in Seq(T) /\ Len(<<x>>) = 1 /\ <<x>>[1] = x
  OBVIOUS
<1>2. /\ Len(s \o <<x>>) = Len(s) + 1
      /\ \A i \in 1 .. Len(s) + 1 :
            (s \o <<x>>)[i] = IF i <= Len(s) THEN s[i] ELSE <<x>>[i - Len(s)]
  BY <1>1, ConcatProperties
<1> QED
  BY <1>1, <1>2

LEMMA KeccakInjective ==
    ASSUME NEW a, NEW b
    PROVE  Keccak(a) = Keccak(b) <=> a = b
BY DEF Keccak

-----------------------------------------------------------------------------
(* Words. *)

LEMMA Widths ==
    ASSUME NEW kind \in Kind
    PROVE  Width(kind) \in 1 .. WORD
BY CodecAssumption DEF Kind, Width

\* Reading what was written gives it back, and what is written is canonical.
LEMMA ReadWritten ==
    ASSUME NEW kind \in Kind, NEW value \in Value(kind)
    PROVE  /\ WriteWord(kind, value) \in Word
           /\ Canonical(kind, WriteWord(kind, value))
           /\ ReadWord(kind, WriteWord(kind, value)) = value
<1> DEFINE w == Width(kind)
           padding == WORD - w
           word == WriteWord(kind, value)
<1>1. w \in Nat /\ 1 <= w /\ w <= WORD /\ WORD \in Nat
  BY Widths, CodecAssumption
<1>2. /\ value \in [1 .. w -> Byte]
      /\ kind = "bool" => value \in [1 .. 1 -> {0, 1}] /\ w = 1
  BY CodecAssumption DEF Value, Width
<1>3. word = [i \in 1 .. WORD |-> IF i <= padding THEN 0 ELSE value[i - padding]]
  BY DEF WriteWord
<1> HIDE DEF w, word
<1>4. word \in Word
  BY <1>1, <1>2, <1>3, CodecAssumption DEF Word
<1>5. \A i \in 1 .. padding : word[i] = 0
  BY <1>1, <1>3
<1>6. \A i \in 1 .. w : word[i + padding] = value[i]
  BY <1>1, <1>3
<1>7. kind = "bool" => word[WORD] \in {0, 1}
  <2> SUFFICES ASSUME kind = "bool" PROVE word[WORD] \in {0, 1}
    OBVIOUS
  <2>1. w = 1 /\ value[1] \in {0, 1}
    BY <1>2
  <2> QED
    BY <2>1, <1>1, <1>6
<1>8. [i \in 1 .. w |-> word[i + padding]] = value
  BY <1>2, <1>6
<1> QED
  BY <1>4, <1>5, <1>7, <1>8 DEF Canonical, ReadWord, w, word

\* Writing what was read of a canonical word gives the word back.
LEMMA WrittenRead ==
    ASSUME NEW kind \in Kind, NEW word \in Word, Canonical(kind, word)
    PROVE  WriteWord(kind, ReadWord(kind, word)) = word
<1> DEFINE w == Width(kind)
           padding == WORD - w
           value == [i \in 1 .. w |-> word[i + padding]]
<1>1. w \in Nat /\ 1 <= w /\ w <= WORD /\ WORD \in Nat
  BY Widths, CodecAssumption
<1>2. \A i \in 1 .. padding : word[i] = 0
  BY DEF Canonical
<1> HIDE DEF w
<1>3. \A i \in 1 .. WORD :
        (IF i <= padding THEN 0 ELSE value[i - padding]) = word[i]
  BY <1>1, <1>2
<1>4. [i \in 1 .. WORD |-> IF i <= padding THEN 0 ELSE value[i - padding]] = word
  BY <1>3 DEF Word
<1> QED
  BY <1>4 DEF WriteWord, ReadWord, w

-----------------------------------------------------------------------------
(* Bodies. *)

LEMMA LayoutsAgree ==
    ASSUME NEW type \in MessageType
    PROVE  /\ Written(type) = Read(type)
           /\ Read(type) \in Seq(Kind)
           /\ Len(Read(type)) = IF type = "return" THEN 22 ELSE 23
<1> USE DEF Kind, RouteRead, RouteWritten
<1>1. CASE type = "deposit"
  BY <1>1 DEF Written, Read, DepositIntentRead, DepositIntentWritten
<1>2. CASE type = "request"
  BY <1>2 DEF Written, Read, WithdrawalRequestRead, WithdrawalRequestWritten
<1>3. CASE type = "return"
  BY <1>3 DEF Written, Read, ReturnIntentRead, ReturnIntentWritten
<1> QED
  BY <1>1, <1>2, <1>3 DEF MessageType

\* Only deposits and requests are equally long.
LEMMA LengthTells ==
    ASSUME NEW s \in MessageType, NEW t \in MessageType,
           Len(Read(s)) = Len(Read(t)), s # t
    PROVE  s # "return" /\ t # "return"
<1>1. Len(Read("return")) = 22
  BY LayoutsAgree DEF MessageType
<1>2. Len(Read("deposit")) = 23 /\ Len(Read("request")) = 23
  BY LayoutsAgree DEF MessageType
<1>3. 22 # 23
  OBVIOUS
<1> QED
  BY <1>1, <1>2, <1>3, Zenon DEF MessageType

\* Every message survives its own encoding.
THEOREM DecodeAfterEncode ==
    ASSUME NEW type \in MessageType, NEW fields, WellTyped(type, fields)
    PROVE  LET body == Encode(Written(type), fields) IN
           /\ body \in Seq(Word)
           /\ Decodes(type, body)
           /\ Decode(type, body) = fields
<1> DEFINE n == Len(Read(type))
           body == Encode(Written(type), fields)
<1>1. n \in Nat /\ Written(type) = Read(type)
  BY LayoutsAgree
<1>2. \A i \in 1 .. n : Read(type)[i] \in Kind
  BY LayoutsAgree
<1>3. body = [i \in 1 .. n |-> WriteWord(Read(type)[i], fields[i])]
  BY <1>1 DEF Encode
<1>4. \A i \in 1 .. n :
        /\ WriteWord(Read(type)[i], fields[i]) \in Word
        /\ Canonical(Read(type)[i], WriteWord(Read(type)[i], fields[i]))
        /\ ReadWord(Read(type)[i], WriteWord(Read(type)[i], fields[i])) = fields[i]
  BY <1>2, ReadWritten DEF WellTyped, Fits
<1> HIDE DEF body
<1>5. body \in Seq(Word) /\ Len(body) = n
  BY <1>1, <1>3, <1>4
<1>6. Decodes(type, body)
  BY <1>3, <1>4, <1>5 DEF Decodes
<1>7. Decode(type, body) = [i \in 1 .. n |-> fields[i]]
  BY <1>3, <1>4, <1>5 DEF Decode
<1> QED
  BY <1>5, <1>6, <1>7 DEF WellTyped, Fits, body

\* A body that decodes is the encoding of what it decodes to: no message has a
\* second spelling, so none has a second commitment hash or request id.
THEOREM EncodeAfterDecode ==
    ASSUME NEW type \in MessageType, NEW body \in Seq(Word), Decodes(type, body)
    PROVE  Encode(Written(type), Decode(type, body)) = body
<1> DEFINE n == Len(body)
<1>1. Written(type) = Read(type) /\ Len(Read(type)) = n /\ n \in Nat
  BY LayoutsAgree DEF Decodes
<1>2. \A i \in 1 .. n : Read(type)[i] \in Kind
  BY <1>1, LayoutsAgree
<1>3. \A i \in 1 .. n : WriteWord(Read(type)[i], ReadWord(Read(type)[i], body[i]))
                           = body[i]
  BY <1>2, WrittenRead DEF Decodes
<1>4. Encode(Written(type), Decode(type, body))
        = [i \in 1 .. n |-> WriteWord(Read(type)[i], ReadWord(Read(type)[i], body[i]))]
  BY <1>1 DEF Encode, Decode
<1>5. body = [i \in 1 .. n |-> body[i]]
  OBVIOUS
<1> QED
  BY <1>3, <1>4, <1>5

\* Structs with one encoding are one, whatever the layout.
LEMMA EncodeInjective ==
    ASSUME NEW layout \in Seq(Kind), NEW f, NEW g,
           Fits(layout, f), Fits(layout, g),
           Encode(layout, f) = Encode(layout, g)
    PROVE  f = g
<1> DEFINE n == Len(layout)
<1>1. n \in Nat /\ \A i \in 1 .. n : layout[i] \in Kind
  OBVIOUS
<1>2. \A i \in 1 .. n : WriteWord(layout[i], f[i]) = WriteWord(layout[i], g[i])
  BY <1>1 DEF Encode
<1>3. \A i \in 1 .. n : f[i] = g[i]
  <2> SUFFICES ASSUME NEW i \in 1 .. n PROVE f[i] = g[i]
    OBVIOUS
  <2>1. layout[i] \in Kind /\ f[i] \in Value(layout[i]) /\ g[i] \in Value(layout[i])
    BY <1>1 DEF Fits
  <2> QED
    BY <2>1, <1>2, ReadWritten
<1> QED
  BY <1>3 DEF Fits

\* A payload hash names one withdrawal context: the message the peer's
\* executor authenticates is the one that was signed.
THEOREM PayloadsBind ==
    ASSUME NEW domain, NEW c, NEW d,
           Fits(WithdrawalContextWritten, c), Fits(WithdrawalContextWritten, d),
           PayloadHash(domain, c) = PayloadHash(domain, d)
    PROVE  c = d
<1> DEFINE layout == WithdrawalContextWritten
           head == <<domain, WriteWord("bool", One), WriteWord("bool", One)>>
           x == Encode(layout, c)
           y == Encode(layout, d)
<1>1. layout \in Seq(Kind) /\ Len(layout) = 21
  BY DEF WithdrawalContextWritten, Kind
<1>2. x = [i \in 1 .. 21 |-> x[i]] /\ y = [i \in 1 .. 21 |-> y[i]]
  BY <1>1 DEF Encode
<1>3. head \o x = head \o y
  BY DEF PayloadHash, Keccak
<1> HIDE DEF layout, x, y
<1> DEFINE T == Range(head) \cup Range(x) \cup Range(y)
<1>4. /\ head \in Seq(T) /\ x \in Seq(T) /\ y \in Seq(T)
      /\ Len(head) = 3 /\ Len(x) = 21 /\ Len(y) = 21
  BY <1>2 DEF Range
<1> HIDE DEF T, head
<1>5. \A i \in 1 .. 21 : (head \o x)[i + 3] = x[i] /\ (head \o y)[i + 3] = y[i]
  <2>1. \A i \in 1 .. Len(head) + Len(x) :
          (head \o x)[i] = IF i <= Len(head) THEN head[i] ELSE x[i - Len(head)]
    BY <1>4, ConcatProperties
  <2>2. \A i \in 1 .. Len(head) + Len(y) :
          (head \o y)[i] = IF i <= Len(head) THEN head[i] ELSE y[i - Len(head)]
    BY <1>4, ConcatProperties
  <2> SUFFICES ASSUME NEW i \in 1 .. 21
               PROVE  (head \o x)[i + 3] = x[i] /\ (head \o y)[i + 3] = y[i]
    OBVIOUS
  <2>3. /\ i + 3 \in 1 .. Len(head) + Len(x) /\ i + 3 \in 1 .. Len(head) + Len(y)
        /\ ~(i + 3 <= Len(head)) /\ (i + 3) - Len(head) = i
    BY <1>4
  <2> QED
    BY <2>1, <2>2, <2>3
<1>6. x = y
  BY <1>2, <1>3, <1>5
<1> QED
  BY <1>1, <1>6, EncodeInjective DEF layout, x, y

-----------------------------------------------------------------------------
(* The gates. *)

\* TypeOK, which is inductive: what is remembered was sent and passed every
\* preflight, and every instruction ends in one of the six errors.
THEOREM TypeCorrect == Spec => []TypeOK
<1>1. Init => TypeOK
  BY DEF Init, TypeOK
<1>2. TypeOK /\ [Next]_vars => TypeOK'
  <2> SUFFICES ASSUME TypeOK, [Next]_vars PROVE TypeOK'
    OBVIOUS
  <2>1. ASSUME NEW kind \in Instruction, NEW ix \in Sent[kind], Process(ix)
        PROVE  TypeOK'
    <3>1. ix \in Submissions /\ ix.kind = kind
      BY <2>1 DEF Sent
    <3>2. OutcomeOf[ix] = Outcome(ix)
      BY <3>1 DEF OutcomeOf
    <3>3. Outcome(ix) \in {"InvalidInstructionData", "NotEnoughAccountKeys",
                           "MissingRequiredSignature", "InvalidAccount",
                           "MctpProofPathNotWired", "ReverseAttestationNotWired"}
      BY DEF Outcome, Gate
    <3>4. ix \in Sent[ix.kind]
      BY <2>1, <3>1
    <3>5. outcome' = Outcome(ix)
      BY <2>1, <3>2 DEF Process
    <3>6. \A g \in gated' : \/ g \in gated
                            \/ g = ix /\ OutcomeOf[ix] = Gate(ix.kind)
      BY <2>1 DEF Process
    <3>7. \A g \in gated' : g.kind \in Instruction /\ g \in Sent[g.kind]
                              /\ OutcomeOf[g] = Gate(g.kind)
      BY <3>1, <3>4, <3>6 DEF TypeOK
    <3> QED
      BY <3>3, <3>5, <3>7 DEF TypeOK
  <2>2. CASE Next
    BY <2>1, <2>2 DEF Next, Instruction, InitiateHandoffDeposit,
       RedeemHandoffDeposit, RequestRemoteWithdrawal, ExecuteVerifiedWithdrawal,
       BridgeWithdrawalReturn, RedeemReturnToOwner
  <2>3. CASE UNCHANGED vars
    BY <2>3 DEF vars, TypeOK
  <2> QED
    BY <2>2, <2>3
<1> QED
  BY <1>1, <1>2, PTL DEF Spec

LEMMA GatedFacts ==
    ASSUME TypeOK, NEW ix \in gated
    PROVE  /\ ix \in Submissions
           /\ ix.kind \in Instruction
           /\ Type(ix.kind) \in MessageType
           /\ ix.body \in Seq(Word)
           /\ WellTyped(Type(ix.kind), ix.fields)
           /\ Preflight(ix)
           /\ ix.accounts \in Seq(Range(ix.accounts))
           /\ FixedLen(ix.kind) \in Nat
           /\ Len(ix.accounts) >= FixedLen(ix.kind)
           /\ AccountsPinned(ix)
<1>1. ix \in Sent[ix.kind] /\ OutcomeOf[ix] = Gate(ix.kind)
  BY DEF TypeOK
<1>2. ix \in Submissions /\ ix.kind \in Instruction
  BY DEF TypeOK, Sent
<1>3. /\ ix.body \in Seq(Word)
      /\ WellTyped(Type(ix.kind), ix.fields)
      /\ ix.accounts \in Seq(Range(ix.accounts))
  BY <1>2, PathBAssumption
<1>4. Type(ix.kind) \in MessageType
  BY <1>2 DEF Instruction, Type, MessageType
<1>5. Outcome(ix) = Gate(ix.kind)
  BY <1>1, <1>2 DEF OutcomeOf
<1>6. Preflight(ix) /\ ~(Len(ix.accounts) < FixedLen(ix.kind)) /\ AccountsPinned(ix)
  BY <1>5 DEF Outcome, Gate
<1>7. FixedLen(ix.kind) \in Nat /\ Len(ix.accounts) \in Nat
  BY <1>2, <1>3 DEF Instruction, FixedLen
<1> QED
  BY <1>2, <1>3, <1>4, <1>6, <1>7

\* BodyIsMessage, for any widths and messages.
THEOREM BodyAlwaysIsMessage == Spec => []BodyIsMessage
<1>1. TypeOK => BodyIsMessage
  <2> SUFFICES ASSUME TypeOK, NEW ix \in gated
               PROVE  Decode(Type(ix.kind), ix.body) = ix.fields
                        <=> ix.body = Encode(Written(Type(ix.kind)), ix.fields)
    BY DEF BodyIsMessage
  <2>1. Type(ix.kind) \in MessageType /\ ix.body \in Seq(Word)
        /\ WellTyped(Type(ix.kind), ix.fields) /\ Decodes(Type(ix.kind), ix.body)
    BY GatedFacts DEF Preflight
  <2> QED
    BY <2>1, DecodeAfterEncode, EncodeAfterDecode
<1> QED
  BY <1>1, TypeCorrect, PTL

\* A message that goes out of Solana is not one that comes in.
LEMMA DirectionsExclude ==
    ASSUME NEW p, NEW q, NEW m,
           ValidIntent(p, m), ValidIntent(q, m)
    PROVE  p \in Outbound <=> q \in Outbound
BY PathBAssumption DEF ValidIntent, Local, Remote

\* Deposits and requests keep their routes in the same words.
LEMMA RouteWords ==
    ASSUME NEW ix, Type(ix.kind) \in {"deposit", "request"},
           Decodes(Type(ix.kind), ix.body)
    PROVE  /\ MessageOf(ix).source.chain = ReadWord("u32", ix.body[3])
           /\ MessageOf(ix).source.domain = ReadWord("u32", ix.body[4])
           /\ MessageOf(ix).destination.chain = ReadWord("u32", ix.body[9])
           /\ MessageOf(ix).destination.domain = ReadWord("u32", ix.body[10])
<1> DEFINE t == Type(ix.kind)
<1>1. Len(ix.body) = 23
  BY LayoutsAgree DEF Decodes, MessageType
<1>2. /\ Read(t)[3] = "u32" /\ Read(t)[4] = "u32"
      /\ Read(t)[9] = "u32" /\ Read(t)[10] = "u32"
  <2>1. CASE t = "deposit"
    BY <2>1 DEF Read, DepositIntentRead, RouteRead
  <2>2. CASE t = "request"
    BY <2>2 DEF Read, WithdrawalRequestRead, RouteRead
  <2> QED
    BY <2>1, <2>2
<1> QED
  BY <1>1, <1>2 DEF MessageOf, Message, Decode

\* OneHandlerPerBody, for any instructions.
THEOREM OneHandlerAlways == Spec => []OneHandlerPerBody
<1>1. TypeOK => OneHandlerPerBody
  <2> SUFFICES ASSUME TypeOK, NEW p \in gated, NEW q \in gated,
                      p.body = q.body, p.kind # q.kind
               PROVE  /\ {Type(p.kind), Type(q.kind)} = {"deposit", "request"}
                      /\ p.kind \in Outbound <=> q.kind \in Outbound
                      /\ Canonical("bool", p.body[Len(p.body)])
    BY DEF OneHandlerPerBody
  <2> DEFINE s == Type(p.kind)
             t == Type(q.kind)
  <2>1. /\ p.kind \in Instruction /\ s \in MessageType /\ Preflight(p)
        /\ q.kind \in Instruction /\ t \in MessageType /\ Preflight(q)
    BY GatedFacts
  <2>2. /\ Decodes(s, p.body) /\ ValidIntent(p.kind, MessageOf(p))
        /\ Decodes(t, p.body) /\ ValidIntent(q.kind, MessageOf(q))
    BY <2>1 DEF Preflight
  <2>3. s # t
    <3> SUFFICES ASSUME s = t PROVE FALSE
      OBVIOUS
    <3>1. MessageOf(p) = MessageOf(q)
      BY DEF MessageOf
    <3>2. p.kind \in Outbound <=> q.kind \in Outbound
      BY <2>2, <3>1, DirectionsExclude
    <3> QED
      BY <2>1, <3>2 DEF Type, Outbound, Instruction
  <2>4. s \in {"deposit", "request"} /\ t \in {"deposit", "request"}
    <3>1. Len(Read(s)) = Len(Read(t))
      BY <2>2 DEF Decodes
    <3> HIDE DEF s, t
    <3>2. s # "return" /\ t # "return"
      BY <2>1, <2>3, <3>1, LengthTells
    <3> QED
      BY <2>1, <3>2 DEF MessageType
  <2>5. {s, t} = {"deposit", "request"}
    BY <2>3, <2>4
  <2>6. Canonical("bool", p.body[Len(p.body)])
    <3>1. Len(p.body) = 23 /\ Decodes("request", p.body)
      BY <2>1, <2>2, <2>5, LayoutsAgree DEF Decodes
    <3>2. Read("request")[23] = "bool"
      BY DEF Read, WithdrawalRequestRead, RouteRead
    <3> QED
      BY <3>1, <3>2 DEF Decodes
  <2>7. p.kind \in Outbound <=> q.kind \in Outbound
    <3>1. /\ MessageOf(p).source.chain = ReadWord("u32", p.body[3])
          /\ MessageOf(p).source.domain = ReadWord("u32", p.body[4])
          /\ MessageOf(p).destination.chain = ReadWord("u32", p.body[9])
          /\ MessageOf(p).destination.domain = ReadWord("u32", p.body[10])
      BY <2>2, <2>4, RouteWords
    <3>2. /\ MessageOf(q).source.chain = ReadWord("u32", p.body[3])
          /\ MessageOf(q).source.domain = ReadWord("u32", p.body[4])
          /\ MessageOf(q).destination.chain = ReadWord("u32", p.body[9])
          /\ MessageOf(q).destination.domain = ReadWord("u32", p.body[10])
      BY <2>2, <2>4, RouteWords
    <3> QED
      BY <2>2, <3>1, <3>2, PathBAssumption DEF ValidIntent, Local, Remote
  <2> QED
    BY <2>5, <2>6, <2>7
<1> QED
  BY <1>1, TypeCorrect, PTL

\* RequestIdsBind, for any nonces and instructions.
THEOREM RequestIdsAlwaysBind == Spec => []RequestIdsBind
<1>1. TypeOK => RequestIdsBind
  <2> SUFFICES ASSUME TypeOK, NEW p \in gated, NEW q \in gated,
                      NEW m \in Nonces, NEW n \in Nonces,
                      Type(p.kind) = "request"
               PROVE  LET f == Decode("request", p.body)
                          g == Decode(Type(q.kind), q.body)
                      IN /\ RequestId(f, m) # CommitmentHash(Type(q.kind), g)
                         /\ Type(q.kind) = "request"
                              => (RequestId(f, m) = RequestId(g, n)
                                     <=> p.body = q.body /\ m = n)
    BY DEF RequestIdsBind
  <2> DEFINE t == Type(q.kind)
             f == Decode("request", p.body)
             g == Decode(t, q.body)
             M == WriteWord("u64", m)
             N == WriteWord("u64", n)
  <2>1. /\ p.body \in Seq(Word) /\ Decodes("request", p.body)
        /\ q.body \in Seq(Word) /\ Decodes(t, q.body) /\ t \in MessageType
    BY GatedFacts DEF Preflight
  <2>2. Encode(Written("request"), f) = p.body /\ Len(p.body) = 23
    BY <2>1, EncodeAfterDecode, LayoutsAgree DEF Decodes, MessageType
  <2>3. Encode(Written(t), g) = q.body /\ (Len(q.body) = 23 \/ Len(q.body) = 22)
    BY <2>1, EncodeAfterDecode, LayoutsAgree DEF Decodes
  <2>4. Written("request") = WithdrawalRequestWritten
    BY DEF Written
  <2>5. RequestId(f, m) = Keccak(p.body \o <<M>>)
    BY <2>2, <2>4 DEF RequestId
  <2>6. CommitmentHash(t, g) = Keccak(q.body)
    BY <2>3 DEF CommitmentHash
  <2>7. /\ M \in Word /\ ReadWord("u64", M) = m
        /\ N \in Word /\ ReadWord("u64", N) = n
    BY ReadWritten, PathBAssumption DEF Kind
  <2> HIDE DEF f, g, M, N, t
  <2>8. RequestId(f, m) # CommitmentHash(t, g)
    <3>1. Len(p.body \o <<M>>) = 24
      <4>1. Len(p.body \o <<M>>) = Len(p.body) + 1
        BY <2>1, <2>7, Appended
      <4> QED
        BY <4>1, <2>2
    <3>2. Len(q.body) # 24
      BY <2>3
    <3>3. p.body \o <<M>> # q.body
      BY <3>1, <3>2
    <3> QED
      BY <3>3, <2>5, <2>6, KeccakInjective
  <2>9. ASSUME t = "request"
        PROVE  RequestId(f, m) = RequestId(g, n) <=> p.body = q.body /\ m = n
    <3>1. RequestId(g, n) = Keccak(q.body \o <<N>>)
      BY <2>3, <2>4, <2>9 DEF RequestId, N
    <3>2. Len(q.body) = 23
      BY <2>1, <2>9, LayoutsAgree DEF Decodes
    <3>3. ASSUME p.body \o <<M>> = q.body \o <<N>>
          PROVE  p.body = q.body /\ M = N
      <4>1. (p.body \o <<M>>)[24] = M /\ (q.body \o <<N>>)[24] = N
        <5>1. /\ (p.body \o <<M>>)[Len(p.body) + 1] = M
              /\ (q.body \o <<N>>)[Len(q.body) + 1] = N
          BY <2>1, <2>7, Appended
        <5>2. Len(p.body) + 1 = 24 /\ Len(q.body) + 1 = 24
          BY <2>2, <3>2
        <5> QED
          BY <5>1, <5>2
      <4>2. \A i \in 1 .. 23 : /\ (p.body \o <<M>>)[i] = p.body[i]
                               /\ (q.body \o <<N>>)[i] = q.body[i]
        BY <2>1, <2>2, <2>7, <3>2, Appended
      <4>3. \A i \in 1 .. 23 : p.body[i] = q.body[i]
        BY <3>3, <4>2
      <4>4. p.body = q.body
        BY <4>3, <2>1, <2>2, <3>2, SeqEqual
      <4> QED
        BY <3>3, <4>1, <4>4
    <3>4. RequestId(f, m) = RequestId(g, n) <=> p.body \o <<M>> = q.body \o <<N>>
      BY <2>5, <3>1, KeccakInjective
    <3>5. M = N => m = n
      BY <2>7
    <3>6. m = n => M = N
      BY DEF M, N
    <3> QED
      BY <3>3, <3>4, <3>5, <3>6
  <2> QED
    BY <2>8, <2>9 DEF f, g, t
<1> QED
  BY <1>1, TypeCorrect, PTL

-----------------------------------------------------------------------------
(* Accounts. *)

\* The key a role's account has.
Key(role, day_tx_id) ==
    CASE role = "custody" -> Custody(day_tx_id)
      [] role = "custody_usdc" -> UsdcAta(Custody(day_tx_id))
      [] role = "position" -> HandoffPosition(day_tx_id)
      [] role = "source_intent" -> SourceIntentReceipt(day_tx_id)

LEMMA Prefix ==
    ASSUME NEW T, NEW s \in Seq(T), NEW n \in Nat, n <= Len(s), NEW i \in 1 .. n
    PROVE  SubSeq(s, 1, n)[i] = s[i]
OBVIOUS

\* An account at a fixed place is the one the handler asks for.
LEMMA PinnedAt ==
    ASSUME TypeOK, NEW ix \in gated, NEW i \in 1 .. FixedLen(ix.kind)
    PROVE  ix.accounts[i] = FixedAccounts(ix)[i]
<1>1. /\ ix.accounts \in Seq(Range(ix.accounts)) /\ FixedLen(ix.kind) \in Nat
      /\ FixedLen(ix.kind) <= Len(ix.accounts) /\ AccountsPinned(ix)
  BY GatedFacts
<1>2. SubSeq(ix.accounts, 1, FixedLen(ix.kind))[i] = ix.accounts[i]
  BY <1>1, Prefix
<1> QED
  BY <1>1, <1>2 DEF AccountsPinned

\* The account of a role is derived from the handoff of the message.
LEMMA RoleKeys ==
    ASSUME TypeOK, NEW ix \in gated, NEW role \in Role, Slot(role, ix.kind) # 0
    PROVE  ix.accounts[Slot(role, ix.kind)] = Key(role, MessageOf(ix).day_tx_id)
<1> DEFINE i == Slot(role, ix.kind)
           tx == MessageOf(ix).day_tx_id
<1>1. ix.kind \in Instruction
  BY GatedFacts
<1>2. i \in 1 .. FixedLen(ix.kind)
  BY <1>1 DEF Instruction, Role, Slot, FixedLen
<1>3. ix.accounts[i] = FixedAccounts(ix)[i]
  BY <1>2, PinnedAt
<1>4. FixedAccounts(ix)[i] = Key(role, tx)
  <2>1. CASE ix.kind = "initiate"
    BY <2>1 DEF Role, Slot, FixedAccounts, InitiateAccounts, Key
  <2>2. CASE ix.kind = "redeem"
    BY <2>2 DEF Role, Slot, FixedAccounts, RedeemAccounts, Key
  <2>3. CASE ix.kind = "reverse"
    BY <2>3 DEF Role, Slot, FixedAccounts, ReverseAccounts, Key
  <2>4. CASE ix.kind = "execute"
    BY <2>4 DEF Role, Slot, FixedAccounts, ExecuteAccounts, Key
  <2>5. CASE ix.kind = "bridge_return"
    BY <2>5 DEF Role, Slot, FixedAccounts, BridgeReturnAccounts, Key
  <2>6. CASE ix.kind = "redeem_return"
    BY <2>6 DEF Role, Slot, FixedAccounts, RedeemReturnAccounts, Key
  <2> QED
    BY <1>1, <2>1, <2>2, <2>3, <2>4, <2>5, <2>6 DEF Instruction
<1> QED
  BY <1>3, <1>4

\* Different handoffs have different accounts of every role.
LEMMA KeysApart ==
    ASSUME NEW role \in Role, NEW a, NEW b
    PROVE  Key(role, a) = Key(role, b) <=> a = b
BY DEF Role, Key, Custody, UsdcAta, HandoffPosition, SourceIntentReceipt

\* AccountsFollowHandoff, for any instructions: no two legs of different
\* handoffs meet in an account, and the legs of one always do.
THEOREM AccountsAlwaysFollow == Spec => []AccountsFollowHandoff
<1>1. TypeOK => AccountsFollowHandoff
  <2> SUFFICES ASSUME TypeOK, NEW p \in gated, NEW q \in gated, NEW role \in Role,
                      Slot(role, p.kind) # 0, Slot(role, q.kind) # 0
               PROVE  p.accounts[Slot(role, p.kind)] = q.accounts[Slot(role, q.kind)]
                        <=> MessageOf(p).day_tx_id = MessageOf(q).day_tx_id
    BY DEF AccountsFollowHandoff
  <2> QED
    BY RoleKeys, KeysApart
<1> QED
  BY <1>1, TypeCorrect, PTL

\* ReturnsFollowWithdrawal, for any instructions.
THEOREM ReturnsAlwaysFollow == Spec => []ReturnsFollowWithdrawal
<1>1. ASSUME TypeOK, NEW ix \in gated, ix.kind = "redeem_return"
      PROVE  /\ ix.accounts[5] = ReturnReceipt(MessageOf(ix).withdrawal_id)
             /\ ix.accounts[8]
                  = UsdcAta(Wallet(MessageOf(ix).destination.owner))
  <2>1. FixedLen(ix.kind) = 14
    BY <1>1 DEF FixedLen
  <2>2. ix.accounts[5] = FixedAccounts(ix)[5] /\ ix.accounts[8] = FixedAccounts(ix)[8]
    BY <1>1, <2>1, PinnedAt
  <2> QED
    BY <1>1, <2>2 DEF FixedAccounts, RedeemReturnAccounts
<1>2. TypeOK => ReturnsFollowWithdrawal
  <2> SUFFICES ASSUME TypeOK, NEW p \in gated, NEW q \in gated,
                      p.kind = "redeem_return", q.kind = "redeem_return"
               PROVE  /\ p.accounts[5] = q.accounts[5]
                           <=> MessageOf(p).withdrawal_id = MessageOf(q).withdrawal_id
                      /\ p.accounts[8] = q.accounts[8]
                           <=> MessageOf(p).destination.owner
                                 = MessageOf(q).destination.owner
    BY DEF ReturnsFollowWithdrawal
  <2> QED
    BY <1>1 DEF ReturnReceipt, UsdcAta, Wallet
<1> QED
  BY <1>2, TypeCorrect, PTL
=============================================================================

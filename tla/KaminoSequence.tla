--------------------------- MODULE KaminoSequence ---------------------------
(***************************************************************************)
(* The Kamino arm of day_router (DAY-976): from the accounts a transaction *)
(* lists, it builds the atomic sequence of KLend instructions              *)
(*                                                                         *)
(*    RefreshReserve*  RefreshObligation  Deposit | Withdraw               *)
(*                                                                         *)
(* for the owner who signed.  KLend keeps one obligation per owner, the    *)
(* reserves it has deposits in and the reserves it borrows from, and       *)
(* refuses to touch it unless every one of them was refreshed just before. *)
(* Those positions reach the program as a frame that trails the fixed      *)
(* accounts: deposit reserves, a delimiter, borrow reserves, a delimiter,  *)
(* referrer token states.  A client composes the frame from the obligation *)
(* as it read it; the owner may use KLend directly before the transaction  *)
(* lands.                                                                  *)
(*                                                                         *)
(* Amounts are abstracted: a withdrawal takes part of a deposit or all of  *)
(* it.  The pinned vaults, mints, price feed and programs of the fixed     *)
(* accounts are a layout, right for a deposit or right for a withdrawal;   *)
(* any other is refused by the same check.  owner_signed says that the     *)
(* owner account is the signer of the outer instruction.  The registry     *)
(* gate and the program pin come before (ValidateProtocolProgram).         *)
(***************************************************************************)
EXTENDS Integers, SequencesExt

CONSTANTS
    PinnedReserves,   \* Main Market reserves the program pins
    UnlistedReserves, \* reserves KLend knows and the program does not
    ReferrerStates,   \* referrer token states, one for each reserve
    HasReferrer,      \* whether the obligation was opened with a referrer
    KLEND,            \* the KLend program id, which delimits the frame
    NullKey,          \* the default key
    Strays,           \* frames no client composes from an obligation
    MaxPositions      \* bound: deposits, and borrows, of the obligation

Reserves == PinnedReserves \cup UnlistedReserves

\* The referrer token state of a borrow from the reserve.
ReferrerState(reserve) == ReferrerStates[reserve]

Distinct(s) == \A i, j \in 1..Len(s) : s[i] = s[j] => i = j

Positions ==
    {s \in UNION {[1..n -> Reserves] : n \in 0..MaxPositions} : Distinct(s)}

AccountMeta ==
    [key : Reserves \cup Range(ReferrerStates) \cup {KLEND, NullKey},
     writable : BOOLEAN]

ASSUME KaminoAssumption ==
    /\ PinnedReserves \cap UnlistedReserves = {} /\ IsFiniteSet(PinnedReserves)
    /\ KLEND \notin Reserves /\ NullKey \notin Reserves \cup {KLEND}
    /\ DOMAIN ReferrerStates = Reserves /\ IsInjective(ReferrerStates)
    /\ Range(ReferrerStates) \cap (Reserves \cup {KLEND, NullKey}) = {}
    /\ HasReferrer \in BOOLEAN
    /\ Strays \subseteq Seq(AccountMeta)
    /\ MaxPositions \in Nat

VARIABLES
    obligation, \* what KLend records of the owner: deposits and borrows
    pending     \* transactions composed or submitted and not yet processed

vars == <<obligation, pending>>

Obligation == [deposits : Positions, borrows : Positions]

Transaction ==
    [disc    : {"deposit", "withdraw"},
     layout  : {"deposit", "withdraw"},
     reserve : Reserves,
     owner_signed : BOOLEAN,
     all     : BOOLEAN,
     frame   : Seq(AccountMeta)]

(***************************************************************************)
(* The obligation lists a reserve at most once among its deposits and at   *)
(* most once among its borrows, within the bound.                          *)
(***************************************************************************)
TypeOK ==
    /\ obligation \in Obligation
    /\ pending \subseteq Transaction

Init ==
    /\ obligation = [deposits |-> <<>>, borrows |-> <<>>]
    /\ pending = {}

-----------------------------------------------------------------------------
(***************************************************************************)
(* The frame.                                                              *)
(***************************************************************************)
Keys(metas) == [i \in DOMAIN metas |-> metas[i].key]

AllWritable(metas) == \A i \in DOMAIN metas : metas[i].writable

Delimiters(frame) == {i \in DOMAIN frame : frame[i].key = KLEND}

DepositDelimiter(frame) == Min(Delimiters(frame))

BorrowDelimiter(frame) ==
    Min(Delimiters(frame) \ {DepositDelimiter(frame)})

DepositMetas(frame) == SubSeq(frame, 1, DepositDelimiter(frame) - 1)

BorrowMetas(frame) ==
    SubSeq(frame, DepositDelimiter(frame) + 1, BorrowDelimiter(frame) - 1)

ReferrerMetas(frame) == SubSeq(frame, BorrowDelimiter(frame) + 1, Len(frame))

DepositReserves(frame) == Keys(DepositMetas(frame))
BorrowReserves(frame)  == Keys(BorrowMetas(frame))
ReferrerTokenStates(frame) == Keys(ReferrerMetas(frame))

\* Two read-only delimiters and no third.
Delimited(frame) ==
    /\ Cardinality(Delimiters(frame)) = 2
    /\ \A i \in Delimiters(frame) : ~frame[i].writable

\* A slip: a reserve listed twice passes.
ReservesRepeat(metas) ==
    AllWritable(metas) /\ Range(Keys(metas)) \subseteq PinnedReserves

\* A slip: a reserve of the market the program does not pin passes.
ReservesAny(metas) == AllWritable(metas) /\ Distinct(Keys(metas))

\* Writable pinned reserves, each listed once.
ReservesValid(metas) ==
    /\ AllWritable(metas)
    /\ Range(Keys(metas)) \subseteq PinnedReserves
    /\ Distinct(Keys(metas))

\* None, or one per borrow: writable, distinct, not the null key, no reserve.
ReferrersValid(metas, borrows) ==
    /\ metas = <<>> \/ Len(metas) = Len(borrows)
    /\ AllWritable(metas)
    /\ NullKey \notin Range(Keys(metas))
    /\ Range(Keys(metas)) \cap PinnedReserves = {}
    /\ Distinct(Keys(metas))

FrameValid(frame) ==
    /\ Delimited(frame)
    /\ ReservesValid(DepositMetas(frame))
    /\ ReservesValid(BorrowMetas(frame))
    /\ ReferrersValid(ReferrerMetas(frame), BorrowMetas(frame))

-----------------------------------------------------------------------------
(***************************************************************************)
(* The sequence.                                                           *)
(***************************************************************************)

\* A slip: a deposit too must be into a reserve already listed.
Listed(tx) == tx.reserve \in Range(DepositReserves(tx.frame))

\* The reserves the instructions refresh: every reserve of the frame once, in
\* the order met, the current one last.
RefreshReserves(frame, current) ==
    LET listed == DepositReserves(frame) \o BorrowReserves(frame)
        seen[i \in 0..Len(listed)] ==
            IF i = 0 THEN <<>>
            ELSE IF listed[i] = current \/ listed[i] \in Range(seen[i - 1])
                 THEN seen[i - 1] ELSE Append(seen[i - 1], listed[i])
    IN  Append(seen[Len(listed)], current)

\* A slip: the current reserve is not left out where the frame lists it.
RefreshInfosAll(frame, current) ==
    LET listed == Keys(DepositMetas(frame) \o BorrowMetas(frame))
        seen[i \in 0..Len(listed)] ==
            IF i = 0 THEN <<>>
            ELSE IF listed[i] \in Range(seen[i - 1])
                 THEN seen[i - 1] ELSE Append(seen[i - 1], listed[i])
    IN  Append(seen[Len(listed)], current)

\* The accounts they are invoked with, by a loop of its own over the account
\* infos; an account stands for its key.
RefreshInfos(frame, current) ==
    LET listed == Keys(DepositMetas(frame) \o BorrowMetas(frame))
        seen[i \in 0..Len(listed)] ==
            IF i = 0 THEN <<>>
            ELSE IF listed[i] = current \/ listed[i] \in Range(seen[i - 1])
                 THEN seen[i - 1] ELSE Append(seen[i - 1], listed[i])
    IN  Append(seen[Len(listed)], current)

\* A withdrawal is from a reserve of the frame; a deposit may open a new one.
ReserveListed(tx) == tx.disc = "withdraw" => Listed(tx)

\* assert_kamino_deposit_accounts and assert_kamino_withdraw_accounts.
AccountsPinned(tx) == tx.layout = tx.disc /\ tx.reserve \in PinnedReserves

AdapterAccepts(tx) ==
    /\ tx.owner_signed
    /\ FrameValid(tx.frame)
    /\ ReserveListed(tx)
    /\ AccountsPinned(tx)

RefreshReserve(reserve) == [op |-> "refresh_reserve", reserve |-> reserve]

RefreshObligation(frame) ==
    [op        |-> "refresh_obligation",
     positions |-> DepositReserves(frame) \o BorrowReserves(frame),
     referrers |-> ReferrerTokenStates(frame)]

Act(tx) == [op |-> tx.disc, reserve |-> tx.reserve]

KaminoSequence(tx) ==
    LET refresh_reserves == RefreshReserves(tx.frame, tx.reserve)
    IN  [i \in DOMAIN refresh_reserves |-> RefreshReserve(refresh_reserves[i])]
            \o <<RefreshObligation(tx.frame), Act(tx)>>

\* The accounts each invocation is given, those all have in common left out:
\* one per refreshed reserve, then the frame without its delimiters, then the
\* fixed accounts.  The n-th goes with the n-th instruction.
AccountInfos(tx) ==
    LET infos == RefreshInfos(tx.frame, tx.reserve)
    IN  [i \in DOMAIN infos |-> <<infos[i]>>]
            \o <<Keys(DepositMetas(tx.frame)) \o Keys(BorrowMetas(tx.frame))
                    \o Keys(ReferrerMetas(tx.frame)),
                 <<tx.reserve>>>>

\* The accounts an instruction names.
Accounts(instruction) ==
    IF instruction.op = "refresh_obligation"
    THEN Range(instruction.positions) \cup Range(instruction.referrers)
    ELSE {instruction.reserve}

\* Every instruction invoked is there and has its accounts; the program would
\* panic without the one, the runtime refuse without the other.
Invocable(sequence, infos) ==
    /\ Len(infos) <= Len(sequence)
    /\ \A i \in DOMAIN infos : Accounts(sequence[i]) \subseteq Range(infos[i])

-----------------------------------------------------------------------------
(***************************************************************************)
(* KLend, as the program relies on it: within one transaction a reserve or *)
(* the obligation is fresh once it has been refreshed, and what needs it   *)
(* fresh fails before that.                                                *)
(***************************************************************************)
FreshBefore(sequence, i) ==
    {sequence[j].reserve : j \in {k \in 1..(i - 1) :
                                    sequence[k].op = "refresh_reserve"}}

ObligationReferrers ==
    IF HasReferrer
    THEN [i \in DOMAIN obligation.borrows |->
            ReferrerState(obligation.borrows[i])]
    ELSE <<>>

KLendAccepts(sequence) ==
    \A i \in DOMAIN sequence :
        CASE sequence[i].op = "refresh_reserve" -> TRUE
          [] sequence[i].op = "refresh_obligation" ->
                /\ sequence[i].positions = obligation.deposits \o obligation.borrows
                /\ sequence[i].referrers = ObligationReferrers
                /\ Range(sequence[i].positions) \subseteq FreshBefore(sequence, i)
          [] OTHER ->
                /\ \E j \in 1..(i - 1) : sequence[j].op = "refresh_obligation"
                /\ sequence[i].reserve \in FreshBefore(sequence, i)
                /\ sequence[i].op = "withdraw" =>
                        sequence[i].reserve \in Range(obligation.deposits)

\* What is invoked runs to its end.
Runs(tx) ==
    LET sequence == KaminoSequence(tx)
        infos    == AccountInfos(tx)
    IN  /\ Invocable(sequence, infos)
        /\ KLendAccepts(SubSeq(sequence, 1, Len(infos)))

Added(s, r) == IF r \in Range(s) THEN s ELSE Append(s, r)
Removed(s, r) == RemoveFirst(s, r)

\* The obligation once the last instruction of the transaction has run.
Applied(tx) ==
    IF tx.disc = "deposit"
    THEN [obligation EXCEPT !.deposits = Added(@, tx.reserve)]
    ELSE IF tx.all THEN [obligation EXCEPT !.deposits = Removed(@, tx.reserve)]
    ELSE obligation

-----------------------------------------------------------------------------
(***************************************************************************)
(* Steps.                                                                  *)
(***************************************************************************)
Writable(keys) ==
    [i \in DOMAIN keys |-> [key |-> keys[i], writable |-> TRUE]]

Delimiter == <<[key |-> KLEND, writable |-> FALSE]>>

FrameOf(deposits, borrows, referrers) ==
    Writable(deposits) \o Delimiter \o Writable(borrows) \o Delimiter
        \o Writable(referrers)

ObligationFrame ==
    FrameOf(obligation.deposits, obligation.borrows, ObligationReferrers)

\* A client reads the obligation and composes a transaction.
Compose(disc, reserve, all) ==
    /\ pending = {}
    /\ disc = "withdraw" => reserve \in Range(obligation.deposits)
    /\ pending' = {[disc |-> disc, layout |-> disc, reserve |-> reserve,
                    owner_signed |-> TRUE, all |-> all,
                    frame |-> ObligationFrame]}
    /\ UNCHANGED obligation

\* Any other transaction reaches the program.
Submit(disc, layout, reserve, owner_signed, frame) ==
    /\ pending = {}
    /\ pending' = {[disc |-> disc, layout |-> layout, reserve |-> reserve,
                    owner_signed |-> owner_signed, all |-> FALSE,
                    frame |-> frame]}
    /\ UNCHANGED obligation

(***************************************************************************)
(* cpi_adapter_kamino for the pending transaction.  An error of the arm,   *)
(* of the runtime or of KLend aborts the transaction and leaves the        *)
(* obligation as it was.                                                   *)
(***************************************************************************)
CpiAdapterKamino(tx) ==
    /\ tx \in pending
    /\ AdapterAccepts(tx)
    /\ Runs(tx)
    /\ Len(Applied(tx).deposits) <= MaxPositions
    /\ obligation' = Applied(tx)
    /\ pending' = pending \ {tx}

Abort(tx) ==
    /\ tx \in pending
    /\ ~(AdapterAccepts(tx) /\ Runs(tx))
    /\ pending' = pending \ {tx}
    /\ UNCHANGED obligation

\* The owner uses KLend directly, in any reserve of the market.
OwnerAtKLend(reserve) ==
    /\ obligation' \in
        {[obligation EXCEPT !.deposits = Added(@, reserve)],
         [obligation EXCEPT !.deposits = Removed(@, reserve)],
         [obligation EXCEPT !.borrows = Added(@, reserve)],
         [obligation EXCEPT !.borrows = Removed(@, reserve)]} \ {obligation}
    /\ Len(obligation'.deposits) <= MaxPositions
    /\ Len(obligation'.borrows) <= MaxPositions
    /\ UNCHANGED pending

Next ==
    \/ \E reserve \in Reserves :
        \/ \E disc \in {"deposit", "withdraw"}, all \in BOOLEAN :
            Compose(disc, reserve, all)
        \/ \E disc, layout \in {"deposit", "withdraw"}, frame \in Strays,
              owner_signed \in BOOLEAN :
            Submit(disc, layout, reserve, owner_signed, frame)
        \/ OwnerAtKLend(reserve)
    \/ \E tx \in pending : CpiAdapterKamino(tx) \/ Abort(tx)

Spec == Init /\ [][Next]_vars

-----------------------------------------------------------------------------
(***************************************************************************)
(* Properties.                                                             *)
(***************************************************************************)

(***************************************************************************)
(* The scan for delimiters and the checks on the three sections accept     *)
(* exactly the frames that list distinct pinned deposits, distinct pinned  *)
(* borrows, and no referrer state or one per borrow.                       *)
(***************************************************************************)
Lists(keys) ==
    {s \in UNION {[1..n -> keys] : n \in 0..Cardinality(keys)} : Distinct(s)}

WellFormedFrames ==
    UNION {{FrameOf(deposits, borrows, referrers) :
                referrers \in {s \in UNION {[1..n -> Range(ReferrerStates)
                                                \cup UnlistedReserves] :
                                            n \in {0, Len(borrows)}} :
                                Distinct(s)}} :
           deposits, borrows \in Lists(PinnedReserves)}

FrameFormat ==
    \A tx \in pending : FrameValid(tx.frame) <=> tx.frame \in WellFormedFrames

(***************************************************************************)
(* Whatever frame is accepted, the sequence refreshes every reserve of the *)
(* frame and the current reserve once each, the current one last, before   *)
(* it refreshes the obligation, and touches the obligation after that; and *)
(* the account list, made by another loop, pairs up with it: every         *)
(* instruction is invoked, each refresh with its own reserve's account.    *)
(***************************************************************************)
RefreshedOnceInOrder ==
    \A tx \in pending :
        AdapterAccepts(tx) =>
            LET sequence == KaminoSequence(tx)
                infos    == AccountInfos(tx)
                n        == Len(sequence)
                refreshed == [i \in 1..(n - 2) |-> sequence[i].reserve]
            IN  /\ Distinct(refreshed)
                /\ Range(refreshed) = Range(DepositReserves(tx.frame))
                                        \cup Range(BorrowReserves(tx.frame))
                                        \cup {tx.reserve}
                /\ refreshed[n - 2] = tx.reserve
                /\ sequence[n - 1].op = "refresh_obligation"
                /\ sequence[n].op = tx.disc
                /\ Len(infos) = n /\ Invocable(sequence, infos)

(***************************************************************************)
(* A client that composed its frame from the obligation as it still is,    *)
(* with every position in a pinned reserve, is neither refused by the arm  *)
(* nor failed by KLend: a first deposit, a deposit into a borrowed         *)
(* reserve, a withdrawal beside borrows with their referrer states.        *)
(***************************************************************************)
CurrentFrameAccepted ==
    \A tx \in pending :
        /\ tx.frame = ObligationFrame
        /\ tx.owner_signed
        /\ tx.layout = tx.disc
        /\ {tx.reserve} \cup Range(obligation.deposits)
                \cup Range(obligation.borrows) \subseteq PinnedReserves
        /\ tx.disc = "withdraw" => tx.reserve \in Range(obligation.deposits)
        => AdapterAccepts(tx) /\ Runs(tx)

(***************************************************************************)
(* A transaction whose frame went stale fails whole.  One that lands       *)
(* listed the positions of the obligation as they are at that moment, with *)
(* a referrer and a borrow also in the sections they are in, and all of    *)
(* them are in pinned reserves.                                            *)
(***************************************************************************)
LandsOn(tx) ==
    /\ DepositReserves(tx.frame) \o BorrowReserves(tx.frame)
            = obligation.deposits \o obligation.borrows
    /\ Range(obligation.deposits) \cup Range(obligation.borrows)
            \subseteq PinnedReserves
    /\ HasReferrer /\ obligation.borrows # <<>> => tx.frame = ObligationFrame

LandsOnCurrent == \A tx \in pending : CpiAdapterKamino(tx) => LandsOn(tx)

StaleNeverLands == [][LandsOnCurrent]_vars
=============================================================================

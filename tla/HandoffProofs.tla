---------------------------- MODULE HandoffProofs ---------------------------
(***************************************************************************)
(* Proofs about handoffs, for any sets of handoffs, owners, adapters and   *)
(* programs and any bounds.                                                *)
(***************************************************************************)
EXTENDS Handoff, RegistryV2Proofs

(***************************************************************************)
(* The initial state satisfies the inductive invariant.                    *)
(***************************************************************************)
LEMMA InitInv ==
    ASSUME Init
    PROVE  IInv
<1>1. RegistryInv
  BY RegistryInitInv DEF Init
<1>2. NoPosition \in HandoffPosition
  BY HandoffAssumption
  DEF NoPosition, HandoffPosition, UNINIT, ACTIVE, EXITED, OwnerKeys
<1>3. TypeOK
  BY <1>1, <1>2 DEF Init, TypeOK, RegistryInv, MctpConfig
<1>4. ASSUME NEW id \in DayTxIds
      PROVE  /\ position[id] = NoPosition
             /\ ~Opened(id) /\ ~Active(id) /\ ~Exited(id)
             /\ \A key \in OwnerKeys : payouts[id][key] = 0
             /\ Paid(id) = 0
  BY HandoffAssumption
  DEF Init, Opened, Active, Exited, Paid, NoPosition, UNINIT, ACTIVE, EXITED,
      OwnerKeys
<1>5. BooksBalance /\ DestinationLocked /\ ExitBindingKept
  BY <1>4
  DEF BooksBalance, DestinationLocked, ExitBindingKept, NoPosition, Init
<1>6. UntouchedUntilOpened /\ WithinMicros
  BY <1>4, HandoffAssumption
  DEF UntouchedUntilOpened, WithinMicros, NoPosition, Micros, Init
<1> QED
  BY <1>1, <1>3, <1>5, <1>6 DEF IInv, RegistryInv

-----------------------------------------------------------------------------
(***************************************************************************)
(* One lemma per kind of step.  Each looks at one handoff x at a time: the *)
(* step changes it, or leaves every state of it alone.                     *)
(***************************************************************************)

(***************************************************************************)
(* What the invariant says of one handoff, apart from the registry.        *)
(***************************************************************************)
HandoffInv(x) ==
    /\ custody_usdc[x] + position[x].principal_micros = delivered[x]
    /\ venue[x] + payouts[x][position[x].origin_owner]
            = position[x].principal_micros + drift[x]
    /\ position[x].state # UNINIT =>
            /\ claimed[x] > 0
            /\ claimed[x] <= position[x].principal_micros
    /\ \A key \in OwnerKeys :
            payouts[x][key] > 0 =>
                /\ position[x].state = EXITED
                /\ key = position[x].origin_owner
                /\ key \in Owners
    /\ position[x].state = EXITED =>
            /\ payouts[x][position[x].origin_owner] > 0
            /\ position[x].min_return_micros
                    <= payouts[x][position[x].origin_owner]
            /\ payouts[x][position[x].origin_owner]
                    <= position[x].principal_micros
    /\ position[x].state = ACTIVE =>
            position[x].remaining_principal_micros
                = position[x].principal_micros
    /\ position[x].state = UNINIT => position[x] = NoPosition /\ venue[x] = 0
    /\ delivered[x] \in Micros
    /\ position[x].min_return_micros \in Micros

\* The registry still binds the adapter of an active position to its program.
BindingInv(x) ==
    position[x].state = ACTIVE =>
        /\ Registered(position[x].adapter_id)
        /\ registry_v2[FindIndex(position[x].adapter_id)].protocol_program
                = position[x].adapter_program

(***************************************************************************)
(* The inductive invariant, handoff by handoff.                            *)
(***************************************************************************)
LEMMA IInvByHandoff ==
    IInv <=> /\ TypeOK
             /\ OneSlotPerAdapter
             /\ \A x \in DayTxIds : HandoffInv(x) /\ BindingInv(x)
<1>1. IInv => \A x \in DayTxIds : HandoffInv(x) /\ BindingInv(x)
  BY DEF IInv, BooksBalance, DestinationLocked, ExitBindingKept,
         UntouchedUntilOpened, WithinMicros, HandoffInv, BindingInv,
         Opened, Active, Exited, Paid
<1>2. ASSUME \A x \in DayTxIds : HandoffInv(x) /\ BindingInv(x)
      PROVE  /\ BooksBalance /\ DestinationLocked /\ ExitBindingKept
             /\ UntouchedUntilOpened /\ WithinMicros
  BY <1>2
  DEF BooksBalance, DestinationLocked, ExitBindingKept,
      UntouchedUntilOpened, WithinMicros, HandoffInv, BindingInv,
      Opened, Active, Exited, Paid
<1> QED
  BY <1>1, <1>2 DEF IInv

(***************************************************************************)
(* The same of the next state.                                             *)
(***************************************************************************)
LEMMA IInvNextByHandoff ==
    ASSUME TypeOK', OneSlotPerAdapter',
           \A x \in DayTxIds : HandoffInv(x)' /\ BindingInv(x)'
    PROVE  IInv'
BY DEF IInv, BooksBalance, DestinationLocked, ExitBindingKept,
       UntouchedUntilOpened, WithinMicros, HandoffInv, BindingInv,
       Opened, Active, Exited, Paid

(***************************************************************************)
(* An action on the ingress configuration touches no handoff.              *)
(***************************************************************************)
LEMMA ConfigStep ==
    ASSUME IInv, mctp_config' \in MctpConfig,
           UNCHANGED <<registryVars, position, ledgerVars, historyVars>>
    PROVE  IInv'
BY DEF IInv, TypeOK, RegistryTypeOK, OneSlotPerAdapter, BooksBalance,
       DestinationLocked, ExitBindingKept, UntouchedUntilOpened, WithinMicros,
       Opened, Active, Exited, Paid, Registered, FindIndex, SlotsOf,
       registryVars, ledgerVars, historyVars

(***************************************************************************)
(* Registry instructions keep the binding of every active position.        *)
(***************************************************************************)
LEMMA RegistryStepKeepsHandoffs ==
    ASSUME IInv, RegistryNext, UNCHANGED handoffVars
    PROVE  IInv'
<1>1. RegistryInv /\ RegistryInv' /\ BindingsKept
  BY RegistryStep DEF IInv, TypeOK, RegistryInv
<1>2. TypeOK'
  BY <1>1 DEF IInv, TypeOK, RegistryInv, handoffVars, ledgerVars, historyVars
<1>3. ASSUME NEW x \in DayTxIds
      PROVE  HandoffInv(x)' /\ BindingInv(x)'
  <2>1. HandoffInv(x) /\ BindingInv(x)
    BY IInvByHandoff
  <2>2. HandoffInv(x)'
    BY <2>1 DEF HandoffInv, handoffVars, ledgerVars, historyVars
  <2>3. position'[x] = position[x]
    BY DEF handoffVars
  <2>4. BindingInv(x)'
    BY <1>1, <2>1, <2>3, BindingsKeptByLookup DEF BindingInv
  <2> QED
    BY <2>2, <2>4
<1> QED
  BY <1>1, <1>2, <1>3, IInvNextByHandoff DEF RegistryInv

(***************************************************************************)
(* A step that leaves the registry alone keeps the binding of a handoff    *)
(* whose record it leaves alone.                                           *)
(***************************************************************************)
LEMMA BindingUnmoved ==
    ASSUME NEW x \in DayTxIds, BindingInv(x), UNCHANGED registryVars,
           \/ position'[x] = position[x]
           \/ position'[x].state # ACTIVE
    PROVE  BindingInv(x)'
BY DEF BindingInv, Registered, FindIndex, SlotsOf, registryVars

(***************************************************************************)
(* Entry: all the custody balance becomes principal behind the receipts.   *)
(***************************************************************************)
LEMMA ReceiveStep ==
    ASSUME IInv, NEW id \in DayTxIds, Receive(id)
    PROVE  IInv'
<1>1. PICK origin \in OriginRecords, adapter_id \in AdapterIds,
           program \in Programs, custody \in DayTxIds,
           claimed_principal \in Micros, min_return \in Micros,
           deposited \in Micros :
           ReceiveAndForwardDeposit(id, origin, adapter_id, program, custody,
                                    claimed_principal, min_return, deposited)
  BY DEF Receive
<1> DEFINE opened == [state                      |-> ACTIVE,
                      origin_owner               |-> origin.owner,
                      adapter_id                 |-> adapter_id,
                      adapter_program            |-> program,
                      principal_micros           |-> deposited,
                      remaining_principal_micros |-> deposited,
                      min_return_micros          |-> min_return]
<1>2. TypeOK /\ OneSlotPerAdapter
      /\ \A x \in DayTxIds : HandoffInv(x) /\ BindingInv(x)
  BY IInvByHandoff
<1>3. /\ Micros \subseteq Nat
      /\ origin.owner \in OwnerKeys
      /\ opened \in HandoffPosition
  BY HandoffAssumption DEF Micros, HandoffPosition
<1>4. /\ custody = id
      /\ position[id].state = UNINIT
      /\ custody_usdc[id] \in Nat
      /\ custody_usdc[id] >= claimed_principal
      /\ claimed_principal # 0
      /\ custody_usdc[id] - deposited = 0
      /\ deposited # 0
      /\ ValidateProtocolProgram(adapter_id, program)
      /\ UNCHANGED <<registryVars, mctp_config, payouts, delivered, drift>>
  BY <1>1, <1>2 DEF ReceiveAndForwardDeposit, CpiJupiterLend, CustodyPinned,
                    PositionFree, CoversClaim, TypeOK
<1>5. /\ custody_usdc' = [custody_usdc EXCEPT ![id] = 0]
      /\ venue' = [venue EXCEPT ![id] = @ + deposited]
      /\ position' = [position EXCEPT ![id] = opened]
      /\ claimed' = [claimed EXCEPT ![id] = claimed_principal]
  BY <1>1, <1>4 DEF ReceiveAndForwardDeposit
<1> HIDE DEF opened
<1>6. TypeOK' /\ OneSlotPerAdapter'
  <2>1. custody_usdc' \in [DayTxIds -> Nat] /\ venue' \in [DayTxIds -> Nat]
    BY <1>2, <1>3, <1>5 DEF TypeOK
  <2>2. /\ position' \in [DayTxIds -> HandoffPosition]
        /\ claimed' \in [DayTxIds -> Nat]
    BY <1>2, <1>3, <1>5 DEF TypeOK
  <2> QED
    BY <2>1, <2>2, <1>2, <1>4
    DEF TypeOK, RegistryTypeOK, OneSlotPerAdapter, registryVars
<1>7. ASSUME NEW x \in DayTxIds
      PROVE  HandoffInv(x)' /\ BindingInv(x)'
  <2>1. CASE x = id
    <3>1. position'[x] = opened
      BY <2>1, <1>2, <1>5 DEF TypeOK
    <3>2. /\ custody_usdc'[x] = 0
          /\ venue'[x] = deposited
          /\ claimed'[x] = claimed_principal
          /\ \A key \in OwnerKeys : payouts'[x][key] = 0
      <4>1. venue[x] = 0 /\ \A key \in OwnerKeys : ~(payouts[x][key] > 0)
        BY <2>1, <1>2, <1>4 DEF HandoffInv, UNINIT, EXITED
      <4> QED
        BY <4>1, <2>1, <1>2, <1>3, <1>4, <1>5 DEF TypeOK
    <3>3. drift[x] = 0 /\ delivered[x] = custody_usdc[x]
      <4>1. position[x] = NoPosition /\ venue[x] = 0
        BY <2>1, <1>2, <1>4 DEF HandoffInv
      <4>2. NullKey \in OwnerKeys
        BY DEF OwnerKeys
      <4>3. payouts[x][NullKey] = 0
        BY <3>2, <4>2, <1>4
      <4> QED
        BY <4>1, <4>3, <1>2 DEF HandoffInv, NoPosition, TypeOK
    <3>4. /\ opened.state = ACTIVE
          /\ opened.origin_owner = origin.owner
          /\ opened.principal_micros = deposited
          /\ opened.remaining_principal_micros = deposited
          /\ opened.min_return_micros = min_return
      BY DEF opened
    <3>5. /\ deposited = custody_usdc[x]
          /\ claimed_principal > 0
          /\ claimed_principal <= deposited
          /\ delivered'[x] = delivered[x]
          /\ delivered[x] \in Micros
          /\ drift'[x] = 0
      BY <2>1, <3>3, <1>2, <1>3, <1>4 DEF HandoffInv
    <3>6. HandoffInv(x)'
      BY <3>1, <3>2, <3>3, <3>4, <3>5, <1>3
      DEF HandoffInv, UNINIT, ACTIVE, EXITED
    <3>7. BindingInv(x)'
      BY <3>1, <1>4
      DEF BindingInv, opened, ValidateProtocolProgram, Registered, FindIndex,
          SlotsOf, registryVars
    <3> QED
      BY <3>6, <3>7
  <2>2. CASE x # id
    <3>1. /\ position'[x] = position[x]
          /\ custody_usdc'[x] = custody_usdc[x]
          /\ venue'[x] = venue[x]
          /\ claimed'[x] = claimed[x]
      BY <2>2, <1>2, <1>5 DEF TypeOK
    <3>2. HandoffInv(x)'
      BY <3>1, <1>2, <1>4 DEF HandoffInv
    <3> QED
      BY <3>1, <3>2, <1>2, <1>4, BindingUnmoved
  <2> QED
    BY <2>1, <2>2
<1> QED
  BY <1>6, <1>7, IInvNextByHandoff

(***************************************************************************)
(* Exit: what the custody account gained is what the owner is paid.        *)
(***************************************************************************)
LEMMA ExitStep ==
    ASSUME IInv, NEW id \in DayTxIds, Exit(id)
    PROVE  IInv'
<1>1. PICK custody \in DayTxIds, recipient \in Owners, program \in Programs,
           amount \in Micros, pulled \in Micros :
           /\ pulled <= amount
           /\ ExitHandoffToOrigin(id, custody, recipient, program, amount, pulled)
  BY DEF Exit
<1>2. TypeOK /\ OneSlotPerAdapter
      /\ \A x \in DayTxIds : HandoffInv(x) /\ BindingInv(x)
  BY IInvByHandoff
<1> DEFINE owner == position[id].origin_owner
           closed == [position[id] EXCEPT !.remaining_principal_micros = 0,
                                          !.state = EXITED]
<1>3. amount \in Nat /\ pulled \in Nat /\ custody_usdc[id] \in Nat
  BY <1>2, HandoffAssumption DEF Micros, TypeOK
<1>4. /\ custody = id
      /\ position[id].state = ACTIVE
      /\ recipient = owner
      /\ amount <= position[id].remaining_principal_micros
      /\ amount <= venue[id]
      /\ pulled > 0
      /\ pulled >= position[id].min_return_micros
      /\ UNCHANGED <<registryVars, mctp_config, delivered, claimed>>
  BY <1>1, <1>3
  DEF ExitHandoffToOrigin, MeasuredWithdrawDelta, Exitable, CustodyPinned,
      PaysOriginOwner, WithinRemaining, MeetsFloor
<1>5. /\ venue' = [venue EXCEPT ![id] = @ - amount]
      /\ custody_usdc' = [custody_usdc EXCEPT ![id] = custody_usdc[id]]
      /\ payouts' = [payouts EXCEPT ![id][owner] = @ + pulled]
      /\ position' = [position EXCEPT ![id] = closed]
      /\ drift' = [drift EXCEPT ![id] = @ - (amount - pulled)]
  <2>1. /\ (custody_usdc[id] + pulled) - custody_usdc[id] = pulled
        /\ (custody_usdc[id] + pulled) - pulled = custody_usdc[id]
    BY <1>3
  <2>2. /\ venue' = [venue EXCEPT ![id] = @ - amount]
        /\ drift' = [drift EXCEPT ![id] = @ - (amount - pulled)]
    BY <1>1, <1>4 DEF ExitHandoffToOrigin
  <2>3. /\ custody_usdc' = [custody_usdc EXCEPT ![id] = custody_usdc[id]]
        /\ payouts' = [payouts EXCEPT ![id][owner] = @ + pulled]
    BY <2>1, <1>1, <1>4 DEF ExitHandoffToOrigin, MeasuredWithdrawDelta
  <2>4. position' = [position EXCEPT ![id].remaining_principal_micros = 0,
                                     ![id].state = EXITED]
    BY <1>1 DEF ExitHandoffToOrigin
  <2>5. position' = [position EXCEPT ![id] = closed]
    BY <2>4, <1>2 DEF TypeOK, HandoffPosition
  <2> QED
    BY <2>2, <2>3, <2>5
<1>6. /\ position[id] \in HandoffPosition
      /\ owner \in OwnerKeys
      /\ owner \in Owners
      /\ closed \in HandoffPosition
  <2>1. position[id] \in HandoffPosition
    BY <1>2 DEF TypeOK
  <2> QED
    BY <2>1, <1>4 DEF HandoffPosition
<1> HIDE DEF closed
<1>7. TypeOK' /\ OneSlotPerAdapter'
  <2>1. custody_usdc' = custody_usdc
    BY <1>2, <1>5 DEF TypeOK
  <2>2. venue' \in [DayTxIds -> Nat] /\ drift' \in [DayTxIds -> Int]
    BY <1>2, <1>3, <1>4, <1>5 DEF TypeOK
  <2>3. payouts' \in [DayTxIds -> [OwnerKeys -> Nat]]
    <3>1. payouts[id] \in [OwnerKeys -> Nat]
      BY <1>2 DEF TypeOK
    <3>2. [payouts[id] EXCEPT ![owner] = @ + pulled] \in [OwnerKeys -> Nat]
      <4>1. payouts[id][owner] + pulled \in Nat
        BY <3>1, <1>3, <1>6
      <4> QED
        BY <4>1, <3>1
    <3> QED
      BY <3>2, <1>2, <1>5 DEF TypeOK
  <2>4. position' \in [DayTxIds -> HandoffPosition]
    BY <1>2, <1>5, <1>6 DEF TypeOK
  <2> QED
    BY <2>1, <2>2, <2>3, <2>4, <1>2, <1>4
    DEF TypeOK, RegistryTypeOK, OneSlotPerAdapter, registryVars
<1>8. ASSUME NEW x \in DayTxIds
      PROVE  HandoffInv(x)' /\ BindingInv(x)'
  <2>1. custody_usdc'[x] = custody_usdc[x]
    BY <1>2, <1>5 DEF TypeOK
  <2>2. CASE x = id
    <3>1. /\ position'[x] = closed
          /\ venue'[x] = venue[x] - amount
          /\ drift'[x] = drift[x] - (amount - pulled)
          /\ payouts'[x] = [payouts[x] EXCEPT ![owner] = @ + pulled]
      BY <2>2, <1>2, <1>5 DEF TypeOK
    <3>2. /\ closed.state = EXITED
          /\ closed.origin_owner = owner
          /\ closed.principal_micros = position[x].principal_micros
          /\ closed.min_return_micros = position[x].min_return_micros
      BY <2>2, <1>6 DEF closed, HandoffPosition
    <3>3. \A key \in OwnerKeys : payouts[x][key] = 0
      <4>1. \A key \in OwnerKeys : ~(payouts[x][key] > 0)
        BY <2>2, <1>2, <1>4 DEF HandoffInv, ACTIVE, EXITED
      <4> QED
        BY <4>1, <1>2 DEF TypeOK
    <3>4. /\ payouts'[x][owner] = pulled
          /\ \A key \in OwnerKeys : key # owner => payouts'[x][key] = 0
      BY <3>1, <3>3, <1>2, <1>3, <1>6 DEF TypeOK
    <3>5. /\ position[x].remaining_principal_micros = position[x].principal_micros
          /\ claimed[x] > 0
          /\ claimed[x] <= position[x].principal_micros
          /\ custody_usdc[x] + position[x].principal_micros = delivered[x]
          /\ venue[x] + payouts[x][owner] = position[x].principal_micros + drift[x]
          /\ delivered[x] \in Micros
          /\ position[x].min_return_micros \in Micros
      BY <2>2, <1>2, <1>4 DEF HandoffInv, UNINIT, ACTIVE
    <3>6. /\ position[x].principal_micros \in Nat
          /\ position[x].min_return_micros \in Nat
          /\ venue[x] \in Nat
          /\ drift[x] \in Int
      BY <2>2, <1>2, <1>6 DEF HandoffPosition, TypeOK
    <3>7. venue'[x] + payouts'[x][owner] = closed.principal_micros + drift'[x]
      BY <3>1, <3>2, <3>3, <3>4, <3>5, <3>6, <1>3, <1>6
    <3>8. pulled <= position[x].principal_micros
      BY <2>2, <3>5, <3>6, <1>1, <1>3, <1>4
    <3>9. HandoffInv(x)'
      BY <2>1, <2>2, <3>1, <3>2, <3>4, <3>5, <3>7, <3>8, <1>3, <1>4, <1>6
      DEF HandoffInv, UNINIT, ACTIVE, EXITED
    <3>10. BindingInv(x)'
      BY <3>1, <3>2, <1>2, <1>4, BindingUnmoved DEF ACTIVE, EXITED
    <3> QED
      BY <3>9, <3>10
  <2>3. CASE x # id
    <3>1. /\ position'[x] = position[x]
          /\ venue'[x] = venue[x]
          /\ drift'[x] = drift[x]
          /\ payouts'[x] = payouts[x]
      BY <2>3, <1>2, <1>5 DEF TypeOK
    <3>2. HandoffInv(x)'
      BY <2>1, <3>1, <1>2, <1>4 DEF HandoffInv
    <3> QED
      BY <3>1, <3>2, <1>2, <1>4, BindingUnmoved
  <2> QED
    BY <2>2, <2>3
<1> QED
  BY <1>7, <1>8, IInvNextByHandoff

(***************************************************************************)
(* A delivery reaches only its own custody account.                        *)
(***************************************************************************)
LEMMA DeliverStep ==
    ASSUME IInv, NEW id \in DayTxIds, NEW amount \in Micros \ {0},
           Deliver(id, amount)
    PROVE  IInv'
<1>1. TypeOK /\ OneSlotPerAdapter
      /\ \A x \in DayTxIds : HandoffInv(x) /\ BindingInv(x)
  BY IInvByHandoff
<1>2. amount \in Nat
  BY HandoffAssumption DEF Micros
<1>3. TypeOK' /\ OneSlotPerAdapter'
  BY <1>1, <1>2
  DEF Deliver, TypeOK, RegistryTypeOK, OneSlotPerAdapter, registryVars
<1>4. ASSUME NEW x \in DayTxIds
      PROVE  HandoffInv(x)' /\ BindingInv(x)'
  <2>1. position[x].principal_micros \in Nat /\ MaxMicros \in Nat
    BY <1>1, HandoffAssumption DEF TypeOK, HandoffPosition
  <2>2. /\ custody_usdc'[x] + position[x].principal_micros = delivered'[x]
        /\ delivered'[x] \in Micros
    BY <1>1, <1>2, <2>1 DEF Deliver, TypeOK, HandoffInv, Micros
  <2>3. UNCHANGED <<position, venue, payouts, drift, claimed>>
    BY DEF Deliver
  <2>4. HandoffInv(x)'
    BY <1>1, <2>2, <2>3 DEF HandoffInv
  <2>5. BindingInv(x)'
    BY <1>1, <2>3, BindingUnmoved DEF Deliver
  <2> QED
    BY <2>4, <2>5
<1> QED
  BY <1>3, <1>4, IInvNextByHandoff

(***************************************************************************)
(* The venue moves only what is behind the receipts of an open position.   *)
(***************************************************************************)
LEMMA RevalueStep ==
    ASSUME IInv, NEW id \in DayTxIds, NEW change \in {-1, 1},
           VenueRevalue(id, change)
    PROVE  IInv'
<1>1. TypeOK /\ OneSlotPerAdapter
      /\ \A x \in DayTxIds : HandoffInv(x) /\ BindingInv(x)
  BY IInvByHandoff
<1>2. TypeOK' /\ OneSlotPerAdapter'
  BY <1>1
  DEF VenueRevalue, TypeOK, RegistryTypeOK, OneSlotPerAdapter, registryVars
<1>3. ASSUME NEW x \in DayTxIds
      PROVE  HandoffInv(x)' /\ BindingInv(x)'
  <2>1. UNCHANGED <<registryVars, position, custody_usdc, payouts, delivered,
                    claimed>>
    BY DEF VenueRevalue
  <2>2. position[x].principal_micros \in Nat
        /\ payouts[x][position[x].origin_owner] \in Nat
    BY <1>1 DEF TypeOK, HandoffPosition
  <2>3. venue'[x] + payouts[x][position[x].origin_owner]
            = position[x].principal_micros + drift'[x]
    <3>1. /\ venue[x] \in Nat /\ drift[x] \in Int /\ change \in Int
          /\ venue[x] + payouts[x][position[x].origin_owner]
                = position[x].principal_micros + drift[x]
      BY <1>1 DEF TypeOK, HandoffInv
    <3>2. CASE x = id
      <4>1. venue'[x] = venue[x] + change /\ drift'[x] = drift[x] + change
        BY <1>1, <3>2 DEF VenueRevalue, TypeOK
      <4> QED
        BY <4>1, <3>1, <2>2
    <3>3. CASE x # id
      BY <1>1, <3>1, <3>3 DEF VenueRevalue, TypeOK
    <3> QED
      BY <3>2, <3>3
  <2>4. position[x].state = UNINIT => venue'[x] = 0
    BY <1>1 DEF VenueRevalue, TypeOK, HandoffInv
  <2>5. HandoffInv(x)'
    BY <1>1, <2>1, <2>3, <2>4 DEF HandoffInv
  <2>6. BindingInv(x)'
    BY <1>1, <2>1, BindingUnmoved
  <2> QED
    BY <2>5, <2>6
<1> QED
  BY <1>2, <1>3, IInvNextByHandoff

-----------------------------------------------------------------------------
(***************************************************************************)
(* Every step keeps the invariant.                                         *)
(***************************************************************************)
LEMMA NextInv ==
    ASSUME IInv, [Next]_vars
    PROVE  IInv'
<1>1. CASE AuthorityStep
  <2>1. CASE RegistryNext /\ UNCHANGED handoffVars
    BY <2>1, RegistryStepKeepsHandoffs
  <2>2. ASSUME NEW signer \in Signers, NEW flag \in BOOLEAN,
               \/ InitializeMctpConfig(signer, flag)
               \/ SetMctpIngressPaused(signer, flag)
        PROVE  IInv'
    <3>1. mctp_config' \in MctpConfig
      <4>1. mctp_config \in [exists : BOOLEAN, ingress_paused : BOOLEAN]
        BY DEF IInv, TypeOK, MctpConfig
      <4>2. CASE InitializeMctpConfig(signer, flag)
        BY <4>2 DEF InitializeMctpConfig, MctpConfig
      <4>3. CASE SetMctpIngressPaused(signer, flag)
        BY <4>1, <4>3 DEF SetMctpIngressPaused, MctpConfig
      <4> QED
        BY <2>2, <4>2, <4>3
    <3>2. UNCHANGED <<registryVars, position, ledgerVars, historyVars>>
      BY <2>2 DEF InitializeMctpConfig, SetMctpIngressPaused
    <3> QED
      BY <3>1, <3>2, ConfigStep
  <2> QED
    BY <1>1, <2>1, <2>2 DEF AuthorityStep
<1>2. CASE \E id \in DayTxIds : Receive(id)
  BY <1>2, ReceiveStep
<1>3. CASE \E id \in DayTxIds : Exit(id)
  BY <1>3, ExitStep
<1>4. CASE Environment
  BY <1>4, DeliverStep, RevalueStep DEF Environment
<1>5. CASE UNCHANGED vars
  <2>1. UNCHANGED <<registryVars, position, ledgerVars, historyVars>>
        /\ mctp_config' \in MctpConfig
    BY <1>5 DEF vars, handoffVars, IInv, TypeOK
  <2> QED
    BY <2>1, ConfigStep
<1> QED
  BY <1>1, <1>2, <1>3, <1>4, <1>5 DEF Next

(***************************************************************************)
(* The inductive invariant holds in every reachable state.                 *)
(***************************************************************************)
THEOREM InductiveInvariant == Spec => []IInv
BY InitInv, NextInv, PTL DEF Spec

(***************************************************************************)
(* Every value of the program's accounts has the type of its field: no     *)
(* balance ever goes below zero.                                           *)
(***************************************************************************)
THEOREM TypeCorrect == Spec => []TypeOK
<1>1. IInv => TypeOK
  BY DEF IInv
<1> QED
  BY <1>1, InductiveInvariant, PTL

(***************************************************************************)
(* Every micro delivered to a handoff is in its custody, behind its        *)
(* receipts or with its owner, for any number of handoffs and amounts.     *)
(***************************************************************************)
THEOREM BooksAlwaysBalance == Spec => []BooksBalance
<1>1. IInv => BooksBalance
  BY DEF IInv
<1> QED
  BY <1>1, InductiveInvariant, PTL

(***************************************************************************)
(* The exit pays nobody but the origin owner on record, within the floor   *)
(* and the principal on record.                                            *)
(***************************************************************************)
THEOREM DestinationAlwaysLocked == Spec => []DestinationLocked
<1>1. IInv => DestinationLocked
  BY DEF IInv
<1> QED
  BY <1>1, InductiveInvariant, PTL

(***************************************************************************)
(* The binding an active position needs to exit stays in the registry.     *)
(***************************************************************************)
THEOREM ExitBindingAlwaysKept == Spec => []ExitBindingKept
<1>1. IInv => ExitBindingKept
  BY DEF IInv
<1> QED
  BY <1>1, InductiveInvariant, PTL

-----------------------------------------------------------------------------
(***************************************************************************)
(* What one step does to the record of a handoff: opens it once, closes it *)
(* once, or leaves it alone.                                               *)
(***************************************************************************)
LEMMA PositionStep ==
    ASSUME IInv, [Next]_vars
    PROVE  PositionsKept
<1>1. position \in [DayTxIds -> HandoffPosition]
  BY DEF IInv, TypeOK
<1>2. CASE UNCHANGED position
  BY <1>1, <1>2
  DEF PositionsKept, Opened, Exited, HandoffPosition, UNINIT, ACTIVE, EXITED
<1>3. ASSUME NEW id \in DayTxIds, Receive(id)
      PROVE  PositionsKept
  <2>1. /\ position[id].state = UNINIT
        /\ \A x \in DayTxIds \ {id} : position'[x] = position[x]
    BY <1>1, <1>3 DEF Receive, ReceiveAndForwardDeposit, PositionFree
  <2> QED
    BY <1>1, <2>1
    DEF PositionsKept, Opened, Exited, HandoffPosition, UNINIT, ACTIVE, EXITED
<1>4. ASSUME NEW id \in DayTxIds, Exit(id)
      PROVE  PositionsKept
  <2>1. /\ position[id].state = ACTIVE
        /\ position' = [position EXCEPT ![id].remaining_principal_micros = 0,
                                        ![id].state = EXITED]
    BY <1>4 DEF Exit, ExitHandoffToOrigin, Exitable
  <2>2. /\ \A x \in DayTxIds \ {id} : position'[x] = position[x]
        /\ position'[id].state = EXITED
        /\ Binding(position'[id]) = Binding(position[id])
    BY <1>1, <2>1 DEF Binding, HandoffPosition
  <2> QED
    BY <1>1, <2>1, <2>2
    DEF PositionsKept, Opened, Exited, HandoffPosition, UNINIT, ACTIVE, EXITED
<1>5. CASE AuthorityStep
  BY <1>5, <1>2
  DEF AuthorityStep, InitializeMctpConfig, SetMctpIngressPaused, handoffVars
<1>6. CASE Environment
  BY <1>6, <1>2 DEF Environment, Deliver, VenueRevalue
<1> QED
  BY <1>2, <1>3, <1>4, <1>5, <1>6 DEF Next, vars, handoffVars

(***************************************************************************)
(* A day_tx_id is used once and its binding is immutable, whatever other   *)
(* transactions and deliveries interleave.                                 *)
(***************************************************************************)
THEOREM SingleUseAlways == Spec => SingleUse
<1>1. IInv /\ [Next]_vars => [PositionsKept]_vars
  BY PositionStep
<1> QED
  BY <1>1, InductiveInvariant, PTL DEF Spec, SingleUse

(***************************************************************************)
(* The registry that handoffs use is the registry on its own: no handoff   *)
(* instruction writes it, so no registered adapter is ever re-pointed.     *)
(***************************************************************************)
THEOREM HandoffsNeverRepoint == Spec => NeverRepointed
<1>1. Init => RegistryInit
  BY DEF Init
<1>2. [Next]_vars => [RegistryNext]_registryVars
  <2> SUFFICES ASSUME [Next]_vars
               PROVE  RegistryNext \/ UNCHANGED registryVars
    OBVIOUS
  <2>1. AuthorityStep => RegistryNext \/ UNCHANGED registryVars
    BY DEF AuthorityStep, InitializeMctpConfig, SetMctpIngressPaused
  <2>2. ASSUME NEW id \in DayTxIds, Receive(id)
        PROVE  UNCHANGED registryVars
    BY <2>2 DEF Receive, ReceiveAndForwardDeposit
  <2>3. ASSUME NEW id \in DayTxIds, Exit(id)
        PROVE  UNCHANGED registryVars
    BY <2>3 DEF Exit, ExitHandoffToOrigin
  <2>4. Environment => UNCHANGED registryVars
    BY DEF Environment, Deliver, VenueRevalue
  <2> QED
    BY <2>1, <2>2, <2>3, <2>4 DEF Next, vars
<1> QED
  BY <1>1, <1>2, RegistryNeverRepointed, PTL DEF Spec, RegistrySpec

-----------------------------------------------------------------------------
(***************************************************************************)
(* Refinement: an entry opens the promise of its handoff, an exit closes   *)
(* it, and every other step leaves it alone.                               *)
(***************************************************************************)
LEMMA PromiseInit ==
    ASSUME Init
    PROVE  Promise!Init
<1>1. \A id \in DayTxIds : position[id] = NoPosition
  BY DEF Init
<1>2. NullKey \in OwnerKeys
  BY DEF OwnerKeys
<1>3. \A id \in DayTxIds :
        /\ Phase(id) = "new"
        /\ position[id].origin_owner = NullKey
        /\ position[id].principal_micros = 0
        /\ position[id].min_return_micros = 0
  BY <1>1 DEF Phase, NoPosition, UNINIT
<1> QED
  BY <1>2, <1>3 DEF Init, Promise!Init

LEMMA PromiseOpen ==
    ASSUME IInv, NEW id \in DayTxIds, Receive(id)
    PROVE  Promise!Open(id)
<1>1. PICK origin \in OriginRecords, adapter_id \in AdapterIds,
           program \in Programs, custody \in DayTxIds,
           claimed_principal \in Micros, min_return \in Micros,
           deposited \in Micros :
           ReceiveAndForwardDeposit(id, origin, adapter_id, program, custody,
                                    claimed_principal, min_return, deposited)
  BY DEF Receive
<1>2. position \in [DayTxIds -> HandoffPosition]
  BY DEF IInv, TypeOK
<1>3. /\ position[id].state = UNINIT
      /\ deposited \in Micros \ {0}
      /\ origin.owner \in OwnerKeys
      /\ payouts' = payouts
  BY <1>1, HandoffAssumption DEF ReceiveAndForwardDeposit, PositionFree
<1>4. /\ \A x \in DayTxIds \ {id} : position'[x] = position[x]
      /\ position'[id].state = ACTIVE
      /\ position'[id].origin_owner = origin.owner
      /\ position'[id].principal_micros = deposited
      /\ position'[id].min_return_micros = min_return
  BY <1>1, <1>2 DEF ReceiveAndForwardDeposit
<1>5. /\ Phase(id) = "new" /\ Phase(id)' = "open"
      /\ \A x \in DayTxIds \ {id} : Phase(x)' = Phase(x)
  BY <1>3, <1>4 DEF Phase, UNINIT, ACTIVE, EXITED
<1> QED
  BY <1>3, <1>4, <1>5 DEF Promise!Open

LEMMA PromiseClose ==
    ASSUME IInv, NEW id \in DayTxIds, Exit(id)
    PROVE  Promise!Close(id)
<1>1. PICK custody \in DayTxIds, recipient \in Owners, program \in Programs,
           amount \in Micros, pulled \in Micros :
           /\ pulled <= amount
           /\ ExitHandoffToOrigin(id, custody, recipient, program, amount, pulled)
  BY DEF Exit
<1>2. /\ position \in [DayTxIds -> HandoffPosition]
      /\ payouts \in [DayTxIds -> [OwnerKeys -> Nat]]
      /\ custody_usdc[id] \in Nat
  BY DEF IInv, TypeOK
<1>3. amount \in Nat /\ pulled \in Nat
  BY HandoffAssumption DEF Micros
<1> DEFINE owner == position[id].origin_owner
<1>4. /\ custody = id
      /\ recipient = owner
      /\ position[id].state = ACTIVE
      /\ amount <= position[id].remaining_principal_micros
      /\ pulled > 0
      /\ pulled >= position[id].min_return_micros
      /\ payouts' = [payouts EXCEPT ![id][owner] = @ + pulled]
      /\ position' = [position EXCEPT ![id].remaining_principal_micros = 0,
                                      ![id].state = EXITED]
  <2>1. (custody_usdc[id] + pulled) - custody_usdc[id] = pulled
    BY <1>2, <1>3
  <2> QED
    BY <1>1, <2>1
    DEF ExitHandoffToOrigin, MeasuredWithdrawDelta, Exitable, CustodyPinned,
        PaysOriginOwner, WithinRemaining, MeetsFloor
<1>5. owner \in OwnerKeys /\ owner \in Owners
  BY <1>2, <1>4 DEF HandoffPosition
<1>6. payouts[id][owner] = 0
  <2>1. ~(payouts[id][owner] > 0)
    BY <1>4, <1>5 DEF IInv, DestinationLocked, Exited, ACTIVE, EXITED
  <2> QED
    BY <2>1, <1>2, <1>5
<1>7. payouts' = [payouts EXCEPT ![id][owner] = pulled]
  <2>1. payouts[id][owner] + pulled = pulled
    BY <1>3, <1>6
  <2> QED
    BY <2>1, <1>4
<1>8. pulled \in Micros \ {0} /\ pulled <= position[id].principal_micros
  <2>1. /\ position[id].remaining_principal_micros = position[id].principal_micros
        /\ position[id].principal_micros \in Nat
    BY <1>2, <1>4 DEF IInv, ExitBindingKept, Active, HandoffPosition
  <2> QED
    BY <2>1, <1>1, <1>3, <1>4
<1>9. \A x \in DayTxIds :
        /\ position'[x].origin_owner = position[x].origin_owner
        /\ position'[x].principal_micros = position[x].principal_micros
        /\ position'[x].min_return_micros = position[x].min_return_micros
        /\ x # id => position'[x] = position[x]
        /\ x = id => position'[x].state = EXITED
  BY <1>2, <1>4 DEF HandoffPosition
<1>10. /\ Phase(id) = "open" /\ Phase(id)' = "closed"
       /\ \A x \in DayTxIds \ {id} : Phase(x)' = Phase(x)
  <2>1. position[id].state = 1 /\ position'[id].state = 2
    BY <1>4, <1>9 DEF ACTIVE, EXITED
  <2>2. \A x \in DayTxIds \ {id} : position'[x] = position[x]
    BY <1>9
  <2> QED
    BY <2>1, <2>2 DEF Phase, UNINIT, ACTIVE
<1> QED
  BY <1>4, <1>7, <1>8, <1>9, <1>10 DEF Promise!Close

(***************************************************************************)
(* Handoffs keep the promise made to their owners.                         *)
(***************************************************************************)
THEOREM PromiseAlwaysKept == Spec => KeepsPromise
<1>1. Init => Promise!Init
  BY PromiseInit
<1>2. IInv /\ [Next]_vars => [Promise!Next]_(Promise!promiseVars)
  <2> SUFFICES ASSUME IInv, [Next]_vars
               PROVE  [Promise!Next]_(Promise!promiseVars)
    OBVIOUS
  <2>1. CASE UNCHANGED <<position, payouts>>
    BY <2>1 DEF Promise!promiseVars, Phase
  <2>2. CASE AuthorityStep
    BY <2>1, <2>2
    DEF AuthorityStep, InitializeMctpConfig, SetMctpIngressPaused, handoffVars,
        ledgerVars
  <2>3. CASE Environment
    BY <2>1, <2>3 DEF Environment, Deliver, VenueRevalue
  <2>4. CASE \E id \in DayTxIds : Receive(id) \/ Exit(id)
    BY <2>4, PromiseOpen, PromiseClose DEF Promise!Next
  <2> QED
    BY <2>1, <2>2, <2>3, <2>4 DEF Next, vars, handoffVars, ledgerVars
<1> QED
  BY <1>1, <1>2, InductiveInvariant, PTL DEF Spec, KeepsPromise, Promise!Spec

-----------------------------------------------------------------------------
(***************************************************************************)
(* Positions no exit can close: the recorded floor is above the principal, *)
(* which is all an exit may ask for, or the owner on record owns no token  *)
(* account.  Entry accepts both.                                           *)
(***************************************************************************)
Stuck(id) ==
    /\ Active(id)
    /\ \/ position[id].min_return_micros > position[id].principal_micros
       \/ position[id].origin_owner \notin Owners

StuckStays == \A id \in DayTxIds : Stuck(id) => position'[id] = position[id]

\* An exit pays the floor, out of the principal, to an owner.
LEMMA StuckNeverExits ==
    ASSUME IInv, NEW id \in DayTxIds, Exit(id)
    PROVE  ~Stuck(id)
<1>1. PICK custody \in DayTxIds, recipient \in Owners, program \in Programs,
           amount \in Micros, pulled \in Micros :
           /\ pulled <= amount
           /\ ExitHandoffToOrigin(id, custody, recipient, program, amount, pulled)
  BY DEF Exit
<1>2. /\ position \in [DayTxIds -> HandoffPosition] /\ custody_usdc[id] \in Nat
      /\ amount \in Nat /\ pulled \in Nat
  BY HandoffAssumption DEF IInv, TypeOK, Micros
<1>3. /\ custody = id /\ Active(id) /\ position[id].origin_owner \in Owners
      /\ amount <= position[id].remaining_principal_micros
      /\ (custody_usdc[id] + pulled) - custody_usdc[id]
            >= position[id].min_return_micros
  BY <1>1
  DEF ExitHandoffToOrigin, MeasuredWithdrawDelta, Exitable, CustodyPinned, Active,
      PaysOriginOwner, WithinRemaining, MeetsFloor
<1>4. /\ position[id].remaining_principal_micros = position[id].principal_micros
      /\ position[id].principal_micros \in Nat
      /\ position[id].min_return_micros \in Nat
  BY <1>2, <1>3 DEF IInv, ExitBindingKept, HandoffPosition
<1>5. ~(position[id].min_return_micros > position[id].principal_micros)
  BY <1>1, <1>2, <1>3, <1>4
<1> QED
  BY <1>3, <1>5 DEF Stuck

LEMMA StuckStep ==
    ASSUME IInv, [Next]_vars
    PROVE  StuckStays
<1> SUFFICES ASSUME NEW id \in DayTxIds, Stuck(id)
             PROVE  position'[id] = position[id]
  BY DEF StuckStays
<1>1. position \in [DayTxIds -> HandoffPosition]
  BY DEF IInv, TypeOK
<1>2. ASSUME NEW x \in DayTxIds, Receive(x) PROVE position'[id] = position[id]
  <2>1. x # id
    BY <1>2 DEF Receive, ReceiveAndForwardDeposit, PositionFree, Stuck, Active,
                UNINIT, ACTIVE
  <2> QED
    BY <1>1, <1>2, <2>1 DEF Receive, ReceiveAndForwardDeposit
<1>3. ASSUME NEW x \in DayTxIds, Exit(x) PROVE position'[id] = position[id]
  <2>1. x # id
    BY <1>3, StuckNeverExits
  <2> QED
    BY <1>1, <1>3, <2>1 DEF Exit, ExitHandoffToOrigin
<1>4. AuthorityStep => position' = position
  BY DEF AuthorityStep, InitializeMctpConfig, SetMctpIngressPaused, handoffVars
<1>5. Environment => position' = position
  BY DEF Environment, Deliver, VenueRevalue
<1> QED
  BY <1>2, <1>3, <1>4, <1>5 DEF Next, vars, handoffVars

(***************************************************************************)
(* Such a position is locked for good: no sequence of deliveries, exits,   *)
(* registry changes and pauses alters it (ExitHandoffToOrigin against what *)
(* ReceiveAndForwardDeposit lets through).                                 *)
(***************************************************************************)
THEOREM StuckForGood == Spec => [][StuckStays]_vars
<1>1. IInv /\ [Next]_vars => StuckStays
  BY StuckStep
<1> QED
  BY <1>1, InductiveInvariant, PTL DEF Spec

-----------------------------------------------------------------------------
(***************************************************************************)
(* Deliveries that come late.  A receive takes what is in custody when it  *)
(* is made, and there is no second one; an exit pays what it added itself. *)
(***************************************************************************)
LateStays ==
    \A id \in DayTxIds : Opened(id) => custody_usdc'[id] >= custody_usdc[id]

LEMMA ExitLeavesCustody ==
    ASSUME IInv, NEW x \in DayTxIds, Exit(x), NEW id \in DayTxIds
    PROVE  custody_usdc'[id] = custody_usdc[id]
<1>1. PICK custody \in DayTxIds, recipient \in Owners, program \in Programs,
           amount \in Micros, pulled \in Micros :
           ExitHandoffToOrigin(x, custody, recipient, program, amount, pulled)
  BY DEF Exit
<1>2. custody_usdc \in [DayTxIds -> Nat] /\ pulled \in Nat
  BY HandoffAssumption DEF IInv, TypeOK, Micros
<1>3. custody_usdc' = [custody_usdc EXCEPT ![custody] = custody_usdc[custody]]
  BY <1>1 DEF ExitHandoffToOrigin
<1> QED
  BY <1>2, <1>3

LEMMA LateStep ==
    ASSUME IInv, [Next]_vars
    PROVE  LateStays
<1> SUFFICES ASSUME NEW id \in DayTxIds, Opened(id)
             PROVE  custody_usdc'[id] >= custody_usdc[id]
  BY DEF LateStays
<1>1. custody_usdc \in [DayTxIds -> Nat] /\ custody_usdc[id] \in Nat
  BY DEF IInv, TypeOK
<1>2. ASSUME NEW x \in DayTxIds, Receive(x)
      PROVE  custody_usdc'[id] = custody_usdc[id]
  <2>1. x # id
    BY <1>2 DEF Receive, ReceiveAndForwardDeposit, PositionFree, Opened
  <2> QED
    BY <1>1, <1>2, <2>1 DEF Receive, ReceiveAndForwardDeposit, CustodyPinned
<1>3. ASSUME NEW x \in DayTxIds, Exit(x)
      PROVE  custody_usdc'[id] = custody_usdc[id]
  BY <1>3, ExitLeavesCustody
<1>4. ASSUME NEW x \in DayTxIds, NEW amount \in Micros, Deliver(x, amount)
      PROVE  custody_usdc'[id] >= custody_usdc[id]
  <2>1. amount \in Nat
    BY HandoffAssumption DEF Micros
  <2>2. custody_usdc'[id] = IF id = x THEN custody_usdc[id] + amount
                            ELSE custody_usdc[id]
    BY <1>1, <1>4 DEF Deliver
  <2> QED
    BY <1>1, <2>1, <2>2
<1>5. ASSUME NEW x \in DayTxIds, NEW change, VenueRevalue(x, change)
      PROVE  custody_usdc' = custody_usdc
  BY <1>5 DEF VenueRevalue
<1>6. AuthorityStep => custody_usdc' = custody_usdc
  BY DEF AuthorityStep, InitializeMctpConfig, SetMctpIngressPaused, handoffVars,
         ledgerVars
<1>7. UNCHANGED vars => custody_usdc' = custody_usdc
  BY DEF vars, handoffVars, ledgerVars
<1> QED
  BY <1>1, <1>2, <1>3, <1>4, <1>5, <1>6, <1>7 DEF Next, Environment

(***************************************************************************)
(* What is delivered once a position is open, or after its exit, stays in  *)
(* custody: no receive, exit or instruction of the authority, for this     *)
(* handoff or another, ever takes it out (ReceiveAndForwardDeposit and     *)
(* ExitHandoffToOrigin).                                                   *)
(***************************************************************************)
THEOREM LateDeliveryStays == Spec => [][LateStays]_vars
<1>1. IInv /\ [Next]_vars => LateStays
  BY LateStep
<1> QED
  BY <1>1, InductiveInvariant, PTL DEF Spec
=============================================================================

----------------------------- MODULE RegistryV2 -----------------------------
(***************************************************************************)
(* The DAY-823 adapter registry of the Solana day_router program: the      *)
(* account that binds an adapter id to the one program it may invoke, and  *)
(* that every CPI of the program consults first.                           *)
(*                                                                         *)
(* The account holds a fixed array of MAX_ADAPTERS slots.  Slots are       *)
(* filled from the left and never freed, so the used slots are a sequence. *)
(* Its length is the account's count field.                                *)
(***************************************************************************)
EXTENDS Naturals, Sequences

CONSTANTS
    AdapterIds,         \* padded adapter ids
    Programs,           \* program ids an adapter may be bound to
    ExecutablePrograms, \* those that are deployed and executable
    DefaultProgram,     \* the all-zero key, never a valid binding
    Signers,            \* keys that sign transactions
    PROTOCOL_AUTHORITY, \* the treasury key
    MAX_ADAPTERS        \* slots of the account (16 in the program)

ASSUME RegistryAssumption ==
    /\ ExecutablePrograms \subseteq Programs
    /\ DefaultProgram \notin Programs
    /\ PROTOCOL_AUTHORITY \in Signers
    /\ MAX_ADAPTERS \in Nat \ {0}

VARIABLES
    registry_v2_exists, \* the PDA is allocated and owned by the program
    registry_v2         \* the used slots, in slot order

registryVars == <<registry_v2_exists, registry_v2>>

AdapterMetaV2 ==
    [adapter_id : AdapterIds, protocol_program : Programs, active : BOOLEAN]

RegistryTypeOK ==
    /\ registry_v2_exists \in BOOLEAN
    /\ registry_v2 \in Seq(AdapterMetaV2)

RegistryInit ==
    /\ registry_v2_exists = FALSE
    /\ registry_v2 = <<>>

(***************************************************************************)
(* find_index: the first used slot that holds the id, if any.              *)
(***************************************************************************)
SlotsOf(adapter_id) ==
    {slot \in 1..Len(registry_v2) : registry_v2[slot].adapter_id = adapter_id}

Registered(adapter_id) == SlotsOf(adapter_id) # {}

FindIndex(adapter_id) ==
    CHOOSE slot \in SlotsOf(adapter_id) :
        \A other \in SlotsOf(adapter_id) : slot <= other

(***************************************************************************)
(* validate_protocol_program: an id is allowed to invoke exactly the       *)
(* program it was registered with, while it is active.                     *)
(***************************************************************************)
ValidateProtocolProgram(adapter_id, program) ==
    /\ Registered(adapter_id)
    /\ registry_v2[FindIndex(adapter_id)].active
    /\ registry_v2[FindIndex(adapter_id)].protocol_program = program
    /\ program \in ExecutablePrograms

(***************************************************************************)
(* Slips the properties below tell apart from the code: the default key    *)
(* accepted, one slot too many, an existing binding overwritten, a slot    *)
(* dropped instead of flagged inactive.                                    *)
(***************************************************************************)

BindsAnyProgram(program) == TRUE

RegistryOverrun == Len(registry_v2) <= MAX_ADAPTERS

RegisterOrRepoint(signer, adapter_id, protocol_program) ==
    /\ protocol_program # DefaultProgram
    /\ registry_v2_exists
    /\ signer = PROTOCOL_AUTHORITY
    /\ LET slot == [adapter_id       |-> adapter_id,
                    protocol_program |-> protocol_program,
                    active           |-> TRUE]
       IN  registry_v2' =
            IF Registered(adapter_id)
            THEN [registry_v2 EXCEPT ![FindIndex(adapter_id)] = slot]
            ELSE Append(registry_v2, slot)
    /\ UNCHANGED registry_v2_exists

DropWhenInactive(signer, adapter_id, active) ==
    /\ registry_v2_exists
    /\ signer = PROTOCOL_AUTHORITY
    /\ Registered(adapter_id)
    /\ ~active
    /\ registry_v2' = SelectSeq(registry_v2,
                                LAMBDA slot : slot.adapter_id # adapter_id)
    /\ UNCHANGED registry_v2_exists

-----------------------------------------------------------------------------

\* An adapter must name a target program; any key but the default will do.
BindableProgram(program) == program # DefaultProgram

RegistryHasRoom == Len(registry_v2) < MAX_ADAPTERS

-----------------------------------------------------------------------------

InitRegistryV2(signer) ==
    /\ signer = PROTOCOL_AUTHORITY
    /\ ~registry_v2_exists
    /\ registry_v2_exists' = TRUE
    /\ registry_v2' = <<>>

RegisterAdapterV2(signer, adapter_id, protocol_program) ==
    /\ BindableProgram(protocol_program)
    /\ registry_v2_exists
    /\ signer = PROTOCOL_AUTHORITY
    /\ ~Registered(adapter_id)
    /\ RegistryHasRoom
    /\ registry_v2' = Append(registry_v2,
                             [adapter_id       |-> adapter_id,
                              protocol_program |-> protocol_program,
                              active           |-> TRUE])
    /\ UNCHANGED registry_v2_exists

SetActiveV2(signer, adapter_id, active) ==
    /\ registry_v2_exists
    /\ signer = PROTOCOL_AUTHORITY
    /\ Registered(adapter_id)
    /\ registry_v2' = [registry_v2 EXCEPT ![FindIndex(adapter_id)].active = active]
    /\ UNCHANGED registry_v2_exists

RegistryNext ==
    \E signer \in Signers :
        \/ InitRegistryV2(signer)
        \/ \E adapter_id \in AdapterIds :
            \/ \E program \in Programs \cup {DefaultProgram} :
                RegisterAdapterV2(signer, adapter_id, program)
            \/ \E active \in BOOLEAN : SetActiveV2(signer, adapter_id, active)

RegistrySpec == RegistryInit /\ [][RegistryNext]_registryVars

-----------------------------------------------------------------------------

(***************************************************************************)
(* An adapter id names one slot: find_index is unambiguous, the array is   *)
(* not overrun, and nothing is registered before the account exists.  It   *)
(* is the AlreadyRegistered and RegistryFull checks of                     *)
(* process_register_adapter_v2 that keep it so.                            *)
(***************************************************************************)
OneSlotPerAdapter ==
    /\ \A i, j \in 1..Len(registry_v2) :
        registry_v2[i].adapter_id = registry_v2[j].adapter_id => i = j
    /\ Len(registry_v2) <= MAX_ADAPTERS
    /\ ~registry_v2_exists => registry_v2 = <<>>

(***************************************************************************)
(* No instruction re-points a registered adapter or drops its slot: the    *)
(* binding a position was opened under is the binding its exit will find.  *)
(* This is what makes the exit's adapter_program pin satisfiable for ever. *)
(***************************************************************************)
BindingsKept ==
    \A i \in 1..Len(registry_v2) :
        /\ i <= Len(registry_v2')
        /\ registry_v2'[i].adapter_id = registry_v2[i].adapter_id
        /\ registry_v2'[i].protocol_program = registry_v2[i].protocol_program

NeverRepointed == [][BindingsKept]_registryVars
=============================================================================

-------------------------- MODULE RegistryV2Proofs --------------------------
(***************************************************************************)
(* Proofs about the adapter registry, for any number of adapters, programs *)
(* and slots.                                                              *)
(***************************************************************************)
EXTENDS RegistryV2, SequenceTheorems, TLAPS

RegistryInv == RegistryTypeOK /\ OneSlotPerAdapter

(***************************************************************************)
(* While no two slots hold the same id, find_index returns the slot that   *)
(* holds it.                                                               *)
(***************************************************************************)
LEMMA FindIndexIsTheSlot ==
    ASSUME RegistryInv, NEW adapter_id, NEW slot \in SlotsOf(adapter_id)
    PROVE  FindIndex(adapter_id) = slot
<1>1. slot \in 1..Len(registry_v2)
  BY DEF SlotsOf
<1>2. \A other \in SlotsOf(adapter_id) : other = slot
  BY DEF RegistryInv, OneSlotPerAdapter, SlotsOf
<1>3. Len(registry_v2) \in Nat
  BY LenProperties DEF RegistryInv, RegistryTypeOK
<1>4. \A other \in SlotsOf(adapter_id) : slot <= other
  BY <1>1, <1>2, <1>3
<1> QED
  BY <1>2, <1>4 DEF FindIndex

(***************************************************************************)
(* find_index of a registered id is a slot that holds it.                  *)
(***************************************************************************)
LEMMA FindIndexHoldsId ==
    ASSUME RegistryInv, NEW adapter_id, Registered(adapter_id)
    PROVE  /\ FindIndex(adapter_id) \in 1..Len(registry_v2)
           /\ registry_v2[FindIndex(adapter_id)].adapter_id = adapter_id
<1>1. PICK slot \in SlotsOf(adapter_id) : TRUE
  BY DEF Registered
<1>2. FindIndex(adapter_id) = slot
  BY <1>1, FindIndexIsTheSlot
<1> QED
  BY <1>1, <1>2 DEF SlotsOf

(***************************************************************************)
(* The registry starts empty.                                              *)
(***************************************************************************)
LEMMA RegistryInitInv ==
    ASSUME RegistryInit
    PROVE  RegistryInv
<1>1. Len(<<>>) = 0 /\ <<>> \in Seq(AdapterMetaV2)
  BY EmptySeq
<1>2. RegistryTypeOK
  BY <1>1 DEF RegistryInit, RegistryTypeOK
<1>3. 0 <= MAX_ADAPTERS
  BY RegistryAssumption
<1>4. OneSlotPerAdapter
  BY <1>1, <1>3 DEF RegistryInit, OneSlotPerAdapter
<1> QED
  BY <1>2, <1>4 DEF RegistryInv

(***************************************************************************)
(* Every registry instruction keeps ids unique and slots in bounds, and    *)
(* leaves the bindings already made as they are.                           *)
(***************************************************************************)
LEMMA RegistryStep ==
    ASSUME RegistryInv, RegistryNext
    PROVE  RegistryInv' /\ BindingsKept
<1> USE DEF RegistryInv
<1>0. /\ Len(registry_v2) \in Nat
      /\ registry_v2 \in [1..Len(registry_v2) -> AdapterMetaV2]
  BY LenProperties DEF RegistryTypeOK
<1>1. ASSUME NEW signer \in Signers, InitRegistryV2(signer)
      PROVE  RegistryInv' /\ BindingsKept
  <2>1. registry_v2 = <<>> /\ registry_v2' = <<>> /\ registry_v2_exists' = TRUE
    BY <1>1 DEF InitRegistryV2, OneSlotPerAdapter
  <2>2. Len(<<>>) = 0 /\ <<>> \in Seq(AdapterMetaV2)
    BY EmptySeq
  <2> QED
    BY <2>1, <2>2, RegistryAssumption
    DEF RegistryTypeOK, OneSlotPerAdapter, BindingsKept
<1>2. ASSUME NEW signer \in Signers, NEW adapter_id \in AdapterIds,
             NEW program \in Programs \cup {DefaultProgram},
             RegisterAdapterV2(signer, adapter_id, program)
      PROVE  RegistryInv' /\ BindingsKept
  <2> DEFINE meta == [adapter_id       |-> adapter_id,
                      protocol_program |-> program,
                      active           |-> TRUE]
  <2>1. meta \in AdapterMetaV2
    BY <1>2 DEF RegisterAdapterV2, BindableProgram, AdapterMetaV2
  <2>2. registry_v2' = Append(registry_v2, meta)
    BY <1>2 DEF RegisterAdapterV2
  <2> HIDE DEF meta
  <2>3. /\ registry_v2' \in Seq(AdapterMetaV2)
        /\ Len(registry_v2') = Len(registry_v2) + 1
        /\ \A i \in 1..Len(registry_v2) : registry_v2'[i] = registry_v2[i]
        /\ registry_v2'[Len(registry_v2) + 1] = meta
    BY <2>1, <2>2, AppendProperties DEF RegistryTypeOK
  <2>4. BindingsKept
    BY <1>0, <2>3 DEF BindingsKept
  <2>5. meta.adapter_id = adapter_id
    BY DEF meta
  <2>6. \A i \in 1..Len(registry_v2) : registry_v2[i].adapter_id # adapter_id
    BY <1>2 DEF RegisterAdapterV2, Registered, SlotsOf
  <2>7. ASSUME NEW i \in 1..Len(registry_v2'), NEW j \in 1..Len(registry_v2'),
               registry_v2'[i].adapter_id = registry_v2'[j].adapter_id
        PROVE  i = j
    <3>1. \A k \in 1..Len(registry_v2') :
            k \in 1..Len(registry_v2) \/ k = Len(registry_v2) + 1
      BY <1>0, <2>3
    <3> QED
      BY <2>3, <2>5, <2>6, <2>7, <3>1 DEF OneSlotPerAdapter
  <2>8. Len(registry_v2') <= MAX_ADAPTERS
    BY <1>0, <1>2, <2>3, RegistryAssumption
    DEF RegisterAdapterV2, RegistryHasRoom
  <2>9. registry_v2_exists' = TRUE
    BY <1>2 DEF RegisterAdapterV2, RegistryTypeOK
  <2> QED
    BY <2>3, <2>4, <2>7, <2>8, <2>9 DEF RegistryTypeOK, OneSlotPerAdapter
<1>3. ASSUME NEW signer \in Signers, NEW adapter_id \in AdapterIds,
             NEW active \in BOOLEAN, SetActiveV2(signer, adapter_id, active)
      PROVE  RegistryInv' /\ BindingsKept
  <2> DEFINE slot == FindIndex(adapter_id)
             meta == [registry_v2[slot] EXCEPT !.active = active]
  <2>1. slot \in 1..Len(registry_v2)
    BY <1>3, FindIndexHoldsId DEF SetActiveV2
  <2>2. registry_v2' = [registry_v2 EXCEPT ![slot] = meta]
    BY <1>3 DEF SetActiveV2
  <2>3. /\ registry_v2[slot] \in AdapterMetaV2
        /\ meta \in AdapterMetaV2
        /\ meta.adapter_id = registry_v2[slot].adapter_id
        /\ meta.protocol_program = registry_v2[slot].protocol_program
    BY <1>0, <2>1 DEF AdapterMetaV2
  <2>4. registry_v2_exists' = TRUE
    BY <1>3 DEF SetActiveV2, RegistryTypeOK
  <2> HIDE DEF slot, meta
  <2>5. /\ registry_v2' \in Seq(AdapterMetaV2)
        /\ Len(registry_v2') = Len(registry_v2)
        /\ \A i \in 1..Len(registry_v2) :
            registry_v2'[i] = IF i = slot THEN meta ELSE registry_v2[i]
    BY <2>1, <2>2, <2>3, ExceptSeq DEF RegistryTypeOK
  <2>6. \A i \in 1..Len(registry_v2) :
            /\ registry_v2'[i].adapter_id = registry_v2[i].adapter_id
            /\ registry_v2'[i].protocol_program = registry_v2[i].protocol_program
    BY <2>3, <2>5
  <2> QED
    BY <1>0, <2>4, <2>5, <2>6
    DEF RegistryTypeOK, OneSlotPerAdapter, BindingsKept
<1> QED
  BY <1>1, <1>2, <1>3 DEF RegistryNext

(***************************************************************************)
(* A step that keeps the bindings keeps what find_index leads to, so a     *)
(* registered adapter keeps its program.                                   *)
(***************************************************************************)
LEMMA BindingsKeptByLookup ==
    ASSUME RegistryInv, RegistryInv', BindingsKept,
           NEW adapter_id, Registered(adapter_id)
    PROVE  /\ Registered(adapter_id)'
           /\ registry_v2'[FindIndex(adapter_id)'].protocol_program
                = registry_v2[FindIndex(adapter_id)].protocol_program
<1> DEFINE slot == FindIndex(adapter_id)
<1>1. slot \in 1..Len(registry_v2) /\ registry_v2[slot].adapter_id = adapter_id
  BY FindIndexHoldsId
<1>2. /\ slot <= Len(registry_v2')
      /\ registry_v2'[slot].adapter_id = adapter_id
      /\ registry_v2'[slot].protocol_program
            = registry_v2[slot].protocol_program
  BY <1>1 DEF BindingsKept
<1>3. Len(registry_v2) \in Nat /\ Len(registry_v2') \in Nat
  BY LenProperties DEF RegistryInv, RegistryTypeOK
<1> HIDE DEF slot
<1>4. slot \in SlotsOf(adapter_id)'
  BY <1>1, <1>2, <1>3 DEF SlotsOf
<1>5. slot = FindIndex(adapter_id)'
  <2>1. \A other \in SlotsOf(adapter_id)' : other = slot
    BY <1>4 DEF RegistryInv, OneSlotPerAdapter, SlotsOf
  <2>2. \A other \in SlotsOf(adapter_id)' : slot <= other
    BY <1>1, <1>3, <2>1
  <2> QED
    BY <1>4, <2>1, <2>2 DEF FindIndex
<1> QED
  BY <1>2, <1>4, <1>5 DEF Registered, slot

-----------------------------------------------------------------------------

(***************************************************************************)
(* The registry array never holds an id twice nor overruns its slots       *)
(* (process_register_adapter_v2).                                          *)
(***************************************************************************)
THEOREM RegistrySafe == RegistrySpec => [](RegistryTypeOK /\ OneSlotPerAdapter)
<1>1. RegistryInit => RegistryInv
  BY RegistryInitInv
<1>2. RegistryInv /\ [RegistryNext]_registryVars => RegistryInv'
  <2>1. CASE UNCHANGED registryVars
    BY <2>1
    DEF RegistryInv, RegistryTypeOK, OneSlotPerAdapter, registryVars
  <2> QED
    BY <2>1, RegistryStep
<1>3. RegistryInv => RegistryTypeOK /\ OneSlotPerAdapter
  BY DEF RegistryInv
<1> QED
  BY <1>1, <1>2, <1>3, PTL DEF RegistrySpec

(***************************************************************************)
(* No instruction of the registry re-points a registered adapter or drops  *)
(* it.                                                                     *)
(***************************************************************************)
THEOREM RegistryNeverRepointed == RegistrySpec => NeverRepointed
<1>1. RegistryInv /\ [RegistryNext]_registryVars => [BindingsKept]_registryVars
  BY RegistryStep
<1>2. RegistrySpec => []RegistryInv
  BY RegistrySafe, PTL DEF RegistryInv
<1> QED
  BY <1>1, <1>2, PTL DEF RegistrySpec, NeverRepointed
=============================================================================

--------------------------- MODULE HandoffPromise ---------------------------
(***************************************************************************)
(* What a peer-custody handoff promises its origin owner, with nothing     *)
(* said of how: one handoff id is used once; it is opened for one owner,   *)
(* with a stake and a floor fixed then; it is closed once, by a single     *)
(* payment to that owner that is neither below the floor nor above the     *)
(* stake.                                                                  *)
(***************************************************************************)
EXTENDS Naturals

CONSTANTS
    DayTxIds,   \* handoff ids
    OwnerKeys,  \* keys a handoff may name as its origin owner
    Micros      \* amounts

VARIABLES
    phase,      \* "new", "open" or "closed"
    holder,     \* the origin owner a handoff was opened for
    stake,      \* what it was opened with
    floor,      \* the least it may return
    returned    \* what it has paid, to whom

promiseVars == <<phase, holder, stake, floor, returned>>

Init ==
    /\ phase = [id \in DayTxIds |-> "new"]
    /\ holder \in [DayTxIds -> OwnerKeys]
    /\ stake = [id \in DayTxIds |-> 0]
    /\ floor = [id \in DayTxIds |-> 0]
    /\ returned = [id \in DayTxIds |-> [key \in OwnerKeys |-> 0]]

Open(id) ==
    /\ phase[id] = "new"
    /\ phase' = [phase EXCEPT ![id] = "open"]
    /\ \E key \in OwnerKeys : holder' = [holder EXCEPT ![id] = key]
    /\ \E amount \in Micros \ {0} : stake' = [stake EXCEPT ![id] = amount]
    /\ \E least \in Micros : floor' = [floor EXCEPT ![id] = least]
    /\ UNCHANGED returned

Close(id) ==
    /\ phase[id] = "open"
    /\ phase' = [phase EXCEPT ![id] = "closed"]
    /\ \E amount \in Micros \ {0} :
        /\ floor[id] <= amount
        /\ amount <= stake[id]
        /\ returned' = [returned EXCEPT ![id][holder[id]] = amount]
    /\ UNCHANGED <<holder, stake, floor>>

Next == \E id \in DayTxIds : Open(id) \/ Close(id)

Spec == Init /\ [][Next]_promiseVars
=============================================================================

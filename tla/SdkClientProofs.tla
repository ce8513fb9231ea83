-------------------------- MODULE SdkClientProofs ---------------------------
(***************************************************************************)
(* Theorems about SdkClient: for any number of calls, and however they     *)
(* interleave, the automatic checks start once and nothing a client knows  *)
(* was kept from its integrator.                                           *)
(***************************************************************************)
EXTENDS SdkClient, FiniteSetTheorems, TLAPS

Outcomes == Versions \cup {"error"}

Call ==
    [stage : Stages, path : Paths, check : {"no", "asked", "automatic"},
     reached : BOOLEAN, ok : BOOLEAN, headers : BOOLEAN, latest : Versions]

TypeOK ==
    /\ calls \in [Calls -> Call]
    /\ released \in BOOLEAN
    /\ scheduled \in Nat /\ autoRuns \in Nat
    /\ updateCheckStarted \in BOOLEAN /\ apiHeaderWarned \in BOOLEAN
    /\ lastUpdateCheck \in Outcomes \cup {None}
    /\ lastApiVersionCheck \in Outcomes \cup {None}
    /\ sdkNotices \in Nat /\ apiNotices \in Nat

\* No check waits for a product call, so one that was read stays read.
ProductUnchecked == \A c \in Calls : calls[c].path = "product" => calls[c].check = "no"

\* The flag is what stands between one start of the checks and the next.
FlagCounts == autoRuns + scheduled = IF updateCheckStarted THEN 1 ELSE 0

FlagEarned == updateCheckStarted => CheckUpdate /\ ProductSucceeded

IInv == TypeOK /\ ProductUnchecked /\ FlagCounts /\ FlagEarned /\ KnownIsTold

-----------------------------------------------------------------------------
(***************************************************************************)
(* A call the client makes next is one it has not made: the bound leaves   *)
(* one for the integrator, and two for the automatic checks.               *)
(***************************************************************************)
LEMMA NextIsIdle ==
    ASSUME Cardinality(IdleCalls) > Reserved
    PROVE  NextCall \in IdleCalls
  <1>1. IdleCalls # {}
    BY FS_EmptySet, SdkAssumption
  <1> QED
    BY <1>1 DEF NextCall

LEMMA TwoAreIdle ==
    ASSUME Cardinality(IdleCalls) > 1
    PROVE  NextCall \in IdleCalls /\ CallAfter \in IdleCalls
  <1>1. Cardinality(IdleCalls) # 0 /\ Cardinality(IdleCalls) # 1
    <2>1. Cardinality(IdleCalls) # 0 \/ IdleCalls = {}
      OBVIOUS
    <2>2. \A n \in {0, 1} : ~(n > 1)
      OBVIOUS
    <2> QED
      BY <2>2
  <1>2. NextCall \in IdleCalls
    BY <1>1, FS_EmptySet DEF NextCall
  <1>3. IdleCalls # {NextCall}
    BY <1>1, FS_Singleton
  <1>4. \E c \in IdleCalls : c # NextCall
    BY <1>2, <1>3
  <1> QED
    BY <1>2, <1>4 DEF CallAfter

\* What a product call that succeeded needs to stay so.
LEMMA SuccessStays ==
    ASSUME ProductSucceeded, ProductUnchecked,
           \A c \in Calls :
              calls[c].stage = "read" /\ calls[c].check = "no" => calls'[c] = calls[c]
    PROVE  ProductSucceeded'
  BY DEF ProductSucceeded, ProductUnchecked

-----------------------------------------------------------------------------
(***************************************************************************)
(* The server's side and the integrator's calls: none of them touches a    *)
(* flag, a cache or a call that was read.                                  *)
(***************************************************************************)
LEMMA QuietStep ==
    ASSUME IInv, TypeOK', ProductUnchecked',
           UNCHANGED <<flags, cache, notices>>,
           \A c \in Calls :
              calls[c].stage = "read" /\ calls[c].check = "no" => calls'[c] = calls[c]
    PROVE  IInv'
  <1>1. FlagCounts' /\ KnownIsTold'
    BY DEF IInv, FlagCounts, KnownIsTold, flags, cache, notices
  <1>2. FlagEarned'
    BY SuccessStays DEF IInv, FlagEarned, flags
  <1> QED
    BY <1>1, <1>2 DEF IInv

LEMMA IntegratorStep ==
    ASSUME IInv, Integrator
    PROVE  IInv'
  <1> DEFINE c == NextCall
  <1>1. c \in IdleCalls
    BY NextIsIdle DEF Integrator
  <1>2. c \in Calls /\ calls[c].stage = "idle"
    BY <1>1 DEF IdleCalls
  <1>3. PICK path \in Paths, check \in {"no", "asked"} :
            /\ path = "product" => check = "no"
            /\ calls' = [calls EXCEPT ![c] = Sent(path, check)]
            /\ UNCHANGED <<released, flags, apiHeaderWarned, cache, notices>>
    BY DEF Integrator, Request, Check, Paths
  <1>4. Sent(path, check) \in Call /\ Sent(path, check).path = path
        /\ Sent(path, check).check = check
    BY DEF Sent, Idle, Call, Stages, Paths, Versions
  <1>5. TypeOK'
    BY <1>2, <1>3, <1>4 DEF IInv, TypeOK, flags, cache, notices
  <1>6. ProductUnchecked'
    BY <1>2, <1>3, <1>4 DEF IInv, TypeOK, ProductUnchecked
  <1> QED
    BY <1>2, <1>3, <1>5, <1>6, QuietStep DEF IInv, TypeOK

LEMMA AnsweredStep ==
    ASSUME IInv, NEW c \in Calls, Answered(c)
    PROVE  IInv'
  <1>1. calls[c].stage = "sent" /\ UNCHANGED <<released, flags, apiHeaderWarned, cache, notices>>
    BY DEF Answered, Respond, FetchFails, At
  <1>2. PICK call \in Call :
            /\ call.path = calls[c].path /\ call.check = calls[c].check
            /\ calls' = [calls EXCEPT ![c] = call]
    <2>1. calls[c] \in Call
      BY DEF IInv, TypeOK
    <2>2. CASE Respond(c)
      BY <2>1, <2>2 DEF Respond, Call, Stages, Versions
    <2>3. CASE FetchFails(c)
      BY <2>1, <2>3 DEF FetchFails, Moved, Call, Stages
    <2> QED
      BY <2>2, <2>3 DEF Answered
  <1>3. TypeOK'
    BY <1>1, <1>2 DEF IInv, TypeOK, flags, cache, notices
  <1>4. ProductUnchecked'
    BY <1>2 DEF IInv, TypeOK, ProductUnchecked
  <1> QED
    BY <1>1, <1>2, <1>3, <1>4, QuietStep DEF IInv, TypeOK

-----------------------------------------------------------------------------
(***************************************************************************)
(* The client reads a response.  It is the only step that raises the flag, *)
(* and it does so for a product call that succeeded, which it leaves read. *)
(***************************************************************************)
LEMMA ReadStep ==
    ASSUME IInv, NEW c \in Calls, Read(c)
    PROVE  IInv'
  <1>1. calls[c] \in Call /\ calls[c].stage = "answered"
    BY DEF IInv, TypeOK, Read, At
  <1>2. PICK call \in Call :
            /\ call = [calls[c] EXCEPT !.stage = "read"]
            /\ call.path = calls[c].path /\ call.check = calls[c].check
            /\ call.ok = calls[c].ok /\ call.stage = "read"
            /\ calls' = [calls EXCEPT ![c] = call]
    BY <1>1 DEF Read, Moved, Call, Stages
  <1>3. /\ scheduled' \in Nat /\ updateCheckStarted' \in BOOLEAN
        /\ FlagCounts'
    <2>1. autoRuns' = autoRuns /\ MaybeScheduleUpdateCheck(calls[c])
      BY DEF Read
    <2>2. \/ ~updateCheckStarted /\ updateCheckStarted' /\ scheduled' = scheduled + 1
             /\ updateCheckStarted' \in BOOLEAN
          \/ scheduled' = scheduled /\ updateCheckStarted' = updateCheckStarted
      BY <2>1 DEF MaybeScheduleUpdateCheck, Schedule
    <2>3. autoRuns \in Nat /\ scheduled \in Nat /\ updateCheckStarted \in BOOLEAN /\ FlagCounts
      BY DEF IInv, TypeOK
    <2> QED
      BY <2>1, <2>2, <2>3 DEF FlagCounts
  <1>4. /\ apiHeaderWarned' \in BOOLEAN /\ apiNotices' \in Nat
        /\ lastApiVersionCheck' \in Outcomes \cup {None}
        /\ KnownIsTold'
    <2>1. UNCHANGED <<lastUpdateCheck, sdkNotices>> /\ NoteApiVersionHeaders(calls[c])
      BY DEF Read
    <2>2. \/ apiHeaderWarned' = TRUE /\ lastApiVersionCheck' = "newer"
             /\ apiNotices' = apiNotices + 1
          \/ UNCHANGED <<apiHeaderWarned, lastApiVersionCheck, apiNotices>>
      BY <2>1 DEF NoteApiVersionHeaders
    <2>3. /\ apiHeaderWarned \in BOOLEAN /\ apiNotices \in Nat
          /\ lastApiVersionCheck \in Outcomes \cup {None} /\ KnownIsTold
          /\ "newer" \in Outcomes
      BY DEF IInv, TypeOK, Outcomes, Versions
    <2>4. CASE /\ apiHeaderWarned' = TRUE /\ lastApiVersionCheck' = "newer"
               /\ apiNotices' = apiNotices + 1
      <3>1. apiNotices' \in Nat /\ apiNotices' > 0
        BY <2>3, <2>4
      <3> QED
        BY <2>1, <2>3, <2>4, <3>1, Zenon DEF KnownIsTold
    <2>5. CASE UNCHANGED <<apiHeaderWarned, lastApiVersionCheck, apiNotices>>
      BY <2>1, <2>3, <2>5, Zenon DEF KnownIsTold
    <2> QED
      BY <2>2, <2>4, <2>5
  <1>5. TypeOK'
    BY <1>2, <1>3, <1>4 DEF Read, IInv, TypeOK
  <1>6. ProductUnchecked'
    BY <1>2 DEF IInv, TypeOK, ProductUnchecked
  <1>7. FlagEarned'
    <2>1. CASE updateCheckStarted
      <3>1. \A d \in Calls :
              calls[d].stage = "read" /\ calls[d].check = "no" => calls'[d] = calls[d]
        BY <1>1, <1>2 DEF IInv, TypeOK
      <3> QED
        BY <2>1, <3>1, SuccessStays DEF IInv, FlagEarned
    <2>2. CASE ~updateCheckStarted /\ updateCheckStarted'
      <3>1. calls[c].ok /\ calls[c].path = "product" /\ CheckUpdate
        BY <2>2 DEF Read, MaybeScheduleUpdateCheck
      <3>2. calls'[c] = call
        BY <1>2 DEF IInv, TypeOK
      <3> QED
        BY <1>2, <3>1, <3>2 DEF FlagEarned, ProductSucceeded
    <2> QED
      BY <2>1, <2>2 DEF FlagEarned
  <1> QED
    BY <1>3, <1>4, <1>5, <1>6, <1>7 DEF IInv

\* The microtask moves a start from what is scheduled to what has run.
LEMMA AutomaticStep ==
    ASSUME IInv, Automatic
    PROVE  IInv'
  <1> DEFINE c == NextCall
             d == CallAfter
  <1>1. c \in IdleCalls /\ d \in IdleCalls
    BY TwoAreIdle DEF Automatic
  <1>2. c \in Calls /\ d \in Calls /\ calls[c].stage = "idle" /\ calls[d].stage = "idle"
    BY <1>1 DEF IdleCalls
  <1>3. StartChecks(c, d)
    BY DEF Automatic
  <1>4. PICK first \in Call, second \in Call :
            /\ first.path = "product" => first.check = "no"
            /\ second.path = "product" => second.check = "no"
            /\ calls' = [calls EXCEPT ![c] = first, ![d] = second]
    <2> DEFINE first == IF MustFetch("sdk", FALSE)
                        THEN Sent("sdk", "automatic") ELSE calls[c]
               second == IF MustFetch("version", FALSE)
                         THEN Sent("version", "automatic") ELSE calls[d]
    <2>1. /\ Sent("sdk", "automatic") \in Call /\ Sent("sdk", "automatic").path = "sdk"
          /\ Sent("version", "automatic") \in Call
          /\ Sent("version", "automatic").path = "version"
      BY DEF Sent, Idle, Call, Stages, Paths, Versions
    <2>2. \A e \in Calls : calls[e] \in Call /\ (calls[e].path = "product" => calls[e].check = "no")
      BY DEF IInv, TypeOK, ProductUnchecked
    <2>3. calls' = [calls EXCEPT ![c] = first, ![d] = second]
      BY <1>3 DEF StartChecks
    <2>4. first \in Call /\ (first.path = "product" => first.check = "no")
      BY <1>2, <2>1, <2>2
    <2>5. second \in Call /\ (second.path = "product" => second.check = "no")
      BY <1>2, <2>1, <2>2
    <2> HIDE DEF first, second
    <2> QED
      BY <2>3, <2>4, <2>5
  <1>5. /\ scheduled' = scheduled - 1 /\ scheduled > 0 /\ autoRuns' = autoRuns + 1
        /\ UNCHANGED <<released, updateCheckStarted, apiHeaderWarned, cache, notices>>
    BY <1>3 DEF StartChecks
  <1>6. TypeOK'
    BY <1>2, <1>4, <1>5 DEF IInv, TypeOK, cache, notices
  <1>7. ProductUnchecked'
    BY <1>2, <1>4 DEF IInv, TypeOK, ProductUnchecked
  <1>8. FlagCounts'
    BY <1>5 DEF IInv, TypeOK, FlagCounts
  <1>9. FlagEarned'
    <2>1. \A e \in Calls :
              calls[e].stage = "read" /\ calls[e].check = "no" => calls'[e] = calls[e]
      BY <1>2, <1>4 DEF IInv, TypeOK
    <2> QED
      BY <1>5, <2>1, SuccessStays DEF IInv, FlagEarned
  <1> QED
    BY <1>5, <1>6, <1>7, <1>8, <1>9 DEF IInv, KnownIsTold, cache, notices

(***************************************************************************)
(* A check concludes: the cache takes the result that was told.            *)
(***************************************************************************)
LEMMA ConcludeStep ==
    ASSUME IInv, NEW c \in Calls, ConcludeUpdateCheck(c) \/ ConcludeApiCheck(c)
    PROVE  IInv'
  <1>1. /\ calls[c] \in Call /\ calls[c].check # "no" /\ Moved(c, "done")
        /\ UNCHANGED <<released, flags, apiHeaderWarned>>
    BY DEF ConcludeUpdateCheck, ConcludeApiCheck, IInv, TypeOK
  <1>2. PICK call \in Call :
            /\ call.path = calls[c].path /\ call.check = calls[c].check
            /\ calls' = [calls EXCEPT ![c] = call]
    BY <1>1 DEF Moved, Call, Stages
  <1>3. /\ Result(calls[c]) \in Outcomes /\ Told(calls[c]) \in Nat
        /\ Result(calls[c]) = "newer" => Told(calls[c]) = 1
    BY <1>1 DEF Result, Told, Outcomes, Call, Versions
  <1>4. TypeOK' /\ KnownIsTold'
    <2>1. CASE ConcludeUpdateCheck(c)
      BY <1>1, <1>2, <1>3, <2>1
      DEF ConcludeUpdateCheck, IInv, TypeOK, KnownIsTold, flags
    <2>2. CASE ConcludeApiCheck(c)
      BY <1>1, <1>2, <1>3, <2>2
      DEF ConcludeApiCheck, IInv, TypeOK, KnownIsTold, flags
    <2> QED
      BY <2>1, <2>2
  <1>5. ProductUnchecked'
    BY <1>2 DEF IInv, TypeOK, ProductUnchecked
  <1>6. FlagCounts'
    BY <1>1 DEF IInv, FlagCounts, flags
  <1>7. FlagEarned'
    <2>1. \A d \in Calls :
              calls[d].stage = "read" /\ calls[d].check = "no" => calls'[d] = calls[d]
      BY <1>1, <1>2 DEF IInv, TypeOK
    <2> QED
      BY <1>1, <2>1, SuccessStays DEF IInv, FlagEarned, flags
  <1> QED
    BY <1>4, <1>5, <1>6, <1>7 DEF IInv

-----------------------------------------------------------------------------
LEMMA InitIInv == Init => IInv
  <1> SUFFICES ASSUME Init PROVE IInv
    OBVIOUS
  <1>1. TypeOK
    BY DEF Init, TypeOK, Idle, Call, Stages, Paths, Versions
  <1>2. ProductUnchecked
    BY DEF Init, Idle, ProductUnchecked
  <1>3. FlagCounts /\ FlagEarned
    BY DEF Init, FlagCounts, FlagEarned
  <1>4. KnownIsTold
    BY SdkAssumption DEF Init, KnownIsTold
  <1> QED
    BY <1>1, <1>2, <1>3, <1>4 DEF IInv

LEMMA NextIInv == IInv /\ [Next]_vars => IInv'
  <1> SUFFICES ASSUME IInv, [Next]_vars PROVE IInv'
    OBVIOUS
  <1>1. CASE Integrator
    BY <1>1, IntegratorStep
  <1>2. CASE Automatic
    BY <1>2, AutomaticStep
  <1>3. ASSUME NEW c \in Calls, Answered(c) PROVE IInv'
    BY <1>3, AnsweredStep
  <1>4. ASSUME NEW c \in Calls, Continued(c) PROVE IInv'
    BY <1>4, ReadStep, ConcludeStep DEF Continued
  <1>5. CASE Release
    <2>1. TypeOK' /\ ProductUnchecked'
      BY <1>5 DEF Release, IInv, TypeOK, ProductUnchecked, flags, cache, notices
    <2> QED
      BY <1>5, <2>1, QuietStep DEF Release
  <1>6. CASE UNCHANGED vars
    <2>1. TypeOK' /\ ProductUnchecked'
      BY <1>6 DEF vars, IInv, TypeOK, ProductUnchecked, flags, cache, notices
    <2> QED
      BY <1>6, <2>1, QuietStep DEF vars
  <1> QED
    BY <1>1, <1>2, <1>3, <1>4, <1>5, <1>6 DEF Next

LEMMA Invariant == Spec => []IInv
  BY InitIInv, NextIInv, PTL DEF Spec

(***************************************************************************)
(* The automatic checks start at most once, and only after a product call  *)
(* succeeded, however many calls a client makes and however their answers  *)
(* and its microtasks interleave (index.mjs 191-200).                      *)
(***************************************************************************)
THEOREM ChecksStartOnce == Spec => []AutoCheckOnce
  <1>1. IInv => AutoCheckOnce
    BY DEF IInv, FlagCounts, FlagEarned, AutoCheckOnce
  <1> QED
    BY <1>1, Invariant, PTL

(***************************************************************************)
(* A newer version that a client has cached was told to its integrator, by *)
(* whichever of header and check came first (index.mjs 144-187, 267-381).  *)
(***************************************************************************)
THEOREM KnownAlwaysTold == Spec => []KnownIsTold
  <1>1. IInv => KnownIsTold
    BY DEF IInv
  <1> QED
    BY <1>1, Invariant, PTL
=============================================================================

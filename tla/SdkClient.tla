----------------------------- MODULE SdkClient ------------------------------
(***************************************************************************)
(* One DayClient of the SDK (packages/sdk/src/index.mjs): the calls it has *)
(* in flight, and the checks that tell an integrator of a newer SDK or a   *)
(* newer API.  The first product call that succeeds schedules both checks, *)
(* once; they run in a later microtask and make calls of their own.  The   *)
(* integrator may check too, at any time and more than once.  Beside this, *)
(* the headers of any response may tell of a newer API.                    *)
(*                                                                         *)
(* Everything runs on one thread: a step is what the client does between   *)
(* two awaits.  Between them the integrator's code, other responses and    *)
(* other continuations run in any order.  Versions are abstracted to       *)
(* whether the server's latest is newer than the client's; the minimum     *)
(* version, which is told in the same way, is left out, and so are         *)
(* lastApiVersionHeaders, which the client only writes, and the endpoints, *)
(* which only name a path for request.                                     *)
(***************************************************************************)
EXTENDS Integers, FiniteSets

CONSTANTS
    Calls,       \* identities of HTTP calls, each used once
    CheckUpdate, \* the client's option: whether checks start by themselves
    None,        \* no result cached yet
    Reserved     \* bound: calls the integrator leaves to the automatic checks

ASSUME SdkAssumption ==
    /\ CheckUpdate \in BOOLEAN /\ Reserved \in Nat
    /\ None \notin {"current", "newer", "error"}

VARIABLES
    calls,               \* where each call stands
    released,            \* whether the server publishes newer versions
    scheduled,           \* microtasks that start the automatic checks, queued
    updateCheckStarted,  \* the client's _updateCheckStarted
    apiHeaderWarned,     \* its _apiHeaderWarned
    lastUpdateCheck,     \* result of the SDK check, cached
    lastApiVersionCheck, \* result of the API check, cached
    autoRuns,            \* times the automatic checks have started
    sdkNotices,          \* times the integrator was told of a newer SDK
    apiNotices           \* times the integrator was told of a newer API

cache == <<lastUpdateCheck, lastApiVersionCheck>>
notices == <<sdkNotices, apiNotices>>
flags == <<scheduled, updateCheckStarted, autoRuns>>
vars == <<calls, released, flags, apiHeaderWarned, cache, notices>>

Versions == {"current", "newer"}

Paths == {"product", "sdk", "version"}

\* A call waits for the server, then its answer is under way, then the client
\* has read it.  latest is the version the answer names; headers says whether
\* it carries version headers; a call that fails has no answer at all.  check
\* says whether a check waits for the call, asked for or automatic.
Stages == {"idle", "sent", "answered", "read", "done"}

Idle ==
    [stage |-> "idle", path |-> "product", check |-> "no", reached |-> FALSE,
     ok |-> FALSE, headers |-> FALSE, latest |-> "current"]

Sent(path, check) ==
    [Idle EXCEPT !.stage = "sent", !.path = path, !.check = check]

IdleCalls == {c \in Calls : calls[c].stage = "idle"}

\* Calls differ in nothing before they are made: which is next is no choice.
NextCall == CHOOSE c \in IdleCalls : TRUE
CallAfter == CHOOSE c \in IdleCalls : c # NextCall

At(c, stage) == calls[c].stage = stage

Moved(c, stage) == calls' = [calls EXCEPT ![c].stage = stage]

-----------------------------------------------------------------------------
(* Calls.                                                                  *)

\* The integrator calls an endpoint.
Request(c, path) ==
    /\ calls' = [calls EXCEPT ![c] = Sent(path, "no")]
    /\ UNCHANGED <<released, flags, apiHeaderWarned, cache, notices>>

\* A check answers from its cache unless forced, and else calls the server.
Cached(path) == IF path = "sdk" THEN lastUpdateCheck ELSE lastApiVersionCheck

MustFetch(path, force) == force \/ Cached(path) = None

\* The integrator calls checkForUpdate or checkApiVersion.
Check(c, path, force) ==
    /\ MustFetch(path, force)
    /\ calls' = [calls EXCEPT ![c] = Sent(path, "asked")]
    /\ UNCHANGED <<released, flags, apiHeaderWarned, cache, notices>>

\* The server, or whatever stands before it, answers a call.
Respond(c) ==
    /\ At(c, "sent")
    /\ \E ok, headers \in BOOLEAN :
        calls' = [calls EXCEPT ![c] =
            [@ EXCEPT !.stage = "answered", !.reached = TRUE, !.ok = ok,
                      !.headers = headers,
                      !.latest = IF released THEN "newer" ELSE "current"]]
    /\ UNCHANGED <<released, flags, apiHeaderWarned, cache, notices>>

\* fetch rejects: the call throws before the client sees any header.
FetchFails(c) ==
    /\ At(c, "sent")
    /\ Moved(c, "read")
    /\ UNCHANGED <<released, flags, apiHeaderWarned, cache, notices>>

-----------------------------------------------------------------------------
(* What the client does with a response, between two awaits.               *)

\* Left to the check that will find the header's result in its cache.
NoteSilently(call) ==
    IF CheckUpdate /\ call.headers /\ call.latest = "newer" /\ ~apiHeaderWarned
    THEN /\ apiHeaderWarned' = TRUE
         /\ lastApiVersionCheck' = "newer"
         /\ UNCHANGED apiNotices
    ELSE UNCHANGED <<apiHeaderWarned, lastApiVersionCheck, apiNotices>>

NoteApiVersionHeaders(call) ==
    IF CheckUpdate /\ call.headers /\ call.latest = "newer" /\ ~apiHeaderWarned
    THEN /\ apiHeaderWarned' = TRUE
         /\ lastApiVersionCheck' = "newer"
         /\ apiNotices' = apiNotices + 1
    ELSE UNCHANGED <<apiHeaderWarned, lastApiVersionCheck, apiNotices>>

Schedule ==
    /\ scheduled' = scheduled + 1
    /\ updateCheckStarted' = TRUE

\* The flag never set.
ScheduleUnmarked(call) ==
    IF call.ok /\ call.path = "product" /\ CheckUpdate /\ ~updateCheckStarted
    THEN scheduled' = scheduled + 1 /\ UNCHANGED updateCheckStarted
    ELSE UNCHANGED <<scheduled, updateCheckStarted>>

MaybeScheduleUpdateCheck(call) ==
    IF call.ok /\ call.path = "product" /\ CheckUpdate /\ ~updateCheckStarted
    THEN Schedule
    ELSE UNCHANGED <<scheduled, updateCheckStarted>>

Read(c) ==
    /\ At(c, "answered")
    /\ NoteApiVersionHeaders(calls[c])
    /\ MaybeScheduleUpdateCheck(calls[c])
    /\ Moved(c, "read")
    /\ UNCHANGED <<released, autoRuns, lastUpdateCheck, sdkNotices>>

\* The microtask: both checks start, each with a call of its own if it needs one.
StartChecks(c, d) ==
    /\ scheduled > 0
    /\ scheduled' = scheduled - 1
    /\ autoRuns' = autoRuns + 1
    /\ calls' = [calls EXCEPT
            ![c] = IF MustFetch("sdk", FALSE) THEN Sent("sdk", "automatic") ELSE @,
            ![d] = IF MustFetch("version", FALSE) THEN Sent("version", "automatic") ELSE @]
    /\ UNCHANGED <<released, updateCheckStarted, apiHeaderWarned, cache, notices>>

-----------------------------------------------------------------------------
(* The rest of a check, once its call has been read.                       *)

\* A check that leaves no trace of a failure.
ResultIfAny(call) == IF call.reached /\ call.ok THEN call.latest ELSE None

Result(call) == IF call.reached /\ call.ok THEN call.latest ELSE "error"

Told(call) == IF Result(call) = "newer" THEN 1 ELSE 0

ConcludeUpdateCheck(c) ==
    /\ At(c, "read") /\ calls[c].check # "no" /\ calls[c].path = "sdk"
    /\ lastUpdateCheck' = Result(calls[c])
    /\ sdkNotices' = sdkNotices + Told(calls[c])
    /\ Moved(c, "done")
    /\ UNCHANGED <<released, flags, apiHeaderWarned, lastApiVersionCheck, apiNotices>>

ConcludeApiCheck(c) ==
    /\ At(c, "read") /\ calls[c].check # "no" /\ calls[c].path = "version"
    /\ lastApiVersionCheck' = Result(calls[c])
    /\ apiNotices' = apiNotices + Told(calls[c])
    /\ Moved(c, "done")
    /\ UNCHANGED <<released, flags, apiHeaderWarned, lastUpdateCheck, sdkNotices>>

-----------------------------------------------------------------------------
\* A newer SDK and API are published.
Release ==
    /\ ~released
    /\ released' = TRUE
    /\ UNCHANGED <<calls, flags, apiHeaderWarned, cache, notices>>

Init ==
    /\ calls = [c \in Calls |-> Idle]
    /\ released \in BOOLEAN
    /\ scheduled = 0
    /\ updateCheckStarted = FALSE
    /\ apiHeaderWarned = FALSE
    /\ lastUpdateCheck = None
    /\ lastApiVersionCheck = None
    /\ autoRuns = 0
    /\ sdkNotices = 0
    /\ apiNotices = 0

Integrator ==
    /\ Cardinality(IdleCalls) > Reserved
    /\ \/ \E path \in Paths : Request(NextCall, path)
       \/ \E path \in Paths \ {"product"}, force \in BOOLEAN :
            Check(NextCall, path, force)

Automatic == Cardinality(IdleCalls) > 1 /\ StartChecks(NextCall, CallAfter)

Answered(c) == Respond(c) \/ FetchFails(c)

Continued(c) == Read(c) \/ ConcludeUpdateCheck(c) \/ ConcludeApiCheck(c)

Next ==
    \/ Integrator
    \/ Automatic
    \/ \E c \in Calls : Answered(c) \/ Continued(c)
    \/ Release

(***************************************************************************)
(* The event loop runs what is queued, and every fetch settles, answered   *)
(* or not: the platform's, since the client sets no timeout of its own.    *)
(***************************************************************************)
Fairness ==
    /\ WF_vars(Automatic)
    /\ \A c \in Calls : WF_vars(Answered(c)) /\ WF_vars(Continued(c))

Spec == Init /\ [][Next]_vars /\ Fairness

-----------------------------------------------------------------------------
ProductSucceeded ==
    \E c \in Calls :
        calls[c].stage = "read" /\ calls[c].path = "product" /\ calls[c].ok

(***************************************************************************)
(* The automatic checks start once in the life of a client, however many   *)
(* product calls succeed together, and only after one of them has: the     *)
(* calls the checks make never start checks again.  A check that the       *)
(* integrator asks for meanwhile is another one, and both may warn.        *)
(***************************************************************************)
AutoCheckOnce ==
    /\ autoRuns + scheduled <= 1
    /\ autoRuns + scheduled = 1 => CheckUpdate /\ ProductSucceeded

(***************************************************************************)
(* A client whose cached result is a newer version has told its integrator *)
(* so: neither a header nor a check fills the cache in silence, which the  *)
(* other would then find and return.  The client tells by a warning and by *)
(* a callback; the options that switch them off are left out.              *)
(***************************************************************************)
KnownIsTold ==
    /\ lastUpdateCheck = "newer" => sdkNotices > 0
    /\ lastApiVersionCheck = "newer" => apiNotices > 0

(***************************************************************************)
(* Once a product call succeeds, both checks come to a result, a failure   *)
(* being one: the integrator finds an answer in the cache.                 *)
(***************************************************************************)
ChecksConclude ==
    CheckUpdate /\ ProductSucceeded
        ~> lastUpdateCheck # None /\ lastApiVersionCheck # None
=============================================================================

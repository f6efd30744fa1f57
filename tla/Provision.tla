------------------------------ MODULE Provision ------------------------------
(* ProvisionRunner: the pulls of one model, their single-flight latch and    *)
(* their throttled progress, and downloadGgufToStore, which places a model   *)
(* in the store.                                                             *)
(*                                                                           *)
(* The model is one that is ingested from a verified file.  It can be asked  *)
(* for over two routes: setup.pullModel names it as Ollama does,             *)
(* setup.provisionModel by its id in the catalog.  Progress and cancel carry *)
(* the name of the route, the latch the id of the catalog.                   *)
EXTENDS Naturals

VARIABLES provisionOpen,  \* the lifecycle gate has not closed
          pullLatches,    \* the pull keys of LatchRegistry.latches
          pullAborted,    \* the routes whose signal is aborted
          pullAt,         \* per route: where its handler is
          toStore,        \* the catalog route downloads into the store
          placed,         \* the file is in the store
          attested,       \* its sidecar describes it
          throttle,       \* per route: its ThrottleState
          bar             \* per route: the webview shows its progress

provisionVars == <<provisionOpen, pullLatches, pullAborted, pullAt, toStore,
                   placed, attested, throttle, bar>>
pullVars  == <<provisionOpen, pullLatches, pullAborted, pullAt>>
storeVars == <<toStore, placed, attested>>

Routes == {"legacy", "catalog"}
NoThrottle == [recent |-> FALSE, timer |-> FALSE, pending |-> "none"]
Fired == [recent |-> TRUE, timer |-> FALSE, pending |-> "none"]

\* Mutant: the latch carries the name the route uses.
PullKeyOfRoute(r) == r

\* canonicalPullLatchId: both routes share the id of the catalog.
PullKey(r) == "catalog"

\* Types of the variables, and: every latch belongs to a handler that runs.
ProvisionTypeOK ==
  /\ provisionOpen \in BOOLEAN /\ toStore \in BOOLEAN /\ attested \in BOOLEAN
  /\ pullAborted \subseteq Routes /\ placed \in BOOLEAN
  /\ pullAt \in [Routes -> {"idle", "checks", "modal", "reassert", "download",
                            "placing", "recording"}]
  /\ throttle \in [Routes -> [recent : BOOLEAN, timer : BOOLEAN,
                              pending : {"none", "tick", "done"}]]
  /\ bar \in [Routes -> BOOLEAN]
  /\ pullLatches \subseteq {PullKey(r) : r \in {q \in Routes : pullAt[q] # "idle"}}
  /\ provisionOpen \/ pullLatches = {}

(* pushProgress: what is fired at once replaces what waited for the timer.   *)
PushProgress(r, p) ==
  IF ~provisionOpen THEN UNCHANGED <<throttle, bar>>
  ELSE IF throttle[r].recent
    THEN /\ throttle' = [throttle EXCEPT ![r].pending = p, ![r].timer = TRUE]
         /\ UNCHANGED bar
    ELSE /\ throttle' = [throttle EXCEPT ![r] = Fired]
         /\ bar' = [bar EXCEPT ![r] = (p = "tick")]

ProvisionInit ==
  /\ provisionOpen = TRUE /\ pullLatches = {} /\ pullAborted = {}
  /\ pullAt = [r \in Routes |-> "idle"] /\ toStore = FALSE
  /\ placed \in BOOLEAN /\ attested \in {FALSE, placed}
  /\ throttle = [r \in Routes |-> NoThrottle] /\ bar = [r \in Routes |-> FALSE]

PullMoves(r, from, to) ==
  /\ pullAt[r] = from /\ pullAt' = [pullAt EXCEPT ![r] = to]
  /\ UNCHANGED <<provisionOpen, pullLatches, pullAborted, throttle, bar>>

(* handlePullModel, handleVettedIngest, handleProvisionModel: latched before *)
(* the modal.  Refusals before the latch change nothing.                     *)
PullRequested(r) ==
  /\ provisionOpen /\ pullAt[r] = "idle" /\ PullKey(r) \notin pullLatches
  /\ pullLatches' = pullLatches \cup {PullKey(r)}
  /\ pullAt' = [pullAt EXCEPT ![r] = "checks"]
  /\ IF r = "catalog" THEN toStore' \in BOOLEAN ELSE UNCHANGED toStore
  /\ UNCHANGED <<provisionOpen, pullAborted, placed, attested, throttle, bar>>

\* verifyHfDigest or resolveLfsOid, and checkedStoreDest.
PullAsks(r) == PullMoves(r, "checks", "modal") /\ UNCHANGED storeVars

StoreRoute(r) == r = "catalog" /\ toStore

PullConfirmed(r) ==
  /\ PullMoves(r, "modal", IF StoreRoute(r) THEN "reassert" ELSE "download")
  /\ UNCHANGED storeVars

\* The destination is checked again after the modal.
DestinationHolds(r) == PullMoves(r, "reassert", "download") /\ UNCHANGED storeVars

\* An aborted signal rejects the next read.
PullTicks(r) ==
  /\ pullAt[r] = "download" /\ r \notin pullAborted /\ PushProgress(r, "tick")
  /\ UNCHANGED <<pullVars, storeVars>>

\* Mutant: the finally is missing.
PullReleasedKeepsLatch(r) ==
  /\ pullAt' = [pullAt EXCEPT ![r] = "idle"]
  /\ pullAborted' = pullAborted \ {r}
  /\ PushProgress(r, "done") /\ UNCHANGED <<provisionOpen, pullLatches, toStore>>

\* Every way out of a handler ends in its finally.
PullReleased(r) ==
  /\ pullLatches' = pullLatches \ {PullKey(r)}
  /\ pullAt' = [pullAt EXCEPT ![r] = "idle"]
  /\ pullAborted' = pullAborted \ {r}
  /\ PushProgress(r, "done") /\ UNCHANGED <<provisionOpen, toStore>>

\* A refusal, a declined modal, an abort, a lost download, a digest that does
\* not match, a destination that changed, a failed rename or sidecar.
PullFails(r) == /\ pullAt[r] # "idle" /\ PullReleased(r)
                /\ UNCHANGED <<placed, attested>>

\* runLibraryPull or ingestGguf has ended well.
OllamaPulled(r) ==
  /\ pullAt[r] = "download" /\ ~StoreRoute(r) /\ r \notin pullAborted
  /\ PullReleased(r) /\ UNCHANGED <<placed, attested>>

\* downloadToTemp: all bytes are in the .part file, with the expected digest.
FileVerified(r) ==
  /\ StoreRoute(r) /\ r \notin pullAborted
  /\ PullMoves(r, "download", "placing") /\ UNCHANGED storeVars

\* renameTemp: the sidecar of another file, of another size, attests nothing.
Placed(r) ==
  /\ PullMoves(r, "placing", "recording")
  /\ placed' = TRUE /\ attested' \in {attested, FALSE} /\ UNCHANGED toStore

Recorded(r) ==
  /\ pullAt[r] = "recording" /\ attested' = TRUE /\ PullReleased(r)
  /\ UNCHANGED placed

(* handleCancel: by the name of a route, over the key of its latch.          *)
CancelPull(r) ==
  /\ PullKey(r) \in pullLatches
  /\ pullAborted' = pullAborted
       \cup {q \in Routes : pullAt[q] # "idle" /\ PullKey(q) = PullKey(r)}
  /\ UNCHANGED <<provisionOpen, pullLatches, pullAt, storeVars, throttle, bar>>

(* Time passes, and the timer of pushProgress fires.                         *)
WindowPasses(r) ==
  /\ throttle[r].recent /\ throttle' = [throttle EXCEPT ![r].recent = FALSE]
  /\ UNCHANGED <<pullVars, storeVars, bar>>

ThrottleFires(r) ==
  /\ throttle[r].timer /\ ~throttle[r].recent
  /\ throttle' = [throttle EXCEPT ![r] = Fired]
  /\ bar' = [bar EXCEPT ![r] = (throttle[r].pending = "tick")]
  /\ UNCHANGED <<pullVars, storeVars>>

(* dispose: latches.abortAll, and the throttle is cleared.                   *)
ProvisionDispose ==
  /\ provisionOpen /\ provisionOpen' = FALSE /\ pullLatches' = {}
  /\ pullAborted' = pullAborted \cup {r \in Routes : pullAt[r] # "idle"}
  /\ throttle' = [r \in Routes |-> NoThrottle]
  /\ UNCHANGED <<pullAt, storeVars, bar>>

ProvisionNext ==
  \/ \E r \in Routes :
       \/ PullRequested(r) \/ PullAsks(r) \/ PullConfirmed(r)
       \/ DestinationHolds(r) \/ PullTicks(r) \/ PullFails(r)
       \/ OllamaPulled(r) \/ FileVerified(r) \/ Placed(r) \/ Recorded(r)
       \/ CancelPull(r) \/ WindowPasses(r) \/ ThrottleFires(r)
  \/ ProvisionDispose

------------------------------------------------------------------------------
(* The model is downloaded once at a time, over whichever route              *)
(* (provisionRunner.ts:403-411), so a cancel or a dispose that looks the     *)
(* latch up reaches the download that runs.  When a route has nothing running and  *)
(* its timer is quiet, the webview shows no progress of it: the throttle     *)
(* keeps the terminal marker whatever ticks came before it                   *)
(* (SetupController.ts:2050-2086).  The last webview before a dispose is not *)
(* told.                                                                     *)
PullsSettle ==
  /\ \A q, r \in Routes : pullAt[q] # "idle" /\ pullAt[r] # "idle" => q = r
  /\ provisionOpen => \A r \in Routes :
       pullAt[r] = "idle" /\ ~throttle[r].timer => ~bar[r]
=============================================================================

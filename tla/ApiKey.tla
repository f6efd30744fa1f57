-------------------------------- MODULE ApiKey --------------------------------
(***************************************************************************)
(* The API key of the autocomplete backend (autocomplete/index.ts,         *)
(* apiKey.ts).  It lives in SecretStorage, which other windows write too,  *)
(* and in a deprecated setting in plain text, which initApiKey copies to   *)
(* the storage in one session and clears in a later one.  A key is a       *)
(* number, 0 is no key.  Without a keyring SecretStorage is in memory: it  *)
(* outlives the extension host, which may be activated again while the     *)
(* editor runs, not the editor, and says nothing about it.  The rebuild of *)
(* the engine that follows an arrival is a step of Completion.             *)
(***************************************************************************)
EXTENDS Integers

CONSTANTS Keys,     \* keys a user may enter
          MaxReads  \* bound: reads of the key in one session

ASSUME ApiKeyAssumption == Keys \subseteq Nat \ {0} /\ MaxReads \in Nat \ {0}

VARIABLES storedKey,  \* the key in SecretStorage
          keyring,    \* SecretStorage survives the editor
          setting,    \* the key in the deprecated setting
          apiKey,     \* secretApiKey
          keyEvents,  \* changes the listener has not heard of
          keyReads,   \* the reads of the change listener under way, as
                      \* <<sequence, what the storage answered (-1: nothing yet)>>
          keyRefreshSeq,
          initKey,    \* where initApiKey is, and the key it goes on with: first
                      \* the setting's, as the activation found it
          clearing,   \* promptAndStoreApiKey clears the setting
          keyLost,    \* history: the newest read failed
          wanted,     \* history: the setting held a key, which the user did not clear
          inMemory    \* history: an activation was handed the setting's key by a
                      \* storage in memory, and what was left when the editor quit

keyVars == <<storedKey, keyring, setting, apiKey, keyEvents, keyReads, keyRefreshSeq, initKey,
             clearing, keyLost, wanted, inMemory>>

KeyOrNone == Keys \cup {0}

ApiKeyTypeOK ==
  /\ storedKey \in KeyOrNone /\ setting \in KeyOrNone /\ apiKey \in KeyOrNone
  /\ keyEvents \in Nat /\ keyRefreshSeq \in 1 .. MaxReads - keyEvents
  /\ keyReads \subseteq (2 .. keyRefreshSeq) \X (KeyOrNone \cup {-1})
  /\ initKey \in [at : {"get", "store", "clear", "arrive", "done"}, key : KeyOrNone]
  /\ keyring \in BOOLEAN /\ clearing \in BOOLEAN /\ keyLost \in BOOLEAN /\ wanted \in BOOLEAN
  /\ inMemory \in {"unread", "readBack", "wiped"}

\* An activation: nothing is loaded, the setting is read, and initApiKey asks
\* the storage.
Activated ==
  /\ apiKey' = 0 /\ keyEvents' = 0 /\ keyReads' = {} /\ keyRefreshSeq' = 1 /\ clearing' = FALSE
  /\ initKey' = [at |-> "get", key |-> setting] /\ keyLost' = FALSE

ApiKeyInit ==
  /\ keyring \in BOOLEAN /\ setting \in KeyOrNone /\ storedKey = 0
  /\ apiKey = 0 /\ keyEvents = 0 /\ keyReads = {} /\ keyRefreshSeq = 1 /\ clearing = FALSE
  /\ initKey = [at |-> "get", key |-> setting] /\ keyLost = FALSE
  /\ wanted = (setting # 0) /\ inMemory = "unread"

\* The storage holds k from now on, and will say so.
Stored(k) ==
  /\ keyRefreshSeq + keyEvents < MaxReads
  /\ storedKey' = k
  /\ keyEvents' = keyEvents + 1
  /\ UNCHANGED <<apiKey, keyReads, keyRefreshSeq, keyLost>>

-------------------------------------------------------------------------------
\* initApiKey, the first read.

\* The storage handed back the key of the setting.
ReadBack == storedKey # 0 /\ storedKey = initKey.key

\* The storage answers: a legacy key is copied if there is none, and cleared if
\* it is the one that was read back.
InitGets ==
  /\ initKey.at = "get"
  /\ initKey' = [at  |-> IF storedKey = 0 /\ initKey.key # 0 THEN "store"
                         ELSE IF ReadBack THEN "clear" ELSE "arrive",
                 key |-> IF storedKey = 0 THEN initKey.key ELSE storedKey]
  /\ inMemory' = IF ReadBack /\ ~ keyring /\ inMemory = "unread" THEN "readBack" ELSE inMemory
  /\ UNCHANGED <<storedKey, keyring, setting, apiKey, keyEvents, keyReads, keyRefreshSeq,
                 clearing, keyLost, wanted>>

\* Mutant: the setting is cleared in the session that copied it.
InitStoresThenClears ==
  /\ initKey.at = "store"
  /\ Stored(initKey.key)
  /\ initKey' = [initKey EXCEPT !.at = "clear"]
  /\ UNCHANGED <<keyring, setting, clearing, wanted, inMemory>>

InitStores ==
  /\ initKey.at = "store"
  /\ Stored(initKey.key)
  /\ initKey' = [initKey EXCEPT !.at = "arrive"]
  /\ UNCHANGED <<keyring, setting, clearing, wanted, inMemory>>

InitClears ==
  /\ initKey.at = "clear"
  /\ setting' \in {0, setting}
  /\ initKey' = [initKey EXCEPT !.at = "arrive"]
  /\ UNCHANGED <<storedKey, keyring, apiKey, keyEvents, keyReads, keyRefreshSeq,
                 clearing, keyLost, wanted, inMemory>>

\* Mutant: a read is applied whenever it settles.
NewestReadAny(sequence) == TRUE

\* A read is applied only if none was issued after it.
NewestRead(sequence) == sequence = keyRefreshSeq

InitArrives ==
  /\ initKey.at = "arrive"
  /\ initKey' = [at |-> "done", key |-> 0]
  /\ apiKey' = IF NewestRead(1) THEN initKey.key ELSE apiKey
  /\ UNCHANGED <<storedKey, keyring, setting, keyEvents, keyReads, keyRefreshSeq,
                 clearing, keyLost, wanted, inMemory>>

\* The storage rejects.
InitRejects ==
  /\ initKey.at \in {"get", "store"}
  /\ initKey' = [at |-> "done", key |-> 0]
  /\ keyLost' = (keyLost \/ NewestRead(1))
  /\ UNCHANGED <<storedKey, keyring, setting, apiKey, keyEvents, keyReads, keyRefreshSeq,
                 clearing, wanted, inMemory>>

-------------------------------------------------------------------------------
\* The listener of SecretStorage.

KeyChanged ==
  /\ keyEvents > 0 /\ keyEvents' = keyEvents - 1
  /\ keyRefreshSeq' = keyRefreshSeq + 1
  /\ keyReads' = keyReads \cup {<<keyRefreshSeq', -1>>}
  /\ keyLost' = FALSE
  /\ UNCHANGED <<storedKey, keyring, setting, apiKey, initKey, clearing, wanted,
                 inMemory>>

KeyServed == \E r \in keyReads :
  /\ r[2] = -1
  /\ keyReads' = (keyReads \ {r}) \cup {<<r[1], storedKey>>}
  /\ UNCHANGED <<storedKey, keyring, setting, apiKey, keyEvents, keyRefreshSeq, initKey,
                 clearing, keyLost, wanted, inMemory>>

KeyArrives == \E r \in keyReads :
  /\ r[2] # -1
  /\ keyReads' = keyReads \ {r}
  /\ apiKey' = IF NewestRead(r[1]) THEN r[2] ELSE apiKey
  /\ UNCHANGED <<storedKey, keyring, setting, keyEvents, keyRefreshSeq, initKey,
                 clearing, keyLost, wanted, inMemory>>

KeyReadFails == \E r \in keyReads :
  /\ keyReads' = keyReads \ {r}
  /\ keyLost' = (keyLost \/ NewestRead(r[1]))
  /\ UNCHANGED <<storedKey, keyring, setting, apiKey, keyEvents, keyRefreshSeq, initKey,
                 clearing, wanted, inMemory>>

-------------------------------------------------------------------------------
\* The user and the editor.

\* The command talaria.setAutocompleteApiKey stores a key, here or in another
\* window: also the very key of the setting.
EnterKey == \E k \in Keys :
  /\ Stored(k)
  /\ UNCHANGED <<keyring, setting, initKey, clearing, wanted, inMemory>>

\* A blank entry deletes the key, and after it the setting.
ClearKey ==
  /\ ~ clearing
  /\ Stored(0)
  /\ clearing' = TRUE /\ wanted' = FALSE
  /\ UNCHANGED <<keyring, setting, initKey, inMemory>>

ClearSetting ==
  /\ clearing /\ clearing' = FALSE
  /\ setting' \in {0, setting}
  /\ UNCHANGED <<storedKey, keyring, apiKey, keyEvents, keyReads, keyRefreshSeq, initKey,
                 keyLost, wanted, inMemory>>

\* The editor quits, and with it a storage in memory.
Restart ==
  /\ storedKey' = IF keyring THEN storedKey ELSE 0
  /\ inMemory' = IF inMemory = "readBack" THEN (IF setting = 0 THEN "wiped" ELSE "unread")
                 ELSE inMemory
  /\ Activated
  /\ UNCHANGED <<keyring, setting, wanted>>

\* The extension host is restarted, or another window takes over, while the
\* editor and what it holds in memory live on.
HostRestarts ==
  /\ Activated
  /\ UNCHANGED <<storedKey, keyring, setting, wanted, inMemory>>

ApiKeyNext ==
  \/ InitGets \/ InitStores \/ InitClears \/ InitArrives \/ InitRejects
  \/ KeyChanged \/ KeyServed \/ KeyArrives \/ KeyReadFails
  \/ EnterKey \/ ClearKey \/ ClearSetting
  \/ Restart \/ HostRestarts

-------------------------------------------------------------------------------
\* Once the reads have settled, the engine uses the key SecretStorage holds, in
\* whatever order the activation's read and those of the listener came back
\* (keyRefreshSeq; a newest read that failed leaves the previous key, and says so).
KeyIsLatest ==
  keyEvents = 0 /\ keyReads = {} /\ initKey.at = "done" /\ ~ keyLost => apiKey = storedKey

\* A key of the user's settings is not lost by its migration.  As long as the user
\* does not clear it, it stays in the setting, or SecretStorage holds a key that
\* survives the editor (the two-session migration of initApiKey).  The exception:
\* without a keyring a later activation, or a user who entered the same key by
\* hand, makes initApiKey read the key back while the editor still runs.  It takes
\* that for a proof and clears the setting; the key is kept then until the editor
\* quits, and no longer.
KeySurvives ==
  wanted => \/ setting # 0
            \/ storedKey # 0 /\ (keyring \/ inMemory = "readBack")
            \/ inMemory = "wiped"
===============================================================================

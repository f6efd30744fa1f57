------------------------------- MODULE LspTools -------------------------------
(***************************************************************************)
(* The calls of the language tools (mcp/lsp/tools.ts, toolPipeline.ts), by *)
(* the example of lsp_document_symbols, which has all they have: the pool  *)
(* of MAX_IN_FLIGHT slots with its queue, the deadline, the one retry of   *)
(* the first empty result while a language server indexes, and a cache.    *)
(*                                                                         *)
(* There is one document, of one language.  The cache is keyed by its uri, *)
(* holds what other documents leave it, and trusts the version, which an   *)
(* edit counts up and which starts again when the document is closed and   *)
(* opened.  The other tools are the same calls without the cache.          *)
(***************************************************************************)
EXTENDS Integers, Sequences, SequencesExt, FiniteSets

CONSTANTS ToolCalls,   \* calls under way at one time
          MaxInFlight, \* MAX_IN_FLIGHT
          DocTexts,    \* contents of the document
          MaxVersion,  \* bound: edits between an open and a close
          MaxLives     \* bound: times the document is opened

ASSUME LspToolsAssumption ==
  DocTexts # {} /\ {MaxInFlight, MaxVersion, MaxLives} \subseteq Nat \ {0}

VARIABLES toolCall,   \* of each call: where it is, and what it resolved
          poolActive, \* slots taken
          poolQueue,  \* the calls that wait for one
          symbolDoc,   \* [text, version, life]; life counts the times it was opened
          symbols,    \* the cached entry, or NoSymbols
          firstEmpty, \* firstEmptyFired
          nonEmptySeen

lspToolsVars == <<toolCall, poolActive, poolQueue, symbolDoc, symbols, firstEmpty, nonEmptySeen>>

IdleCall == [at |-> "idle", retry |-> FALSE, version |-> 0, life |-> 0]
NoSymbols == [text |-> "none", version |-> 0, life |-> 0]

LspToolsTypeOK ==
  /\ toolCall \in [ToolCalls -> [at : {"idle", "resolve", "queued", "running", "sleep"},
                                 retry : BOOLEAN, version : 0 .. MaxVersion, life : 0 .. MaxLives]]
  /\ poolActive \in 0 .. MaxInFlight
  /\ symbolDoc \in [text : DocTexts, version : 1 .. MaxVersion, life : 1 .. MaxLives]
  /\ symbols = NoSymbols
     \/ symbols \in [text : DocTexts, version : 1 .. MaxVersion, life : 1 .. MaxLives]
  /\ firstEmpty \in BOOLEAN /\ nonEmptySeen \in BOOLEAN

LspToolsInit ==
  /\ toolCall = [c \in ToolCalls |-> IdleCall]
  /\ poolActive = 0 /\ poolQueue = <<>>
  /\ symbolDoc \in [text : DocTexts, version : {1}, life : {1}]
  /\ symbols = NoSymbols /\ firstEmpty = FALSE /\ nonEmptySeen = FALSE

-------------------------------------------------------------------------------
\* The editor and the disk.

EditDocument == \E text \in DocTexts :
  /\ symbolDoc.version < MaxVersion
  /\ symbolDoc' = [symbolDoc EXCEPT !.text = text, !.version = @ + 1]
  /\ UNCHANGED <<toolCall, poolActive, poolQueue, symbols, firstEmpty, nonEmptySeen>>

\* Closed, changed on disk or not, and opened again.
ReopenDocument == \E text \in DocTexts :
  /\ symbolDoc.life < MaxLives
  /\ symbolDoc' = [text |-> text, version |-> 1, life |-> symbolDoc.life + 1]
  /\ UNCHANGED <<toolCall, poolActive, poolQueue, symbols, firstEmpty, nonEmptySeen>>

\* The entries of other documents fill the cache.
EvictSymbols ==
  /\ symbols # NoSymbols /\ symbols' = NoSymbols
  /\ UNCHANGED <<toolCall, poolActive, poolQueue, symbolDoc, firstEmpty, nonEmptySeen>>

-------------------------------------------------------------------------------
\* The pool: run() of a call, and the end of one, which lets the next one in.
\* The calls in the given record are those before the step.

EnterPool(c, calls) ==
  IF poolActive < MaxInFlight
  THEN /\ poolActive' = poolActive + 1 /\ UNCHANGED poolQueue
       /\ toolCall' = [calls EXCEPT ![c].at = "running"]
  ELSE /\ poolQueue' = Append(poolQueue, c) /\ UNCHANGED poolActive
       /\ toolCall' = [calls EXCEPT ![c].at = "queued"]

LeavePool(calls) ==
  IF poolQueue = <<>>
  THEN toolCall' = calls /\ poolActive' = poolActive - 1 /\ UNCHANGED poolQueue
  ELSE /\ toolCall' = [calls EXCEPT ![Head(poolQueue)].at = "running"]
       /\ poolQueue' = Tail(poolQueue) /\ UNCHANGED poolActive

-------------------------------------------------------------------------------
CallTool(c) ==
  /\ toolCall[c].at = "idle"
  /\ toolCall' = [toolCall EXCEPT ![c].at = "resolve"]
  /\ UNCHANGED <<poolActive, poolQueue, symbolDoc, symbols, firstEmpty, nonEmptySeen>>

\* resolvePathArg refuses the path.
PathRefused(c) ==
  /\ toolCall[c].at = "resolve"
  /\ toolCall' = [toolCall EXCEPT ![c] = IdleCall]
  /\ UNCHANGED <<poolActive, poolQueue, symbolDoc, symbols, firstEmpty, nonEmptySeen>>

Cached == symbols # NoSymbols /\ symbols.version = symbolDoc.version

\* The document is open, in its version: served from the cache, or asked for.
PathResolved(c) ==
  /\ toolCall[c].at = "resolve"
  /\ IF Cached
     THEN toolCall' = [toolCall EXCEPT ![c] = IdleCall] /\ UNCHANGED <<poolActive, poolQueue>>
     ELSE EnterPool(c, [toolCall EXCEPT ![c].version = symbolDoc.version, ![c].life = symbolDoc.life])
  /\ UNCHANGED <<symbolDoc, symbols, firstEmpty, nonEmptySeen>>

\* The entry of a call: the symbols of the text of now, under what was resolved.
Entry(c) ==
  [text |-> symbolDoc.text, version |-> toolCall[c].version, life |-> toolCall[c].life]

SymbolsFound(c) ==
  /\ toolCall[c].at = "running"
  /\ symbols' = Entry(c) /\ nonEmptySeen' = TRUE
  /\ LeavePool([toolCall EXCEPT ![c] = IdleCall])
  /\ UNCHANGED <<symbolDoc, firstEmpty>>

\* No symbols: the first time a language says so it is asked once more.
NothingFound(c) ==
  /\ toolCall[c].at = "running"
  /\ LET again == ~ toolCall[c].retry /\ ~ nonEmptySeen /\ ~ firstEmpty
     IN LeavePool([toolCall EXCEPT ![c] = IF again THEN [@ EXCEPT !.at = "sleep", !.retry = TRUE]
                                          ELSE IdleCall])
  /\ firstEmpty' = (firstEmpty \/ ~ nonEmptySeen)
  /\ UNCHANGED <<symbolDoc, symbols, nonEmptySeen>>

\* Mutant: a call that fails keeps its slot.
CallFailsInSlot(c) ==
  /\ toolCall[c].at = "running"
  /\ toolCall' = [toolCall EXCEPT ![c] = IdleCall]
  /\ UNCHANGED <<poolActive, poolQueue, symbolDoc, symbols, firstEmpty, nonEmptySeen>>

\* The deadline passes, or the gateway rejects.
CallFails(c) ==
  /\ toolCall[c].at = "running"
  /\ LeavePool([toolCall EXCEPT ![c] = IdleCall])
  /\ UNCHANGED <<symbolDoc, symbols, firstEmpty, nonEmptySeen>>

RetryCall(c) ==
  /\ toolCall[c].at = "sleep"
  /\ EnterPool(c, toolCall)
  /\ UNCHANGED <<symbolDoc, symbols, firstEmpty, nonEmptySeen>>

LspToolsNext ==
  \/ EditDocument \/ ReopenDocument \/ EvictSymbols
  \/ \E c \in ToolCalls :
       \/ CallTool(c) \/ PathRefused(c) \/ PathResolved(c)
       \/ SymbolsFound(c) \/ NothingFound(c) \/ CallFails(c) \/ RetryCall(c)

LspToolsSpec == LspToolsInit /\ [][LspToolsNext]_lspToolsVars

-------------------------------------------------------------------------------
\* The pool loses no slot and lets nobody wait for a free one, in the order the
\* calls came; and symbols that would be served from the cache are those of the
\* text as it is, unless the document was opened anew after their call resolved
\* it, although calls wait for slots and sleep while the document is edited
\* (toolPipeline.ts:235-290, tools.ts:870-935).
SymbolsAreCurrent ==
  /\ poolActive = Cardinality({c \in ToolCalls : toolCall[c].at = "running"})
  /\ poolQueue # <<>> => poolActive = MaxInFlight
  /\ Range(poolQueue) = {c \in ToolCalls : toolCall[c].at = "queued"}
  /\ Cached /\ symbols.life = symbolDoc.life => symbols.text = symbolDoc.text
===============================================================================

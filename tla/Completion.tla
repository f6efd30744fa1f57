------------------------------ MODULE Completion ------------------------------
(***************************************************************************)
(* Inline completion (autocomplete): the provider (provider.ts) over an    *)
(* engine (engine.ts) with its debouncer and cache (debouncer.ts,          *)
(* cache.ts), which the activation rebuilds (index.ts, module ApiKey).     *)
(*                                                                         *)
(* A document is the text before the cursor and a context: the file, its   *)
(* language, the text after the cursor and the snippets, which is what     *)
(* contextKey folds.  VS Code cancels the token of a request when the      *)
(* document changes, and may cancel it for reasons of its own.  Prompts,   *)
(* pruning, brackets and the shape of the inserted range are left out, as  *)
(* are requests made while the IntelliSense widget is open.                *)
(***************************************************************************)
EXTENDS Naturals, Sequences, SequencesExt

CONSTANTS Chars,        \* what the user types
          Texts,        \* what the model completes
          Contexts,     \* contexts of a document
          Blocked,      \* those that checkEgress blocks
          Capacity,     \* entries of a cache
          MaxTyped,     \* bound: characters before the cursor
          MaxRequests,  \* bound: requests of VS Code
          MaxEngines    \* bound: engines built

ASSUME CompletionAssumption ==
  /\ Texts \subseteq Seq(Chars) /\ <<>> \notin Texts
  /\ Blocked \subseteq Contexts /\ Capacity \in Nat \ {0} /\ MaxTyped \in Nat
  /\ MaxRequests \in Nat /\ MaxEngines \in Nat \ {0}

VARIABLES document,   \* the active document: context and text before the cursor
          requests,   \* the calls of provideInlineCompletionItems under way
          asked,      \* calls so far
          engines,    \* the engines built, the last one current: sequence and cache
          offered,    \* the item VS Code shows, and the engine it came from
          surfaced,   \* onceRegistry holds the actionable failure
          answers     \* history: what the backend completed

completionVars == <<document, requests, asked, engines, offered, surfaced, answers>>

Documents == [context : Contexts, prefix : SeqOf(Chars, MaxTyped)]
NoItem == [engine |-> 0, doc |-> [context |-> "", prefix |-> <<>>], text |-> <<>>]
NewEngine == [sequence |-> 0, cache |-> <<>>]
Current == Len(engines)

CompletionTypeOK ==
  /\ document \in Documents
  /\ requests \subseteq [number : 1 .. asked, state : {"debounce", "stream"}, doc : Documents,
                         engine : 1 .. MaxEngines, sequence : 0 .. asked, aborted : BOOLEAN]
  /\ \A g \in 1 .. Current :
       /\ engines[g].sequence \in 0 .. MaxRequests
       /\ Len(engines[g].cache) <= Capacity
  /\ Current \in 1 .. MaxEngines /\ asked \in 0 .. MaxRequests
  /\ surfaced \in BOOLEAN

CompletionInit ==
  /\ document \in [context : Contexts, prefix : {<<>>}]
  /\ requests = {} /\ asked = 0 /\ engines = <<NewEngine>> /\ offered = NoItem
  /\ surfaced = FALSE /\ answers = {}

-------------------------------------------------------------------------------
\* The cache of one engine, oldest entry first.

Matches(cache, doc) ==
  {n \in DOMAIN cache : cache[n].context = doc.context /\ IsPrefix(cache[n].prefix, doc.prefix)}

\* The match with the longest prefix, 0 if there is none.
Best(cache, doc) ==
  IF Matches(cache, doc) = {} THEN 0
  ELSE CHOOSE n \in Matches(cache, doc) :
         \A k \in Matches(cache, doc) : Len(cache[k].prefix) <= Len(cache[n].prefix)

Remainder(entry, doc) == SubSeq(doc.prefix, Len(entry.prefix) + 1, Len(doc.prefix))

\* Mutant: what the user typed since is not compared with the stored text.
HitAnyway(cache, doc) ==
  /\ doc.prefix # <<>> /\ Best(cache, doc) # 0
  /\ Len(Remainder(cache[Best(cache, doc)], doc)) <= Len(cache[Best(cache, doc)].value)

Hit(cache, doc) ==
  /\ doc.prefix # <<>> /\ Best(cache, doc) # 0
  /\ IsPrefix(Remainder(cache[Best(cache, doc)], doc), cache[Best(cache, doc)].value)

Served(cache, doc) ==
  LET entry == cache[Best(cache, doc)]
  IN SubSeq(entry.value, Len(Remainder(entry, doc)) + 1, Len(entry.value))

\* A hit is the most recent entry afterwards.
Touched(cache, n) == Append(RemoveAt(cache, n), cache[n])

\* The Map forgets its entry of the same context and prefix, if it has one.
SameKey(cache, doc) ==
  {n \in DOMAIN cache : cache[n].context = doc.context /\ cache[n].prefix = doc.prefix}

Without(cache, doc) ==
  IF SameKey(cache, doc) = {} THEN cache
  ELSE RemoveAt(cache, CHOOSE n \in SameKey(cache, doc) : TRUE)

Put(cache, doc, text) ==
  IF doc.prefix = <<>> THEN cache
  ELSE LET all == Append(Without(cache, doc),
                         [context |-> doc.context, prefix |-> doc.prefix, value |-> text])
       IN IF Len(all) > Capacity THEN Tail(all) ELSE all

-------------------------------------------------------------------------------
\* VS Code and the user.

\* A change of the document cancels the tokens and takes the ghost away.
Edited(doc) ==
  /\ document' = doc
  /\ requests' = {[req EXCEPT !.aborted = TRUE] : req \in requests}
  /\ offered' = NoItem
  /\ UNCHANGED <<asked, engines, surfaced, answers>>

Type == \E c \in Chars :
  /\ Len(document.prefix) < MaxTyped
  /\ Edited([document EXCEPT !.prefix = Append(@, c)])

Delete == document.prefix # <<>> /\ Edited([document EXCEPT !.prefix = Front(@)])

OtherContext == \E c \in Contexts \ {document.context} : Edited([document EXCEPT !.context = c])

CancelToken(req) ==
  /\ ~ req.aborted
  /\ requests' = (requests \ {req}) \cup {[req EXCEPT !.aborted = TRUE]}
  /\ UNCHANGED <<document, asked, engines, offered, surfaced, answers>>

-------------------------------------------------------------------------------
\* One request.

\* The tail of provideInlineCompletionItems: an outcome is shown unless the
\* token was cancelled.
Offer(req, text) ==
  offered' = IF text = <<>> \/ req.aborted THEN offered
             ELSE [engine |-> req.engine, doc |-> req.doc, text |-> text]

\* complete() past the debounce: a cached answer, a document that must not be
\* sent, or the stream.
Consults(req, others) ==
  LET cache == engines[req.engine].cache
  IN \/ /\ Hit(cache, req.doc)
        /\ requests' = others
        /\ engines' = [engines EXCEPT ![req.engine].cache = Touched(@, Best(@, req.doc))]
        /\ Offer(req, Served(cache, req.doc))
     \/ /\ ~ Hit(cache, req.doc)
        /\ requests' = IF req.doc.context \in Blocked THEN others
                       ELSE others \cup {[req EXCEPT !.state = "stream"]}
        /\ UNCHANGED <<engines, offered>>

NewRequest(sequence) ==
  [number |-> asked + 1, state |-> "debounce", doc |-> document, engine |-> Current,
   sequence |-> sequence, aborted |-> FALSE]

\* provideInlineCompletionItems for an automatic trigger that passes the gates
\* (the others change nothing): the request debounces.
ProvideTyped ==
  /\ asked < MaxRequests /\ asked' = asked + 1
  /\ engines' = [engines EXCEPT ![Current].sequence = @ + 1]
  /\ requests' = requests \cup {NewRequest(engines'[Current].sequence)}
  /\ UNCHANGED <<document, offered, surfaced, answers>>

\* An explicit trigger skips the debounce.
ProvideManual ==
  /\ asked < MaxRequests /\ asked' = asked + 1
  /\ Consults(NewRequest(0), requests)
  /\ UNCHANGED <<document, surfaced, answers>>

\* The timer of delayAndShouldDebounce: only the newest request of its engine
\* goes on.
DebounceFires(req) ==
  /\ req.state = "debounce"
  /\ \/ /\ req.aborted \/ req.sequence # engines[req.engine].sequence
        /\ requests' = requests \ {req}
        /\ UNCHANGED <<engines, offered>>
     \/ /\ ~ req.aborted /\ req.sequence = engines[req.engine].sequence
        /\ Consults(req, requests \ {req})
  /\ UNCHANGED <<document, asked, surfaced, answers>>

\* The stream ends with a text, which is stored and offered unless the signal is
\* aborted.
StreamEnds(req, text) ==
  /\ req.state = "stream"
  /\ requests' = requests \ {req}
  /\ IF req.aborted \/ text = <<>>
     THEN UNCHANGED <<engines, answers, offered>>
     ELSE /\ engines' = [engines EXCEPT ![req.engine].cache = Put(@, req.doc, text)]
          /\ answers' = answers \cup {[engine |-> req.engine, doc |-> req.doc, text |-> text]}
          /\ Offer(req, text)
  /\ UNCHANGED <<document, asked, surfaced>>

\* surfaceCompletionFailure: the first actionable failure warns, the others and
\* those that are not actionable are silent.
StreamFails(req, actionable) ==
  /\ req.state = "stream"
  /\ requests' = requests \ {req}
  /\ surfaced' = (surfaced \/ actionable)
  /\ UNCHANGED <<document, asked, engines, offered, answers>>

\* The command behind the warning (Set API Key) fails, which arms it again.
CommandFails ==
  /\ surfaced /\ surfaced' = FALSE
  /\ UNCHANGED <<document, requests, asked, engines, offered, answers>>

\* The settings or the key changed, or the key arrived: rebuild() makes a new
\* engine, with a debouncer and a cache of its own.
Rebuild ==
  /\ Current < MaxEngines /\ engines' = Append(engines, NewEngine)
  /\ UNCHANGED <<document, requests, asked, offered, surfaced, answers>>

CompletionNext ==
  \/ Type \/ Delete \/ OtherContext \/ ProvideTyped \/ ProvideManual \/ CommandFails \/ Rebuild
  \/ \E req \in requests :
       \/ CancelToken(req) \/ DebounceFires(req)
       \/ \E text \in Texts \cup {<<>>} : StreamEnds(req, text)
       \/ \E actionable \in BOOLEAN : StreamFails(req, actionable)

-------------------------------------------------------------------------------
\* The item on the screen belongs to the document as it is, and continues it as
\* the backend of the same engine once answered for the same context
\* (cache.ts:41-65, engine.ts:141-146, provider.ts:596-603).
ShownContinues ==
  offered # NoItem =>
    /\ offered.doc = document
    /\ \E a \in answers :
         /\ a.engine = offered.engine /\ a.doc.context = document.context
         /\ a.doc.prefix \o a.text = document.prefix \o offered.text
===============================================================================

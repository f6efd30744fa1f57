----------------------------- MODULE Editor_proofs -----------------------------
(***************************************************************************)
(* Theorems about the components of MCServices that work on a text of the  *)
(* user: the inline completion, the next edit, and the one-shot call that  *)
(* writes into the commit box.  As in Services_proofs each has an          *)
(* inductive invariant of its own.                                         *)
(***************************************************************************)
EXTENDS MCServices, SequenceTheorems, WellFoundedInduction, TLAPS

-------------------------------------------------------------------------------
\* A set of naturals has a least element, and one that is bounded a greatest.

LEMMA LeastNatural ==
  ASSUME NEW T, T \subseteq Nat, T # {}
  PROVE  \E m \in T : \A k \in T : m <= k
<1>1. PICK m \in T : \A k \in T : <<k, m>> \notin OpToRel(<, Nat)
  BY NatLessThanWellFounded, WFMin
<1>2. \A k \in T : ~ (k < m)
  BY <1>1 DEF OpToRel
<1> QED BY <1>2

LEMMA GreatestNatural ==
  ASSUME NEW T, T \subseteq Nat, T # {}, NEW b \in Nat, \A k \in T : k <= b
  PROVE  \E m \in T : \A k \in T : k <= m
<1> DEFINE D == {b - k : k \in T}
<1>1. D \subseteq Nat /\ D # {}
  <2>1. \A k \in T : b - k \in Nat
    OBVIOUS
  <2> QED BY <2>1
<1>2. PICK d \in D : \A e \in D : d <= e
  BY <1>1, LeastNatural
<1>3. PICK m \in T : d = b - m
  OBVIOUS
<1>4. \A k \in T : b - m <= b - k
  BY <1>2, <1>3
<1> QED BY <1>4

-------------------------------------------------------------------------------
\* The inline completion.

LEMMA CompletionSteps == Next => [CompletionNext]_completionVars
<1> SUFFICES ASSUME Next, ~ UNCHANGED completionVars PROVE CompletionNext
  OBVIOUS
<1> QED BY DEF Next, Only

Docs == [context : Contexts, prefix : Seq(Chars)]
Entries == [context : Contexts, prefix : Seq(Chars), value : Seq(Chars)]
CompletionCalls == [number : Nat, state : {"debounce", "stream"}, doc : Docs,
             engine : Nat, sequence : Nat, aborted : BOOLEAN]

CompletionTypes ==
  /\ document \in Docs /\ asked \in Nat
  /\ requests \subseteq CompletionCalls
  /\ \A req \in requests : req.engine \in 1 .. Current
  /\ engines \in Seq([sequence : Nat, cache : Seq(Entries)]) /\ Current # 0

\* A request that is not cancelled is about the document as it is.
UncancelledIsCurrent == \A req \in requests : req.aborted \/ req.doc = document

\* What an engine keeps, its backend once answered.
KeptIsAnswered ==
  \A g \in 1 .. Current : \A n \in DOMAIN engines[g].cache :
    LET e == engines[g].cache[n]
    IN [engine |-> g, doc |-> [context |-> e.context, prefix |-> e.prefix], text |-> e.value]
         \in answers

CompletionInv == CompletionTypes /\ UncancelledIsCurrent /\ KeptIsAnswered /\ ShownContinues

\* A sequence with a prefix is the prefix and the rest.
LEMMA PrefixSplits ==
  ASSUME NEW S, NEW s \in Seq(S), NEW t \in Seq(S), IsPrefix(s, t)
  PROVE  /\ SubSeq(t, Len(s) + 1, Len(t)) \in Seq(S)
         /\ t = s \o SubSeq(t, Len(s) + 1, Len(t))
<1> DEFINE r == SubSeq(t, Len(s) + 1, Len(t))
<1>1. Len(s) <= Len(t) /\ SubSeq(s, 1, Len(s)) = SubSeq(t, 1, Len(s))
  BY DEF IsPrefix
<1>2. r \in Seq(S) /\ Len(r) = Len(t) - Len(s) /\ \A i \in 1 .. Len(r) : r[i] = t[Len(s) + i]
  BY <1>1
<1>3. \A i \in 1 .. Len(s) : s[i] = t[i]
  <2> TAKE i \in 1 .. Len(s)
  <2>1. SubSeq(s, 1, Len(s))[i] = s[i] /\ SubSeq(t, 1, Len(s))[i] = t[i]
    BY <1>1
  <2> QED BY <1>1, <2>1
<1> HIDE DEF r
<1>4. s \o r \in Seq(S) /\ Len(s \o r) = Len(t)
  BY <1>1, <1>2
<1>5. ASSUME NEW i \in 1 .. Len(t) PROVE (s \o r)[i] = t[i]
  <2>1. CASE i <= Len(s)
    BY <1>2, <1>3, <2>1
  <2>2. CASE i > Len(s)
    <3>1. i - Len(s) \in 1 .. Len(r)
      BY <1>1, <1>2, <2>2
    <3>2. (s \o r)[i] = r[i - Len(s)]
      BY <1>2, <1>4, <2>2
    <3> QED BY <1>2, <3>1, <3>2
  <2>3. i <= Len(s) \/ i > Len(s)
    OBVIOUS
  <2> QED BY <2>1, <2>2, <2>3
<1>6. t = s \o r
  BY <1>4, <1>5, SeqEqual
<1> QED BY <1>2, <1>6 DEF r

\* The longest match is one of the matches.
LEMMA BestMatches ==
  ASSUME NEW cache \in Seq(Entries), NEW doc \in Docs, Best(cache, doc) # 0
  PROVE  Best(cache, doc) \in Matches(cache, doc)
<1> DEFINE L == {Len(cache[n].prefix) : n \in Matches(cache, doc)}
<1>1. Matches(cache, doc) # {}
  BY DEF Best
<1>2. \A n \in Matches(cache, doc) : Len(cache[n].prefix) \in Nat
                                      /\ Len(cache[n].prefix) <= Len(doc.prefix)
  BY DEF Matches, Entries, IsPrefix
<1>3. L \subseteq Nat /\ L # {} /\ \A k \in L : k <= Len(doc.prefix)
  BY <1>1, <1>2
<1>4. Len(doc.prefix) \in Nat
  BY DEF Docs
<1>5. PICK m \in L : \A k \in L : k <= m
  <2> HIDE DEF L
  <2> QED BY <1>3, <1>4, GreatestNatural
<1>6. \E n \in Matches(cache, doc) :
        \A k \in Matches(cache, doc) : Len(cache[k].prefix) <= Len(cache[n].prefix)
  BY <1>5
<1> QED BY <1>1, <1>6 DEF Best

\* What a hit serves continues the document as the stored answer did.
LEMMA HitContinues ==
  ASSUME NEW cache \in Seq(Entries), NEW doc \in Docs, Hit(cache, doc)
  PROVE  /\ Best(cache, doc) \in DOMAIN cache
         /\ cache[Best(cache, doc)].context = doc.context
         /\ cache[Best(cache, doc)].prefix \o cache[Best(cache, doc)].value
              = doc.prefix \o Served(cache, doc)
<1> DEFINE e == cache[Best(cache, doc)]
           r == Remainder(e, doc)
<1>1. /\ Best(cache, doc) \in DOMAIN cache /\ e.context = doc.context
      /\ IsPrefix(e.prefix, doc.prefix)
  BY BestMatches DEF Hit, Matches
<1>2. e.prefix \in Seq(Chars) /\ e.value \in Seq(Chars) /\ doc.prefix \in Seq(Chars)
  <2>1. e \in Entries
    BY <1>1
  <2> QED BY <2>1 DEF Entries, Docs
<1>3. IsPrefix(r, e.value)
  BY DEF Hit
<1> HIDE DEF e
<1>4. r \in Seq(Chars) /\ doc.prefix = e.prefix \o r
  BY <1>1, <1>2, PrefixSplits DEF Remainder
<1>5. /\ SubSeq(e.value, Len(r) + 1, Len(e.value)) \in Seq(Chars)
      /\ e.value = r \o SubSeq(e.value, Len(r) + 1, Len(e.value))
  <2> HIDE DEF r
  <2> QED BY <1>2, <1>3, <1>4, PrefixSplits
<1>6. Served(cache, doc) \in Seq(Chars) /\ e.value = r \o Served(cache, doc)
  BY <1>5 DEF Served, e
<1>7. (e.prefix \o r) \o Served(cache, doc) = e.prefix \o (r \o Served(cache, doc))
  <2> HIDE DEF r
  <2>1. e.prefix \in Seq(Chars) /\ r \in Seq(Chars) /\ Served(cache, doc) \in Seq(Chars)
    BY <1>2, <1>4, <1>6
  <2>2. \A x, y, z \in Seq(Chars) : (x \o y) \o z = x \o (y \o z)
    BY ConcatAssociative
  <2> QED BY <2>1, <2>2
<1>8. e.prefix \o e.value = doc.prefix \o Served(cache, doc)
  <2> HIDE DEF r
  <2> QED BY <1>4, <1>6, <1>7
<1> QED BY <1>1, <1>8 DEF e

\* What is left when one entry goes, and what a touch and a put make of a cache.
LEMMA RemovedKeeps ==
  ASSUME NEW S, NEW s \in Seq(S), NEW n \in DOMAIN s
  PROVE  /\ RemoveAt(s, n) \in Seq(S)
         /\ \A i \in DOMAIN RemoveAt(s, n) : \E k \in DOMAIN s : RemoveAt(s, n)[i] = s[k]
<1> DEFINE a == SubSeq(s, 1, n - 1)
           b == SubSeq(s, n + 1, Len(s))
<1>1. n \in 1 .. Len(s)
  OBVIOUS
<1>2. a \in Seq(S) /\ Len(a) = n - 1 /\ \A i \in 1 .. n - 1 : a[i] = s[i]
  BY <1>1
<1>3. b \in Seq(S) /\ Len(b) = Len(s) - n /\ \A i \in 1 .. Len(s) - n : b[i] = s[n + i]
  BY <1>1
<1>4. RemoveAt(s, n) = a \o b
  BY DEF RemoveAt
<1> HIDE DEF a, b
<1>5. a \o b \in Seq(S) /\ Len(a \o b) = Len(s) - 1
  BY <1>1, <1>2, <1>3
<1>6. ASSUME NEW i \in DOMAIN (a \o b) PROVE \E k \in DOMAIN s : (a \o b)[i] = s[k]
  <2>1. i \in 1 .. Len(s) - 1
    BY <1>5
  <2>2. CASE i <= n - 1
    <3>1. (a \o b)[i] = a[i] /\ i \in 1 .. n - 1
      BY <1>1, <1>2, <1>3, <2>1, <2>2
    <3> QED BY <1>1, <1>2, <3>1
  <2>3. CASE i > n - 1
    <3>1. i - (n - 1) \in 1 .. Len(s) - n
      BY <1>1, <2>1, <2>3
    <3>2. (a \o b)[i] = b[i - (n - 1)]
      BY <1>1, <1>2, <1>3, <2>1, <2>3
    <3>3. (a \o b)[i] = s[n + (i - (n - 1))]
      BY <1>3, <3>1, <3>2
    <3>4. n + (i - (n - 1)) \in 1 .. Len(s)
      BY <1>1, <2>1, <2>3
    <3> QED BY <1>1, <3>3, <3>4
  <2>4. i <= n - 1 \/ i > n - 1
    BY <1>1, <2>1
  <2> QED BY <2>2, <2>3, <2>4
<1> QED BY <1>4, <1>5, <1>6

LEMMA AppendedKeeps ==
  ASSUME NEW S, NEW s \in Seq(S), NEW e \in S
  PROVE  /\ Append(s, e) \in Seq(S)
         /\ \A i \in DOMAIN Append(s, e) :
              Append(s, e)[i] = e \/ \E k \in DOMAIN s : Append(s, e)[i] = s[k]
<1>1. \A i \in 1 .. Len(s) + 1 : (i \in 1 .. Len(s) /\ Append(s, e)[i] = s[i]) \/ Append(s, e)[i] = e
  OBVIOUS
<1> QED BY <1>1

LEMMA TouchedKeeps ==
  ASSUME NEW cache \in Seq(Entries), NEW n \in DOMAIN cache
  PROVE  /\ Touched(cache, n) \in Seq(Entries)
         /\ \A i \in DOMAIN Touched(cache, n) :
              \E k \in DOMAIN cache : Touched(cache, n)[i] = cache[k]
<1>1. cache[n] \in Entries
  OBVIOUS
<1>2. /\ RemoveAt(cache, n) \in Seq(Entries)
      /\ \A i \in DOMAIN RemoveAt(cache, n) : \E k \in DOMAIN cache : RemoveAt(cache, n)[i] = cache[k]
  BY RemovedKeeps
<1> QED BY <1>1, <1>2, AppendedKeeps DEF Touched

LEMMA PutKeeps ==
  ASSUME NEW cache \in Seq(Entries), NEW doc \in Docs, NEW txt \in Seq(Chars)
  PROVE  LET new == [context |-> doc.context, prefix |-> doc.prefix, value |-> txt]
         IN /\ Put(cache, doc, txt) \in Seq(Entries)
            /\ \A i \in DOMAIN Put(cache, doc, txt) :
                 \/ Put(cache, doc, txt)[i] = new
                 \/ \E k \in DOMAIN cache : Put(cache, doc, txt)[i] = cache[k]
<1> DEFINE new == [context |-> doc.context, prefix |-> doc.prefix, value |-> txt]
           w == Without(cache, doc)
           all == Append(w, new)
<1>1. new \in Entries
  BY DEF Entries, Docs
<1>2. w \in Seq(Entries) /\ \A i \in DOMAIN w : \E k \in DOMAIN cache : w[i] = cache[k]
  <2>1. CASE SameKey(cache, doc) = {}
    BY <2>1 DEF Without
  <2>2. CASE SameKey(cache, doc) # {}
    <3>1. PICK n \in DOMAIN cache : w = RemoveAt(cache, n)
      BY <2>2 DEF Without, SameKey
    <3> QED BY <3>1, RemovedKeeps
  <2> QED BY <2>1, <2>2
<1> HIDE DEF new, w
<1>3. /\ all \in Seq(Entries) /\ all # << >>
      /\ \A i \in DOMAIN all : all[i] = new \/ \E k \in DOMAIN w : all[i] = w[k]
  <2>1. all # << >>
    BY <1>1, <1>2
  <2>2. \A s \in Seq(Entries), e \in Entries :
          /\ Append(s, e) \in Seq(Entries)
          /\ \A i \in DOMAIN Append(s, e) :
               Append(s, e)[i] = e \/ \E k \in DOMAIN s : Append(s, e)[i] = s[k]
    BY AppendedKeeps
  <2> QED BY <1>1, <1>2, <2>1, <2>2
<1>4. Put(cache, doc, txt) \in {cache, all, Tail(all)}
  BY DEF Put, new, w
<1> HIDE DEF all
<1>5. Tail(all) \in Seq(Entries) /\ \A i \in DOMAIN Tail(all) : \E k \in DOMAIN all : Tail(all)[i] = all[k]
  <2>1. Tail(all) \in Seq(Entries) /\ Len(Tail(all)) = Len(all) - 1
    BY <1>3
  <2>2. \A i \in 1 .. Len(all) - 1 : i + 1 \in 1 .. Len(all) /\ Tail(all)[i] = all[i + 1]
    BY <1>3
  <2> QED BY <1>3, <2>1, <2>2
<1>6. CASE Put(cache, doc, txt) = cache
  BY <1>6 DEF new
<1>7. CASE Put(cache, doc, txt) = all
  BY <1>2, <1>3, <1>7 DEF new
<1>8. CASE Put(cache, doc, txt) = Tail(all)
  <2>1. \A i \in DOMAIN Tail(all) : Tail(all)[i] = new \/ \E k \in DOMAIN cache : Tail(all)[i] = cache[k]
    BY <1>2, <1>3, <1>5
  <2> QED BY <1>5, <1>8, <2>1 DEF new
<1> QED BY <1>4, <1>6, <1>7, <1>8

\* An engine that keeps something else keeps what its backend answered as long
\* as each entry was kept before or is answered now.
LEMMA CacheReplaced ==
  ASSUME CompletionTypes, NEW g \in 1 .. Current, NEW c \in Seq(Entries),
         engines' = [engines EXCEPT ![g].cache = c]
  PROVE  /\ engines' \in Seq([sequence : Nat, cache : Seq(Entries)])
         /\ Len(engines') = Len(engines) /\ engines'[g].cache = c
         /\ \A h \in 1 .. Current : h # g => engines'[h] = engines[h]
<1> DEFINE S == [sequence : Nat, cache : Seq(Entries)]
           new == [sequence |-> engines[g].sequence, cache |-> c]
<1>1. engines \in Seq(S) /\ g \in 1 .. Len(engines)
  BY DEF CompletionTypes, Current
<1>2. engines[g] \in S
  <2> HIDE DEF S
  <2> QED BY <1>1
<1>3. new \in S
  BY <1>2
<1>4. [engines[g] EXCEPT !.cache = c] = new
  BY <1>2
<1>5. engines' = [engines EXCEPT ![g] = new]
  BY <1>1, <1>4
<1>6. new.cache = c
  OBVIOUS
<1> HIDE DEF S, new
<1>7. /\ engines' \in Seq(S) /\ Len(engines') = Len(engines) /\ engines'[g] = new
      /\ \A h \in 1 .. Len(engines) : h # g => engines'[h] = engines[h]
  BY <1>1, <1>3, <1>5
<1> QED BY <1>6, <1>7 DEF Current, S

LEMMA CompletionStarts == Init => CompletionInv
<1> SUFFICES ASSUME CompletionInit PROVE CompletionInv
  BY DEF Init
<1>1. document \in Docs
  <2>1. document \in [context : Contexts, prefix : {<< >>}] /\ << >> \in Seq(Chars)
    BY DEF CompletionInit
  <2> QED BY <2>1 DEF Docs
<1>2. CompletionTypes
  <2>1. NewEngine \in [sequence : Nat, cache : Seq(Entries)]
    BY DEF NewEngine
  <2> QED BY <1>1, <2>1 DEF CompletionInit, CompletionTypes, Current
<1>3. UncancelledIsCurrent /\ ShownContinues
  BY DEF CompletionInit, UncancelledIsCurrent, ShownContinues
<1>4. KeptIsAnswered
  <2>1. Current = 1 /\ engines[1].cache = << >>
    BY DEF CompletionInit, Current, NewEngine
  <2> QED BY <2>1 DEF KeptIsAnswered
<1> QED BY <1>2, <1>3, <1>4 DEF CompletionInv

LEMMA EditedKeeps ==
  ASSUME CompletionInv, NEW doc \in Docs, Edited(doc)
  PROVE  CompletionInv'
<1>1. CompletionTypes'
  <2>1. \A req \in CompletionCalls : [req EXCEPT !.aborted = TRUE] \in CompletionCalls
                                     /\ [req EXCEPT !.aborted = TRUE].engine = req.engine
    BY DEF CompletionCalls
  <2> QED BY <2>1 DEF CompletionInv, CompletionTypes, Edited, Current
<1>2. UncancelledIsCurrent'
  <2>1. \A req \in CompletionCalls : [req EXCEPT !.aborted = TRUE].aborted
    BY DEF CompletionCalls
  <2> QED BY <2>1 DEF CompletionInv, CompletionTypes, UncancelledIsCurrent, Edited
<1>3. KeptIsAnswered'
  BY DEF CompletionInv, KeptIsAnswered, Edited, Current
<1>4. ShownContinues'
  BY DEF ShownContinues, Edited
<1> QED BY <1>1, <1>2, <1>3, <1>4 DEF CompletionInv

\* The typing of a character, the deletion of one and the change of file edit.
LEMMA UserKeeps ==
  ASSUME CompletionInv, Type \/ Delete \/ OtherContext
  PROVE  CompletionInv'
<1>1. document \in Docs
  BY DEF CompletionInv, CompletionTypes
<1>2. CASE Type
  <2>1. PICK c \in Chars : Edited([document EXCEPT !.prefix = Append(@, c)])
    BY <1>2 DEF Type
  <2>2. [document EXCEPT !.prefix = Append(@, c)] \in Docs
    BY <1>1 DEF Docs
  <2>3. PICK doc \in Docs : doc = [document EXCEPT !.prefix = Append(@, c)]
    BY <2>2
  <2>4. Edited(doc)
    BY <2>1, <2>3
  <2> QED BY <2>4, EditedKeeps
<1>3. CASE Delete
  <2>1. document.prefix # << >> /\ Edited([document EXCEPT !.prefix = Front(@)])
    BY <1>3 DEF Delete
  <2>2. Front(document.prefix) \in Seq(Chars)
    <3>1. document.prefix \in Seq(Chars) /\ Len(document.prefix) > 0
      BY <1>1, <2>1 DEF Docs
    <3> QED BY <3>1 DEF Front
  <2>3. [document EXCEPT !.prefix = Front(@)] \in Docs
    BY <1>1, <2>2 DEF Docs
  <2>4. PICK doc \in Docs : doc = [document EXCEPT !.prefix = Front(@)]
    BY <2>3
  <2>5. Edited(doc)
    BY <2>1, <2>4
  <2> QED BY <2>5, EditedKeeps
<1>4. CASE OtherContext
  <2>1. PICK c \in Contexts : Edited([document EXCEPT !.context = c])
    BY <1>4 DEF OtherContext
  <2>2. [document EXCEPT !.context = c] \in Docs
    BY <1>1 DEF Docs
  <2>3. PICK doc \in Docs : doc = [document EXCEPT !.context = c]
    BY <2>2
  <2>4. Edited(doc)
    BY <2>1, <2>3
  <2> QED BY <2>4, EditedKeeps
<1> QED BY <1>2, <1>3, <1>4

LEMMA EnginesKeep ==
  ASSUME CompletionTypes
  PROVE  \A g \in 1 .. Current :
           /\ engines[g] \in [sequence : Nat, cache : Seq(Entries)]
           /\ engines[g].cache \in Seq(Entries) /\ engines[g].sequence \in Nat
<1> DEFINE S == [sequence : Nat, cache : Seq(Entries)]
<1>1. engines \in Seq(S)
  BY DEF CompletionTypes
<1>2. \A e \in S : e.cache \in Seq(Entries) /\ e.sequence \in Nat
  OBVIOUS
<1> HIDE DEF S
<1>3. \A g \in 1 .. Current : engines[g] \in S
  BY <1>1 DEF Current
<1> QED BY <1>2, <1>3 DEF S

\* What is kept stays answered when one cache becomes c.
LEMMA KeptStays ==
  ASSUME CompletionTypes, KeptIsAnswered, NEW g \in 1 .. Current, NEW c \in Seq(Entries),
         engines' = [engines EXCEPT ![g].cache = c], answers \subseteq answers',
         \A i \in DOMAIN c :
           \/ \E k \in DOMAIN engines[g].cache : c[i] = engines[g].cache[k]
           \/ [engine |-> g, doc |-> [context |-> c[i].context, prefix |-> c[i].prefix],
               text |-> c[i].value] \in answers'
  PROVE  KeptIsAnswered'
<1>1. /\ Len(engines') = Len(engines) /\ engines'[g].cache = c
      /\ \A h \in 1 .. Current : h # g => engines'[h] = engines[h]
  BY CacheReplaced
<1> SUFFICES ASSUME NEW h \in 1 .. Current, NEW n \in DOMAIN engines'[h].cache
             PROVE  [engine |-> h,
                     doc |-> [context |-> engines'[h].cache[n].context,
                              prefix |-> engines'[h].cache[n].prefix],
                     text |-> engines'[h].cache[n].value] \in answers'
  BY <1>1 DEF KeptIsAnswered, Current
<1>2. CASE h # g
  BY <1>1, <1>2 DEF KeptIsAnswered
<1>3. CASE h = g
  BY <1>1, <1>3 DEF KeptIsAnswered
<1> QED BY <1>2, <1>3

\* complete() past the debounce, for a request of an engine that was built.
LEMMA ConsultsKeeps ==
  ASSUME CompletionInv, NEW req \in CompletionCalls, req.engine \in 1 .. Current,
         req.aborted \/ req.doc = document, NEW others \in SUBSET CompletionCalls,
         \A r \in others : r.engine \in 1 .. Current /\ (r.aborted \/ r.doc = document),
         Consults(req, others), asked' \in Nat, UNCHANGED <<document, answers>>
  PROVE  CompletionInv'
<1> DEFINE cache == engines[req.engine].cache
<1>1. CompletionTypes /\ KeptIsAnswered /\ ShownContinues
  BY DEF CompletionInv
<1>2. cache \in Seq(Entries) /\ req.doc \in Docs
  BY <1>1, EnginesKeep DEF CompletionCalls
<1>3. CASE /\ Hit(cache, req.doc) /\ requests' = others
           /\ engines' = [engines EXCEPT ![req.engine].cache = Touched(@, Best(@, req.doc))]
           /\ Offer(req, Served(cache, req.doc))
  <2>1. PICK n \in DOMAIN cache :
          /\ n = Best(cache, req.doc) /\ cache[n].context = req.doc.context
          /\ cache[n].prefix \o cache[n].value = req.doc.prefix \o Served(cache, req.doc)
    <3> HIDE DEF cache
    <3> QED BY <1>2, <1>3, HitContinues
  <2>2. PICK c : c = Touched(cache, n)
    OBVIOUS
  <2>3. c \in Seq(Entries) /\ \A i \in DOMAIN c : \E k \in DOMAIN cache : c[i] = cache[k]
    <3> HIDE DEF cache
    <3> QED BY <1>2, <2>2, TouchedKeeps
  <2>4. engines' = [engines EXCEPT ![req.engine].cache = c]
    BY <1>3, <2>1, <2>2
  <2>5. engines' \in Seq([sequence : Nat, cache : Seq(Entries)]) /\ Current' = Current
    BY <1>1, <2>3, <2>4, CacheReplaced DEF Current
  <2>6. CompletionTypes'
    BY <1>1, <1>3, <2>5 DEF CompletionTypes
  <2>7. KeptIsAnswered'
    <3>1. \A i \in DOMAIN c : \E k \in DOMAIN engines[req.engine].cache :
            c[i] = engines[req.engine].cache[k]
      BY <2>3
    <3>2. req.engine \in 1 .. Current /\ answers \subseteq answers' /\ c \in Seq(Entries)
      BY <2>3
    <3>3. \A i \in DOMAIN c :
            \/ \E k \in DOMAIN engines[req.engine].cache : c[i] = engines[req.engine].cache[k]
            \/ [engine |-> req.engine, doc |-> [context |-> c[i].context, prefix |-> c[i].prefix],
                text |-> c[i].value] \in answers'
      BY <3>1
    <3> HIDE DEF cache
    <3> QED BY <1>1, <2>4, <3>2, <3>3, KeptStays
  <2>8. UncancelledIsCurrent'
    BY <1>3 DEF UncancelledIsCurrent
  <2>9. ShownContinues'
    <3>1. CASE Served(cache, req.doc) = << >> \/ req.aborted
      BY <1>1, <1>3, <3>1 DEF ShownContinues, Offer
    <3>2. CASE Served(cache, req.doc) # << >> /\ ~ req.aborted
      <4>1. offered' = [engine |-> req.engine, doc |-> req.doc, text |-> Served(cache, req.doc)]
        BY <1>3, <3>2 DEF Offer
      <4>2. PICK a : a = [engine |-> req.engine,
                          doc |-> [context |-> cache[n].context, prefix |-> cache[n].prefix],
                          text |-> cache[n].value]
        OBVIOUS
      <4>3. a \in answers
        BY <1>1, <4>2 DEF KeptIsAnswered
      <4>5. req.doc = document /\ document' = document
        BY <3>2
      <4>6. /\ offered'.engine = req.engine /\ offered'.doc = req.doc
            /\ offered'.text = Served(cache, req.doc)
        BY <4>1
      <4>7. /\ a.engine = req.engine /\ a.doc.context = cache[n].context
            /\ a.doc.prefix = cache[n].prefix /\ a.text = cache[n].value
        BY <4>2
      <4>4. /\ a.engine = offered'.engine /\ a.doc.context = document'.context
            /\ a.doc.prefix \o a.text = document'.prefix \o offered'.text
        <5> HIDE DEF cache
        <5> QED BY <2>1, <4>5, <4>6, <4>7
      <4> QED BY <4>3, <4>4, <4>5, <4>6 DEF ShownContinues
    <3> QED BY <3>1, <3>2
  <2> QED BY <2>6, <2>7, <2>8, <2>9 DEF CompletionInv
<1>4. CASE /\ ~ Hit(cache, req.doc)
           /\ requests' = IF req.doc.context \in Blocked THEN others
                          ELSE others \cup {[req EXCEPT !.state = "stream"]}
           /\ UNCHANGED <<engines, offered>>
  <2>1. PICK r : r = [req EXCEPT !.state = "stream"]
    OBVIOUS
  <2>2. /\ r \in CompletionCalls /\ r.engine = req.engine
        /\ r.aborted = req.aborted /\ r.doc = req.doc
    BY <2>1 DEF CompletionCalls
  <2>3. \A q \in requests' : q \in others \/ q = r
    BY <1>4, <2>1
  <2>4. CompletionTypes'
    BY <1>1, <1>4, <2>2, <2>3 DEF CompletionTypes, Current
  <2>5. UncancelledIsCurrent'
    BY <2>2, <2>3 DEF UncancelledIsCurrent
  <2>6. KeptIsAnswered' /\ ShownContinues'
    BY <1>1, <1>4 DEF KeptIsAnswered, ShownContinues, Current
  <2> QED BY <2>4, <2>5, <2>6 DEF CompletionInv
<1> QED BY <1>3, <1>4 DEF Consults

\* A request that is cancelled, starts, debounces or ends.
LEMMA RequestKeeps ==
  ASSUME CompletionInv,
         \/ ProvideTyped \/ ProvideManual \/ CommandFails \/ Rebuild
         \/ \E req \in requests :
              \/ CancelToken(req) \/ DebounceFires(req)
              \/ \E txt \in Texts \cup {<< >>} : StreamEnds(req, txt)
              \/ \E actionable \in BOOLEAN : StreamFails(req, actionable)
  PROVE  CompletionInv'
<1>1. CompletionTypes /\ UncancelledIsCurrent /\ KeptIsAnswered /\ ShownContinues
  BY DEF CompletionInv
<1>2. /\ document \in Docs /\ requests \subseteq CompletionCalls /\ asked \in Nat
      /\ Current \in 1 .. Current /\ Current \in Nat
      /\ \A req \in requests :
           req.engine \in 1 .. Current /\ (req.aborted \/ req.doc = document)
  BY <1>1 DEF CompletionTypes, UncancelledIsCurrent, Current
<1>3. \A k \in Nat : /\ NewRequest(k) \in CompletionCalls /\ NewRequest(k).engine = Current
                     /\ NewRequest(k).doc = document
  BY <1>2 DEF NewRequest, CompletionCalls
<1>4. CASE ProvideTyped
  <2>1. PICK k : k = engines[Current].sequence + 1
    OBVIOUS
  <2>2. k \in Nat
    BY <1>1, <1>2, <2>1, EnginesKeep
  <2>3. engines' = [engines EXCEPT ![Current].sequence = k]
    BY <1>4, <2>1 DEF ProvideTyped
  <2>4. PICK new : new = [sequence |-> k, cache |-> engines[Current].cache]
    OBVIOUS
  <2>5. engines \in Seq([sequence : Nat, cache : Seq(Entries)]) /\ Current \in 1 .. Len(engines)
    BY <1>1, <1>2 DEF CompletionTypes, Current
  <2>6. new \in [sequence : Nat, cache : Seq(Entries)] /\ new.sequence = k
    BY <1>1, <1>2, <2>2, <2>4, EnginesKeep
  <2>7. engines' = [engines EXCEPT ![Current] = new]
    <3> DEFINE S == [sequence : Nat, cache : Seq(Entries)]
    <3>1. engines[Current] \in S
      BY <1>1, <1>2, EnginesKeep
    <3>2. [engines[Current] EXCEPT !.sequence = k] = new
      BY <2>4, <3>1
    <3> QED BY <2>3, <2>5, <3>2
  <2>8. /\ engines' \in Seq([sequence : Nat, cache : Seq(Entries)])
        /\ Len(engines') = Len(engines) /\ engines'[Current] = new
        /\ \A g \in 1 .. Current : engines'[g].cache = engines[g].cache
    <3> DEFINE S == [sequence : Nat, cache : Seq(Entries)]
    <3>1. engines \in Seq(S) /\ new \in S
      BY <2>5, <2>6
    <3> HIDE DEF S
    <3>2. /\ engines' \in Seq(S) /\ Len(engines') = Len(engines) /\ engines'[Current] = new
          /\ \A g \in 1 .. Len(engines) : g # Current => engines'[g] = engines[g]
      BY <2>5, <2>7, <3>1
    <3> QED BY <2>4, <3>2 DEF S, Current
  <2>9. requests' = requests \cup {NewRequest(k)}
    BY <1>4, <2>6, <2>8 DEF ProvideTyped
  <2>10. UNCHANGED <<document, offered, answers>> /\ asked' = asked + 1
    BY <1>4 DEF ProvideTyped
  <2>11. CompletionTypes' /\ UncancelledIsCurrent'
    BY <1>1, <1>2, <1>3, <2>2, <2>8, <2>9, <2>10
       DEF CompletionTypes, UncancelledIsCurrent, Current
  <2>12. KeptIsAnswered'
    <3> SUFFICES ASSUME NEW g \in 1 .. Current, NEW n \in DOMAIN engines'[g].cache
                 PROVE  [engine |-> g, doc |-> [context |-> engines'[g].cache[n].context,
                                                prefix |-> engines'[g].cache[n].prefix],
                         text |-> engines'[g].cache[n].value] \in answers'
      BY <2>8 DEF KeptIsAnswered, Current
    <3> QED BY <1>1, <2>8, <2>10 DEF KeptIsAnswered
  <2>13. ShownContinues'
    BY <1>1, <2>10 DEF ShownContinues
  <2> QED BY <2>11, <2>12, <2>13 DEF CompletionInv
<1>5. CASE ProvideManual
  <2>1. PICK r, others : r = NewRequest(0) /\ others = requests
    OBVIOUS
  <2>2. Consults(r, others) /\ UNCHANGED <<document, answers>> /\ asked' = asked + 1
    BY <1>5, <2>1 DEF ProvideManual
  <2>3. /\ r \in CompletionCalls /\ r.engine \in 1 .. Current /\ r.doc = document
        /\ others \in SUBSET CompletionCalls
        /\ \A q \in others : q.engine \in 1 .. Current /\ (q.aborted \/ q.doc = document)
    BY <1>2, <1>3, <2>1
  <2> QED BY <1>2, <2>2, <2>3, ConsultsKeeps
<1>6. CASE CommandFails
  BY <1>1, <1>6 DEF CommandFails, CompletionInv, CompletionTypes, UncancelledIsCurrent,
                    KeptIsAnswered, ShownContinues, Current
<1>7. CASE Rebuild
  <2>1. NewEngine \in [sequence : Nat, cache : Seq(Entries)] /\ NewEngine.cache = << >>
    BY DEF NewEngine
  <2>2. /\ engines' \in Seq([sequence : Nat, cache : Seq(Entries)])
        /\ Current' = Current + 1 /\ engines'[Current + 1] = NewEngine
        /\ \A g \in 1 .. Current : engines'[g] = engines[g]
    <3> DEFINE S == [sequence : Nat, cache : Seq(Entries)]
    <3>1. engines \in Seq(S) /\ NewEngine \in S /\ engines' = Append(engines, NewEngine)
      BY <1>1, <1>7, <2>1 DEF CompletionTypes, Rebuild
    <3> HIDE DEF S
    <3>2. /\ engines' \in Seq(S) /\ Len(engines') = Len(engines) + 1
          /\ engines'[Len(engines) + 1] = NewEngine
          /\ \A g \in 1 .. Len(engines) : engines'[g] = engines[g]
      BY <3>1
    <3> QED BY <3>2 DEF S, Current
  <2>3. UNCHANGED <<document, requests, asked, offered, answers>>
    BY <1>7 DEF Rebuild
  <2>4. CompletionTypes'
    BY <1>1, <1>2, <2>2, <2>3 DEF CompletionTypes
  <2>5. UncancelledIsCurrent' /\ ShownContinues'
    BY <1>1, <2>3 DEF UncancelledIsCurrent, ShownContinues
  <2>6. KeptIsAnswered'
    <3> SUFFICES ASSUME NEW g \in 1 .. Current + 1, NEW n \in DOMAIN engines'[g].cache
                 PROVE  [engine |-> g, doc |-> [context |-> engines'[g].cache[n].context,
                                                prefix |-> engines'[g].cache[n].prefix],
                         text |-> engines'[g].cache[n].value] \in answers'
      BY <2>2 DEF KeptIsAnswered
    <3>1. g # Current + 1
      BY <2>1, <2>2
    <3>2. g \in 1 .. Current
      BY <1>2, <3>1
    <3> QED BY <1>1, <2>2, <2>3, <3>2 DEF KeptIsAnswered
  <2> QED BY <2>4, <2>5, <2>6 DEF CompletionInv
<1>8. ASSUME NEW req \in requests, CancelToken(req) PROVE CompletionInv'
  <2>1. PICK r : r = [req EXCEPT !.aborted = TRUE]
    OBVIOUS
  <2>2. r \in CompletionCalls /\ r.engine = req.engine /\ r.aborted
    BY <1>2, <2>1 DEF CompletionCalls
  <2>3. /\ requests' = (requests \ {req}) \cup {r}
        /\ UNCHANGED <<document, asked, engines, offered, answers>>
    BY <1>8, <2>1 DEF CancelToken
  <2> QED BY <1>1, <1>2, <2>2, <2>3 DEF CompletionInv, CompletionTypes, UncancelledIsCurrent,
             KeptIsAnswered, ShownContinues, Current
<1>9. ASSUME NEW req \in requests, DebounceFires(req) PROVE CompletionInv'
  <2>1. CASE requests' = requests \ {req} /\ UNCHANGED <<engines, offered>>
    BY <1>1, <1>2, <1>9, <2>1 DEF DebounceFires, CompletionInv, CompletionTypes,
       UncancelledIsCurrent, KeptIsAnswered, ShownContinues, Current
  <2>2. CASE Consults(req, requests \ {req})
    <3>1. PICK others : others = requests \ {req}
      OBVIOUS
    <3>2. Consults(req, others) /\ UNCHANGED <<document, answers>> /\ asked' = asked
      BY <1>9, <2>2, <3>1 DEF DebounceFires
    <3>3. /\ req \in CompletionCalls /\ others \in SUBSET CompletionCalls
          /\ \A q \in others : q.engine \in 1 .. Current /\ (q.aborted \/ q.doc = document)
      BY <1>2, <3>1
    <3> QED BY <1>2, <3>2, <3>3, ConsultsKeeps
  <2> QED BY <1>9, <2>1, <2>2 DEF DebounceFires
<1>10. ASSUME NEW req \in requests, NEW txt \in Texts \cup {<< >>}, StreamEnds(req, txt)
       PROVE  CompletionInv'
  <2>1. requests' = requests \ {req} /\ UNCHANGED <<document, asked>>
    BY <1>10 DEF StreamEnds
  <2>2. CASE UNCHANGED <<engines, answers, offered>>
    BY <1>1, <1>2, <2>1, <2>2 DEF CompletionInv, CompletionTypes, UncancelledIsCurrent,
       KeptIsAnswered, ShownContinues, Current
  <2>3. CASE ~ (req.aborted \/ txt = << >>)
    <3>1. req.doc = document /\ req.engine \in 1 .. Current /\ document \in Docs
      BY <1>2, <2>3
    <3>2. txt \in Seq(Chars)
      BY <2>3, CompletionAssumption
    <3>3. /\ engines' = [engines EXCEPT ![req.engine].cache = Put(@, req.doc, txt)]
          /\ answers' = answers \cup {[engine |-> req.engine, doc |-> req.doc, text |-> txt]}
          /\ offered' = [engine |-> req.engine, doc |-> req.doc, text |-> txt]
      BY <1>10, <2>3 DEF StreamEnds, Offer
    <3>4. PICK cache, c : cache = engines[req.engine].cache /\ c = Put(cache, req.doc, txt)
      OBVIOUS
    <3>5. cache \in Seq(Entries)
      BY <1>1, <3>1, <3>4, EnginesKeep
    <3>6. /\ c \in Seq(Entries)
          /\ \A i \in DOMAIN c :
               \/ c[i] = [context |-> req.doc.context, prefix |-> req.doc.prefix, value |-> txt]
               \/ \E k \in DOMAIN cache : c[i] = cache[k]
      BY <3>1, <3>2, <3>4, <3>5, PutKeeps
    <3>7. engines' = [engines EXCEPT ![req.engine].cache = c]
      BY <3>3, <3>4
    <3>8. engines' \in Seq([sequence : Nat, cache : Seq(Entries)]) /\ Current' = Current
      BY <1>1, <3>1, <3>6, <3>7, CacheReplaced DEF Current
    <3>9. KeptIsAnswered'
      <4>1. req.doc = [context |-> req.doc.context, prefix |-> req.doc.prefix]
        BY <3>1 DEF Docs
      <4>2. \A i \in DOMAIN c :
              \/ \E k \in DOMAIN engines[req.engine].cache : c[i] = engines[req.engine].cache[k]
              \/ [engine |-> req.engine,
                  doc |-> [context |-> c[i].context, prefix |-> c[i].prefix],
                  text |-> c[i].value] \in answers'
        BY <3>3, <3>4, <3>6, <4>1
      <4>3. answers \subseteq answers'
        BY <3>3
      <4> QED BY <1>1, <3>1, <3>6, <3>7, <4>2, <4>3, KeptStays
    <3>10. CompletionTypes' /\ UncancelledIsCurrent'
      BY <1>1, <1>2, <2>1, <3>8 DEF CompletionTypes, UncancelledIsCurrent
    <3>11. ShownContinues'
      <4>1. offered' \in answers'
        BY <3>3
      <4>2. offered'.doc = document'
        BY <2>1, <3>1, <3>3
      <4> QED BY <4>1, <4>2 DEF ShownContinues
    <3> QED BY <3>9, <3>10, <3>11 DEF CompletionInv
  <2> QED BY <1>10, <2>2, <2>3 DEF StreamEnds
<1>11. ASSUME NEW req \in requests, NEW actionable \in BOOLEAN, StreamFails(req, actionable)
       PROVE  CompletionInv'
  BY <1>1, <1>2, <1>11 DEF StreamFails, CompletionInv, CompletionTypes, UncancelledIsCurrent,
     KeptIsAnswered, ShownContinues, Current
<1> QED BY <1>4, <1>5, <1>6, <1>7, <1>8, <1>9, <1>10, <1>11

LEMMA CompletionStep == CompletionInv /\ [CompletionNext]_completionVars => CompletionInv'
<1> SUFFICES ASSUME CompletionInv, [CompletionNext]_completionVars PROVE CompletionInv'
  OBVIOUS
<1>1. CASE UNCHANGED completionVars
  BY <1>1 DEF completionVars, CompletionInv, CompletionTypes, UncancelledIsCurrent,
              KeptIsAnswered, ShownContinues, Current
<1>2. CASE CompletionNext
  BY <1>2, UserKeeps, RequestKeeps DEF CompletionNext
<1> QED BY <1>1, <1>2

\* The ghost text on the screen continues the document as its backend answered,
\* whatever the user types, whichever requests are cancelled, debounced, served
\* from a cache of any capacity or streamed, and however often the engine is
\* rebuilt (cache.ts:41-65, engine.ts:141-146, provider.ts:596-603).
THEOREM ShownIsContinuation == Spec => []ShownContinues
<1>1. Init => CompletionInv
  BY CompletionStarts
<1>2. CompletionInv /\ [Next]_vars => CompletionInv'
  <2>1. UNCHANGED vars => UNCHANGED completionVars
    BY DEF vars
  <2> QED BY <2>1, CompletionSteps, CompletionStep
<1>3. CompletionInv => ShownContinues
  BY DEF CompletionInv
<1> QED BY <1>1, <1>2, <1>3, PTL DEF Spec

-------------------------------------------------------------------------------
\* The next edit.

LEMMA NextEditSteps == Next => [NextEditNext]_nextEditVars
<1> SUFFICES ASSUME Next, ~ UNCHANGED nextEditVars PROVE NextEditNext
  OBVIOUS
<1> QED BY DEF Next, Only

\* A region that stands on its lines of a document.
StandsOn(doc, r) ==
  /\ r.from # 0 /\ r.from <= r.to /\ r.to <= Len(doc)
  /\ SubSeq(doc, r.from, r.to) = r.base

\* Changes within a document of n lines, the later ones of a batch above.
Within(c, n) == c \in Changes /\ c.from <= c.to /\ c.to <= n

Batch(es, n) ==
  \/ \E c \in Changes : Within(c, n) /\ es = <<c>>
  \/ \E c, d \in Changes : Within(c, n) /\ Within(d, n) /\ d.to < c.from /\ es = <<c, d>>

Growth(c) == c.lines - (c.to - c.from + 1)

LEMMA Slice ==
  ASSUME NEW S, NEW s \in Seq(S), NEW a \in Nat, NEW b \in Nat, 1 <= a, a <= b + 1, b <= Len(s)
  PROVE  /\ SubSeq(s, a, b) \in Seq(S) /\ Len(SubSeq(s, a, b)) = b - a + 1
         /\ \A i \in 1 .. b - a + 1 : SubSeq(s, a, b)[i] = s[a + i - 1]
OBVIOUS

\* Two slices are the same when their lines are.
LEMMA SameSlice ==
  ASSUME NEW S, NEW s \in Seq(S), NEW t \in Seq(S), NEW a \in Nat, NEW b \in Nat, NEW g \in Int,
         1 <= a, a <= b + 1, b <= Len(s), 1 <= a + g, b + g <= Len(t),
         \A i \in a .. b : t[i + g] = s[i]
  PROVE  SubSeq(t, a + g, b + g) = SubSeq(s, a, b)
<1> DEFINE x == SubSeq(t, a + g, b + g)
           y == SubSeq(s, a, b)
<1>1. /\ y \in Seq(S) /\ Len(y) = b - a + 1
      /\ \A i \in 1 .. b - a + 1 : y[i] = s[a + i - 1]
  BY Slice
<1>2. PICK c, d \in Nat : c = a + g /\ d = b + g /\ 1 <= c /\ c <= d + 1 /\ d <= Len(t)
                          /\ d - c = b - a
  OBVIOUS
<1>3. /\ x \in Seq(S) /\ Len(x) = d - c + 1
      /\ \A i \in 1 .. d - c + 1 : x[i] = t[c + i - 1]
  BY <1>2, Slice
<1>4. ASSUME NEW i \in 1 .. b - a + 1 PROVE x[i] = y[i]
  <2>1. x[i] = t[c + i - 1] /\ y[i] = s[a + i - 1]
    BY <1>1, <1>2, <1>3
  <2>2. a + i - 1 \in a .. b
    OBVIOUS
  <2>3. c + i - 1 = (a + i - 1) + g
    BY <1>2
  <2> QED BY <2>1, <2>2, <2>3
<1>5. Len(x) = Len(y) /\ \A i \in 1 .. Len(x) : x[i] = y[i]
  BY <1>1, <1>2, <1>3, <1>4
<1> HIDE DEF x, y
<1>6. x = y
  BY <1>1, <1>3, <1>5, SeqEqual
<1> QED BY <1>6 DEF x, y

LEMMA Joined ==
  ASSUME NEW S, NEW s \in Seq(S), NEW t \in Seq(S)
  PROVE  /\ s \o t \in Seq(S) /\ Len(s \o t) = Len(s) + Len(t)
         /\ \A i \in 1 .. Len(s) : (s \o t)[i] = s[i]
         /\ \A i \in 1 .. Len(t) : (s \o t)[i + Len(s)] = t[i]
OBVIOUS

\* k lines in the place of the lines from .. to.
Splice(doc, from, to, k) ==
  SubSeq(doc, 1, from - 1) \o [n \in 1 .. k |-> 0] \o SubSeq(doc, to + 1, Len(doc))

LEMMA Spliced ==
  ASSUME NEW doc \in Seq(Nat), NEW from \in Nat, NEW to \in Nat, NEW k \in Nat,
         1 <= from, from <= to, to <= Len(doc)
  PROVE  /\ Splice(doc, from, to, k) \in Seq(Nat)
         /\ Len(Splice(doc, from, to, k)) = Len(doc) + (k - (to - from + 1))
         /\ \A i \in 1 .. from - 1 : Splice(doc, from, to, k)[i] = doc[i]
         /\ \A i \in to + 1 .. Len(doc) :
              Splice(doc, from, to, k)[i + (k - (to - from + 1))] = doc[i]
<1>new. PICK new : new = Splice(doc, from, to, k)
  OBVIOUS
<1>g. PICK g \in Int : g = k - (to - from + 1)
  OBVIOUS
<1> DEFINE a == SubSeq(doc, 1, from - 1)
           m == [n \in 1 .. k |-> 0]
           b == SubSeq(doc, to + 1, Len(doc))
<1>1. a \in Seq(Nat) /\ Len(a) = from - 1 /\ \A i \in 1 .. from - 1 : a[i] = doc[i]
  <2>1. \A i \in 1 .. (from - 1) - 1 + 1 : a[i] = doc[1 + i - 1]
    BY Slice
  <2>2. a \in Seq(Nat) /\ Len(a) = from - 1
    BY Slice
  <2> QED BY <2>1, <2>2
<1>2. m \in Seq(Nat) /\ Len(m) = k
  OBVIOUS
<1>3. b \in Seq(Nat) /\ Len(b) = Len(doc) - to /\ \A i \in 1 .. Len(doc) - to : b[i] = doc[to + i]
  <2>1. Len(doc) \in Nat
    OBVIOUS
  <2>2. /\ b \in Seq(Nat) /\ Len(b) = Len(doc) - (to + 1) + 1
        /\ \A i \in 1 .. Len(doc) - (to + 1) + 1 : b[i] = doc[(to + 1) + i - 1]
    BY <2>1, Slice
  <2>3. \A i \in 1 .. Len(doc) - to : (to + 1) + i - 1 = to + i
    OBVIOUS
  <2> QED BY <2>1, <2>2, <2>3
<1>4. new = (a \o m) \o b
  BY <1>new DEF Splice
<1> HIDE DEF a, m, b
<1>5. PICK am \in Seq(Nat) :
        am = a \o m /\ Len(am) = from - 1 + k /\ \A i \in 1 .. from - 1 : am[i] = a[i]
  <2>1. Len(a \o m) = Len(a) + Len(m) /\ a \o m \in Seq(Nat)
    BY <1>1, <1>2, Joined
  <2>2. \A i \in 1 .. Len(a) : (a \o m)[i] = a[i]
    BY <1>1, <1>2, Joined
  <2> QED BY <1>1, <1>2, <2>1, <2>2
<1>6. /\ new \in Seq(Nat) /\ Len(new) = (from - 1 + k) + (Len(doc) - to)
      /\ \A i \in 1 .. from - 1 + k : new[i] = am[i]
      /\ \A i \in 1 .. Len(doc) - to : new[i + (from - 1 + k)] = b[i]
  <2>1. new = am \o b
    BY <1>4, <1>5
  <2>2. new \in Seq(Nat) /\ Len(new) = Len(am) + Len(b)
    BY <1>3, <1>5, <2>1, Joined
  <2>3. \A i \in 1 .. Len(am) : (am \o b)[i] = am[i]
    BY <1>3, Joined
  <2>4. \A i \in 1 .. Len(b) : (am \o b)[i + Len(am)] = b[i]
    BY <1>3, Joined
  <2> QED BY <1>3, <1>5, <2>1, <2>2, <2>3, <2>4
<1>7. Len(new) = Len(doc) + g
  <2>1. Len(doc) \in Nat
    OBVIOUS
  <2> QED BY <1>6, <1>g, <2>1
<1>8. ASSUME NEW i \in 1 .. from - 1 PROVE new[i] = doc[i]
  <2>1. i \in 1 .. from - 1 + k
    OBVIOUS
  <2> QED BY <1>1, <1>5, <1>6, <2>1
<1>9. ASSUME NEW i \in to + 1 .. Len(doc) PROVE new[i + g] = doc[i]
  <2>1. PICK j \in 1 .. Len(doc) - to : j = i - to
    OBVIOUS
  <2>2. new[j + (from - 1 + k)] = doc[to + j]
    BY <1>3, <1>6
  <2>3. j + (from - 1 + k) = i + g /\ to + j = i
    BY <1>g, <2>1
  <2> QED BY <2>2, <2>3
<1> QED BY <1>6, <1>7, <1>8, <1>9, <1>new, <1>g

\* What a change makes of a document: the lines above stay, those below shift.
LEMMA ChangedIs ==
  ASSUME NEW doc \in Seq(Nat), NEW c, Within(c, Len(doc))
  PROVE  /\ Changed(doc, c) \in Seq(Nat) /\ Len(Changed(doc, c)) = Len(doc) + Growth(c)
         /\ \A i \in 1 .. c.from - 1 : Changed(doc, c)[i] = doc[i]
         /\ \A i \in c.to + 1 .. Len(doc) : Changed(doc, c)[i + Growth(c)] = doc[i]
<1>1. /\ c.from \in Nat /\ c.to \in Nat /\ c.lines \in Nat /\ 1 <= c.from
      /\ c.from <= c.to /\ c.to <= Len(doc)
  BY NextEditAssumption DEF Within, Changes, Lines
<1>2. Growth(c) \in Int /\ Growth(c) = c.lines - (c.to - c.from + 1)
  BY <1>1 DEF Growth
<1>3. PICK from, to, k \in Nat : from = c.from /\ to = c.to /\ k = c.lines
  BY <1>1
<1>4. 1 <= from /\ from <= to /\ to <= Len(doc) /\ Growth(c) = k - (to - from + 1)
  BY <1>1, <1>2, <1>3
<1>5. Changed(doc, c) = Splice(doc, from, to, k)
  BY <1>3 DEF Changed, Splice
<1>6. /\ Splice(doc, from, to, k) \in Seq(Nat)
      /\ Len(Splice(doc, from, to, k)) = Len(doc) + (k - (to - from + 1))
      /\ \A i \in 1 .. from - 1 : Splice(doc, from, to, k)[i] = doc[i]
      /\ \A i \in to + 1 .. Len(doc) :
           Splice(doc, from, to, k)[i + (k - (to - from + 1))] = doc[i]
  BY <1>4, Spliced
<1> QED BY <1>3, <1>4, <1>5, <1>6

LEMMA RemapRegion ==
  ASSUME NEW r \in Regions, r.from = 0 \/ r.from <= r.to, NEW n \in Nat, NEW c, Within(c, n)
  PROVE  Remap(r, c) \in Regions /\ (r.from = 0 => Remap(r, c).from = 0)
<1>1. /\ c.from \in Nat /\ c.to \in Nat /\ c.lines \in Nat /\ c.from <= c.to
  BY NextEditAssumption DEF Within, Changes, Lines
<1>2. /\ r.from \in Nat /\ r.to \in Nat
  BY DEF Regions
<1>3. CASE r.from = 0 \/ (c.from <= r.to /\ c.to >= r.from)
  BY <1>3 DEF Remap, Regions
<1>4. CASE ~ (r.from = 0 \/ (c.from <= r.to /\ c.to >= r.from)) /\ c.to < r.from
  <2>1. PICK a, b \in Int :
          a = r.from + c.lines - (c.to - c.from + 1) /\ b = r.to + c.lines - (c.to - c.from + 1)
    BY <1>1, <1>2
  <2>2. Remap(r, c) = [r EXCEPT !.from = a, !.to = b]
    BY <1>4, <2>1 DEF Remap
  <2>3. a \in Nat
    BY <1>1, <1>2, <1>4, <2>1
  <2>4. b \in Nat
    BY <1>1, <1>2, <1>4, <2>1
  <2> QED BY <1>4, <2>2, <2>3, <2>4 DEF Regions
<1>5. CASE ~ (r.from = 0 \/ (c.from <= r.to /\ c.to >= r.from)) /\ ~ (c.to < r.from)
  BY <1>5 DEF Remap
<1> QED BY <1>3, <1>4, <1>5

\* remapRange: a region that is kept stands on the changed document.
LEMMA RemapStands ==
  ASSUME NEW doc \in Seq(Nat), NEW r \in Regions, StandsOn(doc, r),
         NEW c, Within(c, Len(doc)), Remap(r, c).from # 0
  PROVE  StandsOn(Changed(doc, c), Remap(r, c))
<1>1. PICK new : new = Changed(doc, c)
  OBVIOUS
<1>2. PICK from, to, k, a, b \in Nat :
        from = c.from /\ to = c.to /\ k = c.lines /\ a = r.from /\ b = r.to
  BY NextEditAssumption DEF Within, Changes, Lines, Regions
<1>3. /\ 1 <= from /\ from <= to /\ to <= Len(doc)
      /\ 1 <= a /\ a <= b /\ b <= Len(doc) /\ r.base = SubSeq(doc, a, b)
  BY <1>2, NextEditAssumption DEF Within, Changes, Lines, StandsOn
<1>4. PICK g \in Int : g = Growth(c) /\ g = k - (to - from + 1)
  <2>1. Growth(c) = k - (to - from + 1)
    BY <1>2 DEF Growth
  <2> QED BY <2>1
<1>5. /\ new \in Seq(Nat) /\ Len(new) = Len(doc) + g
      /\ \A i \in 1 .. from - 1 : new[i] = doc[i]
      /\ \A i \in to + 1 .. Len(doc) : new[i + g] = doc[i]
  <2>1. new \in Seq(Nat) /\ Len(new) = Len(doc) + Growth(c)
    BY <1>1, ChangedIs
  <2>2. \A i \in 1 .. c.from - 1 : new[i] = doc[i]
    BY <1>1, ChangedIs
  <2>3. \A i \in c.to + 1 .. Len(doc) : new[i + Growth(c)] = doc[i]
    BY <1>1, ChangedIs
  <2> QED BY <1>2, <1>4, <2>1, <2>2, <2>3
<1>6. ~ (r.from = 0 \/ (c.from <= r.to /\ c.to >= r.from))
  BY <1>3 DEF Remap, Regions
<1>7. CASE to < a
  <2>1. Remap(r, c) = [r EXCEPT !.from = a + g, !.to = b + g]
    <3>1. Remap(r, c) = [r EXCEPT !.from = @ + c.lines - (c.to - c.from + 1),
                                  !.to = @ + c.lines - (c.to - c.from + 1)]
      BY <1>2, <1>6, <1>7 DEF Remap
    <3>2. a + k - (to - from + 1) = a + g /\ b + k - (to - from + 1) = b + g
      BY <1>4
    <3> QED BY <1>2, <3>1, <3>2
  <2>2. /\ Remap(r, c).from = a + g /\ Remap(r, c).to = b + g
        /\ Remap(r, c).base = SubSeq(doc, a, b)
    BY <1>3, <2>1 DEF Regions
  <2>3. 1 <= a + g /\ b + g <= Len(new) /\ a + g <= b + g /\ a + g # 0
    BY <1>3, <1>4, <1>5, <1>7
  <2>4. \A i \in a .. b : new[i + g] = doc[i]
    BY <1>3, <1>5, <1>7
  <2>5. SubSeq(new, a + g, b + g) = SubSeq(doc, a, b)
    BY <1>3, <1>5, <2>3, <2>4, SameSlice
  <2> QED BY <1>1, <2>2, <2>3, <2>5 DEF StandsOn
<1>8. CASE from > b
  <2>1. Remap(r, c) = r
    BY <1>2, <1>3, <1>6, <1>8 DEF Remap
  <2>2. 1 <= a + 0 /\ b + 0 <= Len(new) /\ a + 0 = a /\ b + 0 = b
    BY <1>3, <1>4, <1>5, <1>8
  <2>3. ASSUME NEW i \in a .. b PROVE new[i + 0] = doc[i]
    <3>1. i \in 1 .. from - 1 /\ i + 0 = i
      BY <1>3, <1>8
    <3> QED BY <1>5, <3>1
  <2>4. SubSeq(new, a + 0, b + 0) = SubSeq(doc, a, b)
    BY <1>3, <1>5, <2>2, <2>3, SameSlice
  <2>5. SubSeq(new, a, b) = r.base /\ b <= Len(new)
    BY <1>3, <2>2, <2>4
  <2> QED BY <1>1, <1>2, <1>3, <2>1, <2>5 DEF StandsOn
<1>9. to < a \/ from > b
  BY <1>2, <1>3, <1>6
<1> QED BY <1>7, <1>8, <1>9

\* A change above another is still within the document after it.
LEMMA WithinStill ==
  ASSUME NEW doc \in Seq(Nat), NEW c, Within(c, Len(doc)), NEW d, Within(d, Len(doc)),
         d.to < c.from
  PROVE  Within(d, Len(Changed(doc, c)))
<1>1. PICK mid : mid = Changed(doc, c)
  OBVIOUS
<1>2. Len(mid) = Len(doc) + Growth(c)
  BY <1>1, ChangedIs
<1>3. PICK from, to, k, u \in Nat : from = c.from /\ to = c.to /\ k = c.lines /\ u = d.to
  BY NextEditAssumption DEF Within, Changes, Lines
<1>4. from <= to /\ to <= Len(doc) /\ k >= 1 /\ u < from
  BY <1>3 DEF Within, Changes
<1>5. Len(mid) = Len(doc) + (k - (to - from + 1))
  BY <1>2, <1>3 DEF Growth
<1>6. u <= Len(mid)
  BY <1>4, <1>5
<1> QED BY <1>1, <1>3, <1>6 DEF Within

\* A batch of changes: the document, and the region that was followed.
LEMMA BatchStands ==
  ASSUME NEW doc \in Seq(Nat), NEW es, Batch(es, Len(doc))
  PROVE  /\ ChangedByBatch(doc, es) \in Seq(Nat)
         /\ \A r \in Regions : StandsOn(doc, r) =>
              /\ RemapByBatch(r, es) \in Regions
              /\ RemapByBatch(r, es).from # 0 =>
                   StandsOn(ChangedByBatch(doc, es), RemapByBatch(r, es))
<1>1. CASE \E c \in Changes : Within(c, Len(doc)) /\ es = <<c>>
  <2>1. PICK c \in Changes : Within(c, Len(doc)) /\ es = <<c>>
    BY <1>1
  <2>2. ChangedByBatch(doc, es) = Changed(doc, c) /\ \A r : RemapByBatch(r, es) = Remap(r, c)
    BY <2>1 DEF ChangedByBatch, RemapByBatch
  <2>3. Changed(doc, c) \in Seq(Nat)
    BY <2>1, ChangedIs
  <2>4. ASSUME NEW r \in Regions, StandsOn(doc, r)
        PROVE  /\ Remap(r, c) \in Regions
               /\ Remap(r, c).from # 0 => StandsOn(Changed(doc, c), Remap(r, c))
    <3>1. r.from <= r.to /\ Len(doc) \in Nat
      BY <2>4 DEF StandsOn
    <3>2. Remap(r, c) \in Regions
      BY <2>1, <3>1, RemapRegion
    <3> QED BY <2>1, <2>4, <3>2, RemapStands
  <2> QED BY <2>2, <2>3, <2>4
<1>2. CASE \E c, d \in Changes : /\ Within(c, Len(doc)) /\ Within(d, Len(doc))
                                  /\ d.to < c.from /\ es = <<c, d>>
  <2>1. PICK c, d \in Changes : /\ Within(c, Len(doc)) /\ Within(d, Len(doc))
                                /\ d.to < c.from /\ es = <<c, d>>
    BY <1>2
  <2>2. PICK mid : mid = Changed(doc, c)
    OBVIOUS
  <2>3. /\ ChangedByBatch(doc, es) = Changed(mid, d)
        /\ \A r : RemapByBatch(r, es) = Remap(Remap(r, c), d)
    BY <2>1, <2>2 DEF ChangedByBatch, RemapByBatch
  <2>4. mid \in Seq(Nat) /\ Len(mid) = Len(doc) + Growth(c)
    BY <2>1, <2>2, ChangedIs
  <2>5. Within(d, Len(mid))
    BY <2>1, <2>2, WithinStill
  <2>6. Changed(mid, d) \in Seq(Nat)
    BY <2>4, <2>5, ChangedIs
  <2>7. ASSUME NEW r \in Regions, StandsOn(doc, r)
        PROVE  /\ Remap(Remap(r, c), d) \in Regions
               /\ Remap(Remap(r, c), d).from # 0
                    => StandsOn(Changed(mid, d), Remap(Remap(r, c), d))
    <3>1. PICK q : q = Remap(r, c)
      OBVIOUS
    <3>2. r.from <= r.to /\ Len(doc) \in Nat
      BY <2>7 DEF StandsOn
    <3>3. q \in Regions
      BY <2>1, <3>1, <3>2, RemapRegion
    <3>4. CASE q.from = 0
      <4>1. Remap(q, d) \in Regions /\ Remap(q, d).from = 0
        BY <2>1, <3>2, <3>3, <3>4, RemapRegion
      <4> QED BY <3>1, <4>1
    <3>5. CASE q.from # 0
      <4>1. StandsOn(mid, q)
        BY <2>1, <2>2, <2>7, <3>1, <3>5, RemapStands
      <4>2. q.from <= q.to
        BY <4>1 DEF StandsOn
      <4>3. Remap(q, d) \in Regions
        BY <2>1, <3>2, <3>3, <4>2, RemapRegion
      <4>4. Remap(q, d).from # 0 => StandsOn(Changed(mid, d), Remap(q, d))
        BY <2>4, <2>5, <3>3, <4>1, RemapStands
      <4> QED BY <3>1, <4>3, <4>4
    <3> QED BY <3>4, <3>5
  <2> QED BY <2>3, <2>6, <2>7
<1> QED BY <1>1, <1>2 DEF Batch

\* The length of a document after a batch depends on its length before alone.
LEMMA BatchLength ==
  ASSUME NEW doc \in Seq(Nat), NEW other \in Seq(Nat), Len(other) = Len(doc),
         NEW es, Batch(es, Len(doc))
  PROVE  Len(ChangedByBatch(other, es)) = Len(ChangedByBatch(doc, es))
<1>1. CASE \E c \in Changes : Within(c, Len(doc)) /\ es = <<c>>
  <2>1. PICK c \in Changes : Within(c, Len(doc)) /\ es = <<c>>
    BY <1>1
  <2>2. Len(Changed(doc, c)) = Len(doc) + Growth(c) /\ Len(Changed(other, c)) = Len(doc) + Growth(c)
    BY <2>1, ChangedIs
  <2> QED BY <2>1, <2>2 DEF ChangedByBatch
<1>2. CASE \E c, d \in Changes : /\ Within(c, Len(doc)) /\ Within(d, Len(doc))
                                  /\ d.to < c.from /\ es = <<c, d>>
  <2>1. PICK c, d \in Changes : /\ Within(c, Len(doc)) /\ Within(d, Len(doc))
                                /\ d.to < c.from /\ es = <<c, d>>
    BY <1>2
  <2>2. PICK x, y : x = Changed(doc, c) /\ y = Changed(other, c)
    OBVIOUS
  <2>3. /\ x \in Seq(Nat) /\ Len(x) = Len(doc) + Growth(c)
        /\ y \in Seq(Nat) /\ Len(y) = Len(doc) + Growth(c)
    BY <2>1, <2>2, ChangedIs
  <2>4. Within(d, Len(x)) /\ Within(d, Len(y))
    BY <2>1, <2>2, WithinStill
  <2>5. Len(Changed(x, d)) = Len(x) + Growth(d) /\ Len(Changed(y, d)) = Len(y) + Growth(d)
    BY <2>3, <2>4, ChangedIs
  <2> QED BY <2>1, <2>2, <2>3, <2>5 DEF ChangedByBatch
<1> QED BY <1>1, <1>2 DEF Batch

\* The document, and what of a prediction and of an edit it did not overtake.
FlightsStand ==
  /\ text \in Seq(Nat) /\ Len(text) \in Lines
  /\ predicting \in [state : {"none", "fresh", "moved"}, region : Regions]
  /\ predicting.state = "fresh" => StandsOn(text, predicting.region)
  /\ applying \in [state : {"none", "fresh", "moved", "applied"}, region : Regions]
  /\ applying.state = "fresh" => StandsOn(text, applying.region)

ProposalStands ==
  /\ proposal \in [kind : {"idle", "proposed", "jumped"}, region : Regions]
  /\ proposal.kind # "idle" => StandsOn(text, proposal.region)

\* The screen and the two keys.
ScreenOK ==
  /\ jumpVisible \in BOOLEAN /\ jumpedKey \in BOOLEAN /\ painted \in BOOLEAN
  /\ shellGone \/ (jumpVisible => painted /\ (jumpedKey <=> proposal.kind = "jumped"))

NextEditInv == FlightsStand /\ ProposalStands /\ ScreenOK

LEMMA NextEditIsSound == NextEditInv => ProposalIsSound
BY DEF NextEditInv, ProposalStands, ScreenOK, ProposalIsSound, StandsOn, BaseHolds

LEMMA NextEditStarts == Init => NextEditInv
<1> SUFFICES ASSUME NextEditInit PROVE NextEditInv
  BY DEF Init
<1>1. PICK k \in Lines : text = [n \in 1 .. k |-> n]
  BY DEF NextEditInit
<1>2. text \in Seq(Nat) /\ Len(text) = k
  <2>1. k \in Nat
    BY <1>1, NextEditAssumption DEF Lines
  <2> QED BY <1>1, <2>1
<1>3. NoRegion \in Regions
  BY DEF NoRegion, Regions
<1> QED BY <1>1, <1>2, <1>3
       DEF NextEditInit, NextEditInv, FlightsStand, ProposalStands, ScreenOK, Idle, Quiescent

LEMMA DismissedStands == Dismissed => ProposalStands' /\ ScreenOK'
<1>1. NoRegion \in Regions
  BY DEF NoRegion, Regions
<1>2. Dismissed => ProposalStands'
  BY <1>1 DEF Dismissed, Idle, ProposalStands
<1>3. Dismissed => ScreenOK'
  BY DEF Dismissed, Cleared, ScreenOK
<1> QED BY <1>2, <1>3

\* onDidChangeTextDocument for a batch of changes within the document.
LEMMA TextChangesKeeps ==
  ASSUME NextEditInv, ~ shellGone,
         NEW es, Batch(es, Len(text)), Len(ChangedByBatch(text, es)) \in Lines,
         TextChanges(es),
         applying' \in [state : {"none", "moved", "applied"}, region : Regions]
  PROVE  NextEditInv'
<1>1. FlightsStand /\ ProposalStands /\ ScreenOK
  BY DEF NextEditInv
<1>2. text' = ChangedByBatch(text, es) /\ text' \in Seq(Nat) /\ Len(text') \in Lines
  BY <1>1, BatchStands DEF TextChanges, FlightsStand
<1>3. FlightsStand'
  <2>1. /\ predicting' \in [state : {"none", "fresh", "moved"}, region : Regions]
        /\ predicting'.state # "fresh"
    BY <1>1 DEF TextChanges, Moved, FlightsStand
  <2>2. /\ applying' \in [state : {"none", "fresh", "moved", "applied"}, region : Regions]
        /\ applying'.state # "fresh"
    OBVIOUS
  <2> QED BY <1>2, <2>1, <2>2 DEF FlightsStand
<1>4. PICK r : r = RemapByBatch(proposal.region, es)
  OBVIOUS
<1>5. CASE proposal.kind = "idle"
  <2>1. UNCHANGED <<proposal, jumpVisible, jumpedKey, painted>>
    BY <1>5 DEF TextChanges
  <2>2. ProposalStands' /\ ScreenOK'
    BY <1>1, <1>5, <2>1 DEF ProposalStands, ScreenOK
  <2> QED BY <1>3, <2>2 DEF NextEditInv
<1>6. CASE proposal.kind # "idle" /\ r.from = 0
  <2>1. Dismissed
    BY <1>4, <1>6 DEF TextChanges
  <2> QED BY <1>3, <2>1, DismissedStands DEF NextEditInv
<1>7. CASE proposal.kind # "idle" /\ r.from # 0
  <2>1. r \in Regions /\ StandsOn(text', r)
    <3>1. text \in Seq(Nat) /\ proposal.region \in Regions /\ StandsOn(text, proposal.region)
      BY <1>1, <1>7 DEF FlightsStand, ProposalStands
    <3> QED BY <1>2, <1>4, <1>7, <3>1, BatchStands
  <2>2. /\ proposal' = [proposal EXCEPT !.region = r]
        /\ Paint(r, text', jumpVisible, jumpedKey)
    BY <1>4, <1>7 DEF TextChanges
  <2>3. /\ proposal' \in [kind : {"idle", "proposed", "jumped"}, region : Regions]
        /\ proposal'.kind = proposal.kind /\ proposal'.region = r
    BY <1>1, <2>1, <2>2 DEF ProposalStands
  <2>4. ScreenOK'
    BY <1>1, <2>2, <2>3 DEF Paint, Cleared, ScreenOK
  <2>5. ProposalStands'
    BY <2>1, <2>3 DEF ProposalStands
  <2> QED BY <1>3, <2>4, <2>5 DEF NextEditInv
<1> QED BY <1>4, <1>5, <1>6, <1>7

\* An event of a document of so many lines is a batch within it.
LEMMA EventIsBatch ==
  ASSUME NEW n \in Lines, NEW es \in Events[n]
  PROVE  /\ Batch(es, n)
         /\ \A doc \in Seq(Nat) : Len(doc) = n => Len(ChangedByBatch(doc, es)) \in Lines
<1> DEFINE one == {c \in Changes : c.from <= c.to /\ c.to <= n}
           two == {<<c, d>> : c, d \in one}
           start == [k \in 1 .. n |-> k]
<1>1. /\ es \in {<<c>> : c \in one} \cup {e \in two : e[2].to < e[1].from}
      /\ Len(ChangedByBatch(start, es)) \in Lines
  BY DEF Events
<1>2. Batch(es, n)
  <2>1. CASE es \in {<<c>> : c \in one}
    BY <2>1 DEF Batch, Within
  <2>2. CASE es \in {e \in two : e[2].to < e[1].from}
    <3>1. PICK c, d \in one : es = <<c, d>> /\ es[2].to < es[1].from
      BY <2>2
    <3>2. Within(c, n) /\ Within(d, n) /\ d.to < c.from /\ c \in Changes /\ d \in Changes
      BY <3>1 DEF Within
    <3> QED BY <3>1, <3>2 DEF Batch
  <2> QED BY <1>1, <2>1, <2>2
<1>3. start \in Seq(Nat) /\ Len(start) = n
  <2>1. n \in Nat
    BY NextEditAssumption DEF Lines
  <2> QED BY <2>1
<1> HIDE DEF start
<1>4. ASSUME NEW doc \in Seq(Nat), Len(doc) = n PROVE Len(ChangedByBatch(doc, es)) \in Lines
  <2>1. Batch(es, Len(start)) /\ Len(doc) = Len(start)
    BY <1>2, <1>3, <1>4
  <2>2. Len(ChangedByBatch(doc, es)) = Len(ChangedByBatch(start, es))
    BY <1>3, <2>1, BatchLength
  <2> QED BY <1>1, <2>2
<1> QED BY <1>2, <1>4

\* The edits of the user and the one VS Code applies for a proposal.
LEMMA EditsKeep ==
  ASSUME NextEditInv, ~ shellGone, EditText \/ EditApplied
  PROVE  NextEditInv'
<1>1. FlightsStand
  BY DEF NextEditInv
<1>2. CASE EditText
  <2>1. PICK es \in Events[Len(text)] : TextChanges(es)
    BY <1>2 DEF EditText
  <2>2. Batch(es, Len(text)) /\ Len(ChangedByBatch(text, es)) \in Lines
    BY <1>1, EventIsBatch DEF FlightsStand
  <2>3. applying' \in [state : {"none", "moved", "applied"}, region : Regions]
    BY <1>1, <1>2 DEF EditText, Moved, FlightsStand
  <2> QED BY <2>1, <2>2, <2>3, TextChangesKeeps
<1>3. CASE EditApplied
  <2>1. PICK n, es :
          /\ n \in 1 .. 2
          /\ es = <<[from |-> applying.region.from, to |-> applying.region.to, lines |-> n]>>
          /\ Len(ChangedByBatch(text, es)) \in Lines /\ TextChanges(es)
    BY <1>3 DEF EditApplied
  <2>2. PICK c : /\ c = [from |-> applying.region.from, to |-> applying.region.to, lines |-> n]
                 /\ n \in 1 .. 2
    BY <2>1
  <2>3. StandsOn(text, applying.region) /\ applying.region \in Regions
    BY <1>1, <1>3 DEF FlightsStand, EditApplied
  <2>4. c \in Changes /\ Within(c, Len(text))
    <3>1. PICK a, b, l \in Nat : a = applying.region.from /\ b = applying.region.to /\ l = Len(text)
      <4>1. Len(text) \in Nat
        BY <1>1 DEF FlightsStand
      <4>2. applying.region.from \in Nat /\ applying.region.to \in Nat
        BY <2>3 DEF Regions
      <4> QED BY <4>1, <4>2
    <3>2. 1 <= a /\ a <= b /\ b <= l /\ l <= MaxLines
      BY <1>1, <2>3, <3>1 DEF StandsOn, FlightsStand, Lines
    <3>3. a \in Lines /\ b \in Lines
      BY <3>1, <3>2, NextEditAssumption DEF Lines
    <3>4. c \in Changes
      BY <2>2, <3>1, <3>3 DEF Changes
    <3> QED BY <2>2, <3>1, <3>2, <3>4 DEF Within
  <2>5. Batch(es, Len(text))
    BY <2>1, <2>2, <2>4 DEF Batch
  <2>6. applying' \in [state : {"none", "moved", "applied"}, region : Regions]
    <3>1. NoRegion \in Regions
      BY DEF NoRegion, Regions
    <3> QED BY <1>3, <3>1 DEF EditApplied
  <2> QED BY <2>1, <2>5, <2>6, TextChangesKeeps
<1> QED BY <1>2, <1>3

\* The two Tab keys, which the user may press at any time.
LEMMA KeysKeep ==
  ASSUME NextEditInv, ~ shellGone, TabJump \/ TabAccept
  PROVE  NextEditInv'
<1>1. FlightsStand /\ ProposalStands /\ ScreenOK
  BY DEF NextEditInv
<1>2. CASE TabJump
  <2>1. UNCHANGED <<text, predicting, applying, focused, shellGone>>
    BY <1>2 DEF TabJump
  <2>2. FlightsStand'
    BY <1>1, <2>1 DEF FlightsStand
  <2>3. CASE proposal.kind # "proposed"
    <3>1. Dismissed
      BY <1>2, <2>3 DEF TabJump
    <3> QED BY <2>2, <3>1, DismissedStands DEF NextEditInv
  <2>4. CASE proposal.kind = "proposed"
    <3>1. proposal' = [proposal EXCEPT !.kind = "jumped"]
      BY <1>2, <2>4 DEF TabJump
    <3>2. /\ proposal' \in [kind : {"idle", "proposed", "jumped"}, region : Regions]
          /\ proposal'.kind = "jumped" /\ proposal'.region = proposal.region
      BY <1>1, <3>1 DEF ProposalStands
    <3>3. ProposalStands'
      BY <1>1, <2>1, <2>4, <3>2 DEF ProposalStands
    <3>4. ScreenOK'
      BY <1>1, <1>2, <2>4, <3>2 DEF TabJump, Paint, Cleared, ScreenOK
    <3> QED BY <2>2, <3>3, <3>4 DEF NextEditInv
  <2> QED BY <2>3, <2>4
<1>3. CASE TabAccept
  <2>1. Dismissed /\ UNCHANGED <<text, predicting>>
    BY <1>3 DEF TabAccept
  <2>2. NoRegion \in Regions
    BY DEF NoRegion, Regions
  <2>3. CASE proposal.kind # "jumped"
    <3>1. applying' = applying
      BY <1>3, <2>3 DEF TabAccept
    <3> QED BY <1>1, <2>1, <3>1, DismissedStands DEF NextEditInv, FlightsStand
  <2>4. CASE proposal.kind = "jumped" /\ focused /\ BaseHolds(proposal.region)
    <3>1. applying' = [state |-> "fresh", region |-> proposal.region]
      BY <1>3, <2>4 DEF TabAccept
    <3>2. proposal.region \in Regions /\ StandsOn(text, proposal.region)
      BY <1>1, <2>4 DEF ProposalStands
    <3>3. FlightsStand'
      BY <1>1, <2>1, <3>1, <3>2 DEF FlightsStand
    <3> QED BY <2>1, <3>3, DismissedStands DEF NextEditInv
  <2>5. CASE proposal.kind = "jumped" /\ ~ (focused /\ BaseHolds(proposal.region))
    <3>1. applying' = [state |-> "moved", region |-> NoRegion]
      BY <1>3, <2>5 DEF TabAccept
    <3>2. FlightsStand'
      BY <1>1, <2>1, <2>2, <3>1 DEF FlightsStand
    <3> QED BY <2>1, <3>2, DismissedStands DEF NextEditInv
  <2> QED BY <2>3, <2>4, <2>5
<1> QED BY <1>2, <1>3

\* The prediction: it starts on a region of the document as it is, and answers.
LEMMA PredictionKeeps ==
  ASSUME NextEditInv, ~ shellGone, TriggerPredicts \/ Predicted \/ PredictionDropped
  PROVE  NextEditInv'
<1>1. FlightsStand /\ ProposalStands /\ ScreenOK
  BY DEF NextEditInv
<1>2. NoRegion \in Regions
  BY DEF NoRegion, Regions
<1>3. CASE TriggerPredicts
  <2>1. PICK cursor \in 1 .. Len(text) :
          predicting' = [state |-> "fresh", region |-> RegionAround(cursor)]
    BY <1>3 DEF TriggerPredicts
  <2>2. PICK first, last \in Nat :
          /\ first = IF cursor > Window THEN cursor - Window ELSE 1
          /\ last = IF cursor + Window < Len(text) THEN cursor + Window ELSE Len(text)
    <3>1. Len(text) \in Nat /\ Window \in Nat /\ cursor \in Nat
      BY <1>1, NextEditAssumption DEF FlightsStand
    <3>2. (IF cursor > Window THEN cursor - Window ELSE 1) \in Nat
      BY <3>1
    <3>3. (IF cursor + Window < Len(text) THEN cursor + Window ELSE Len(text)) \in Nat
      BY <3>1
    <3> QED BY <3>2, <3>3
  <2>3. 1 <= first /\ first <= last /\ last <= Len(text)
    <3>1. Len(text) \in Nat /\ Window \in Nat /\ cursor \in 1 .. Len(text)
      BY <1>1, NextEditAssumption DEF FlightsStand
    <3> QED BY <2>2, <3>1
  <2>4. PICK r : r = RegionAround(cursor)
    OBVIOUS
  <2>5. r = [from |-> first, to |-> last, base |-> SubSeq(text, first, last), cursor |-> cursor]
    BY <2>2, <2>4 DEF RegionAround
  <2>6. SubSeq(text, first, last) \in Seq(Nat)
    BY <1>1, <2>3, Slice DEF FlightsStand
  <2>7. r \in Regions /\ StandsOn(text, r)
    BY <2>3, <2>5, <2>6 DEF Regions, StandsOn
  <2>8. UNCHANGED <<text, proposal, jumpVisible, jumpedKey, painted, applying, shellGone>>
    BY <1>3 DEF TriggerPredicts
  <2>9. FlightsStand'
    BY <1>1, <2>1, <2>4, <2>7, <2>8 DEF FlightsStand
  <2> QED BY <1>1, <2>8, <2>9 DEF NextEditInv, ProposalStands, ScreenOK
<1>4. CASE Predicted
  <2>1. UNCHANGED <<text, applying, shellGone>> /\ predicting' = Quiescent
    BY <1>4 DEF Predicted
  <2>2. FlightsStand'
    BY <1>1, <1>2, <2>1 DEF FlightsStand, Quiescent
  <2>3. CASE proposal.kind = "idle"
    <3>1. /\ proposal' = [kind |-> "proposed", region |-> predicting.region]
          /\ Paint(predicting.region, text, TRUE, FALSE)
      BY <1>4, <2>3 DEF Predicted
    <3>2. predicting.region \in Regions /\ StandsOn(text, predicting.region)
      BY <1>1, <1>4 DEF FlightsStand, Predicted
    <3>3. ProposalStands'
      BY <2>1, <3>1, <3>2 DEF ProposalStands
    <3>4. ScreenOK'
      BY <3>1 DEF Paint, Cleared, ScreenOK
    <3> QED BY <2>2, <3>3, <3>4 DEF NextEditInv
  <2>4. CASE proposal.kind # "idle"
    <3>1. Dismissed
      BY <1>4, <2>4 DEF Predicted
    <3> QED BY <2>2, <3>1, DismissedStands DEF NextEditInv
  <2> QED BY <2>3, <2>4
<1>5. CASE PredictionDropped
  <2>1. /\ UNCHANGED <<text, proposal, jumpVisible, jumpedKey, painted, applying, shellGone>>
        /\ predicting' = Quiescent
    BY <1>5 DEF PredictionDropped
  <2> QED BY <1>1, <1>2, <2>1
         DEF NextEditInv, FlightsStand, ProposalStands, ScreenOK, Quiescent
<1> QED BY <1>3, <1>4, <1>5

\* The steps that leave the text alone and at most dismiss.
LEMMA AroundKeeps ==
  ASSUME NextEditInv, ~ shellGone,
         \/ TouchText \/ SwitchEditor \/ DismissKey \/ ApplyAnswered \/ FimStarts \/ FimSettles
         \/ FimAccepted \/ ToggleSource \/ TriggerStops \/ ShellDispose
  PROVE  NextEditInv'
<1>1. FlightsStand /\ ProposalStands /\ ScreenOK
  BY DEF NextEditInv
<1>2. NoRegion \in Regions
  BY DEF NoRegion, Regions
<1>3. /\ text' = text /\ predicting' \in {predicting, Moved(predicting), Quiescent}
      /\ applying' \in {applying, Moved(applying), Quiescent}
  BY DEF TouchText, SwitchEditor, DismissKey, ApplyAnswered, FimStarts, FimSettles,
         FimAccepted, ToggleSource, TriggerStops, ShellDispose
<1>4. FlightsStand'
  <2>1. /\ predicting' \in [state : {"none", "fresh", "moved"}, region : Regions]
        /\ predicting'.state = "fresh" => StandsOn(text, predicting'.region)
    BY <1>1, <1>2, <1>3 DEF FlightsStand, Moved, Quiescent
  <2>2. /\ applying' \in [state : {"none", "fresh", "moved", "applied"}, region : Regions]
        /\ applying'.state = "fresh" => StandsOn(text, applying'.region)
    <3>1. CASE applying' = Moved(applying)
      BY <1>1, <3>1 DEF FlightsStand, Moved
    <3>2. CASE applying' = Quiescent
      BY <1>2, <3>2 DEF Quiescent
    <3> QED BY <1>1, <1>3, <3>1, <3>2 DEF FlightsStand
  <2> QED BY <1>1, <1>3, <2>1, <2>2 DEF FlightsStand
<1>5. \/ Dismissed
      \/ UNCHANGED <<proposal, jumpVisible, jumpedKey, painted, shellGone>>
      \/ ShellDispose
  BY DEF TouchText, SwitchEditor, DismissKey, ApplyAnswered, FimStarts, FimSettles,
         FimAccepted, ToggleSource, TriggerStops
<1>6. CASE Dismissed
  BY <1>4, <1>6, DismissedStands DEF NextEditInv
<1>7. CASE UNCHANGED <<proposal, jumpVisible, jumpedKey, painted, shellGone>>
  BY <1>1, <1>3, <1>4, <1>7 DEF NextEditInv, ProposalStands, ScreenOK
<1>8. CASE ShellDispose
  BY <1>1, <1>3, <1>4, <1>8 DEF NextEditInv, ProposalStands, ScreenOK, ShellDispose
<1> QED BY <1>5, <1>6, <1>7, <1>8

LEMMA NextEditStep == NextEditInv /\ [NextEditNext]_nextEditVars => NextEditInv'
<1> SUFFICES ASSUME NextEditInv, [NextEditNext]_nextEditVars PROVE NextEditInv'
  OBVIOUS
<1>1. CASE UNCHANGED nextEditVars
  BY <1>1 DEF nextEditVars, NextEditInv, FlightsStand, ProposalStands, ScreenOK
<1>2. CASE NextEditNext
  BY <1>2, EditsKeep, KeysKeep, PredictionKeeps, AroundKeeps DEF NextEditNext
<1> QED BY <1>1, <1>2

\* Tab is taken only for a proposal that is on the screen, and the proposal
\* stands on the lines it was made for, in a document of any length and with
\* regions of any size, whatever was edited around it since (anchors.ts:48-68,
\* nextEditShellWiring.ts:189-194, nextEditExecutor.ts:96-106).
THEOREM ProposalsStandOnTheirLines == Spec => []ProposalIsSound
<1>1. Init => NextEditInv
  BY NextEditStarts
<1>2. NextEditInv /\ [Next]_vars => NextEditInv'
  <2>1. UNCHANGED vars => UNCHANGED nextEditVars
    BY DEF vars
  <2> QED BY <2>1, NextEditSteps, NextEditStep
<1>3. NextEditInv => ProposalIsSound
  BY NextEditIsSound
<1> QED BY <1>1, <1>2, <1>3, PTL DEF Spec

-------------------------------------------------------------------------------
\* The one-shot runner and the commit box.

LEMMA OneShotSteps == Next => [OneShotNext]_oneShotVars
<1> SUFFICES ASSUME Next, ~ UNCHANGED oneShotVars PROVE OneShotNext
  OBVIOUS
<1> QED BY DEF Next, Only

ShotRecords ==
  [body : Bodies, client : Nat, known : BOOLEAN, timedOut : BOOLEAN, cancelled : BOOLEAN,
   collector : {"none", "live", "settled"}, prompting : BOOLEAN, stopped : BOOLEAN,
   reclaimed : BOOLEAN]

OneShotTypes ==
  /\ oneShots \in Seq(ShotRecords) /\ ephemeral \subseteq ShotIds
  /\ rootLease \in {Nobody, Turn} \cup ShotIds
  /\ client \in Nat \ {0} /\ connected \in BOOLEAN
  /\ \A n \in ShotIds : oneShots[n].client <= client
  /\ oneShotIds \in Seq(Nat) /\ storedIds \in Seq(Nat)
  /\ commitBox \in Seq(Int) /\ boxBefore \in Seq(Int) /\ drafts \in Seq(Nat \ {0})
  /\ adopted \in BOOLEAN

\* Where a call may be that holds the root, that gets updates and that is one of
\* the client of now, or not.  Its caller waits until the deadline; only the client
\* of now has requests pending; a collector gets updates from its registration
\* until it settled; and a prompt that is out without its body was cancelled.
Fits(s, holds, listens, alive) ==
  /\ s.body = "git" =>
       /\ s.collector = "none" /\ ~ s.known /\ ~ s.prompting /\ ~ s.timedOut
       /\ ~ holds /\ ~ listens /\ ~ alive
  /\ s.body = "new" => s.collector = "none" /\ ~ s.known /\ ~ s.prompting /\ ~ listens
  /\ s.body \in {"mode", "snapshot"} => ~ s.prompting
  /\ s.body \in {"mode", "snapshot", "prompt"} =>
       s.collector # "none" /\ (s.collector = "live" => listens)
  /\ s.body \in {"new", "mode", "snapshot", "prompt"} => holds \/ s.timedOut
  /\ holds => s.body \in {"new", "mode", "snapshot", "prompt"} /\ ~ s.timedOut
  /\ s.body \in {"new", "mode", "prompt"} => alive
  /\ listens => alive /\ ~ s.timedOut
  /\ s.prompting => alive /\ (s.body = "prompt" \/ (s.body = "done" /\ s.stopped))
  /\ s.body = "prompt" => s.prompting /\ ~ s.timedOut
  /\ s.collector = "settled" => s.reclaimed
  /\ s.body = "done" => (s.known => s.reclaimed) /\ (listens => s.prompting)

CallsFit == \A n \in ShotIds : Fits(oneShots[n], rootLease = n, n \in ephemeral, ShotAlive(n))

\* A text below marks of the command.
Whole(box, typed) ==
  \E n \in 0 .. Len(box) :
    /\ \A k \in 1 .. n : box[k] \in {Placeholder, Message}
    /\ SubSeq(box, n + 1, Len(box)) = typed

\* A placeholder of an earlier call, or one the user edited around, was adopted.
BoxFollowed ==
  /\ rootLease > 0 =>
       /\ Placeholder \in Range(commitBox) /\ commitBox # <<Placeholder>> \o boxBefore => adopted
       /\ commitBox = <<Placeholder>> \o boxBefore /\ Placeholder \in Range(boxBefore) => adopted
  /\ Placeholder \in Range(commitBox) =>
       adopted \/ (rootLease > 0 /\ ~ oneShots[rootLease].cancelled)

BoxSound == Whole(commitBox, drafts) /\ BoxFollowed

OneShotInv ==
  /\ OneShotTypes /\ CallsFit /\ HistoryHidesOneShots /\ BoxSound

LEMMA OneShotIsContained == OneShotInv => OneShotKept
<1> SUFFICES ASSUME OneShotInv PROVE OneShotContained /\ BoxIsUsers
  BY DEF OneShotKept
<1>1. BoxIsUsers
  BY DEF OneShotInv, BoxSound, BoxFollowed, Whole, BoxIsUsers
<1>2. PromptHoldsRoot /\ MintedIsReclaimed
  BY DEF OneShotInv, CallsFit, Fits, PromptHoldsRoot, MintedIsReclaimed
<1> QED BY <1>1, <1>2 DEF OneShotInv, OneShotContained

-------------------------------------------------------------------------------
\* The texts of the box.

LEMMA Marked ==
  ASSUME NEW box \in Seq(Int), NEW mark \in Int
  PROVE  /\ <<mark>> \o box \in Seq(Int) /\ Len(<<mark>> \o box) = Len(box) + 1
         /\ (<<mark>> \o box)[1] = mark
         /\ \A k \in 1 .. Len(box) : (<<mark>> \o box)[k + 1] = box[k]
<1>1. PICK m \in Seq(Int) : m = <<mark>> /\ Len(m) = 1 /\ m[1] = mark
  <2>1. <<mark>> \in Seq(Int) /\ Len(<<mark>>) = 1 /\ <<mark>>[1] = mark
    OBVIOUS
  <2> QED BY <2>1
<1>2. /\ m \o box \in Seq(Int) /\ Len(m \o box) = Len(m) + Len(box)
      /\ \A k \in 1 .. Len(m) : (m \o box)[k] = m[k]
  BY Joined
<1>3. \A k \in 1 .. Len(box) : (m \o box)[k + Len(m)] = box[k]
  BY Joined
<1> QED BY <1>1, <1>2, <1>3

LEMMA Typed ==
  ASSUME NEW box \in Seq(Int), NEW x \in Int
  PROVE  /\ Append(box, x) \in Seq(Int) /\ Len(Append(box, x)) = Len(box) + 1
         /\ Append(box, x)[Len(box) + 1] = x
         /\ \A k \in 1 .. Len(box) : Append(box, x)[k] = box[k]
OBVIOUS

LEMMA MarkedIsWhole ==
  ASSUME NEW box \in Seq(Int), NEW typed \in Seq(Int), Whole(box, typed),
         NEW mark \in {Placeholder, Message}
  PROVE  Whole(<<mark>> \o box, typed)
<1>1. PICK n \in 0 .. Len(box) : /\ \A k \in 1 .. n : box[k] \in {Placeholder, Message}
                                 /\ SubSeq(box, n + 1, Len(box)) = typed
  BY DEF Whole
<1>2. PICK new \in Seq(Int) : /\ new = <<mark>> \o box /\ Len(new) = Len(box) + 1 /\ new[1] = mark
                              /\ \A k \in 1 .. Len(box) : new[k + 1] = box[k]
  <2>1. mark \in Int
    BY DEF Placeholder, Message
  <2> QED BY <2>1, Marked
<1>3. \A k \in 1 .. n + 1 : new[k] \in {Placeholder, Message}
  <2> TAKE k \in 1 .. n + 1
  <2>1. CASE k = 1
    BY <1>2, <2>1
  <2>2. CASE k # 1
    <3>1. k - 1 \in 1 .. n /\ k - 1 \in 1 .. Len(box) /\ (k - 1) + 1 = k
      BY <2>2
    <3>2. new[(k - 1) + 1] = box[k - 1] /\ box[k - 1] \in {Placeholder, Message}
      BY <1>1, <1>2, <3>1
    <3> QED BY <3>1, <3>2
  <2> QED BY <2>1, <2>2
<1>4. SubSeq(new, (n + 1) + 1, Len(new)) = typed
  <2>a. PICK a \in Nat : a = n + 1
    OBVIOUS
  <2>b. PICK b \in Nat : b = Len(box)
    OBVIOUS
  <2>1. a = n + 1 /\ b = Len(box) /\ 1 <= a /\ a <= b + 1
    BY <2>a, <2>b
  <2>2. \A k \in a .. b : new[k + 1] = box[k]
    BY <1>2, <2>1
  <2>3. SubSeq(new, a + 1, b + 1) = SubSeq(box, a, b)
    BY <1>2, <2>1, <2>2, SameSlice
  <2> QED BY <1>1, <1>2, <2>1, <2>3
<1>5. n + 1 \in 0 .. Len(new)
  BY <1>2
<1> QED BY <1>2, <1>3, <1>4, <1>5 DEF Whole

LEMMA UnmarkedIsWhole ==
  ASSUME NEW box \in Seq(Int), NEW typed \in Seq(Nat \ {0}),
         Whole(<<Placeholder>> \o box, typed)
  PROVE  Whole(box, typed)
<1>1. PICK new \in Seq(Int) : /\ new = <<Placeholder>> \o box /\ Len(new) = Len(box) + 1
                              /\ new[1] = 0 /\ \A k \in 1 .. Len(box) : new[k + 1] = box[k]
  <2>1. Placeholder \in Int /\ Placeholder = 0
    BY DEF Placeholder
  <2>2. /\ <<Placeholder>> \o box \in Seq(Int) /\ Len(<<Placeholder>> \o box) = Len(box) + 1
        /\ (<<Placeholder>> \o box)[1] = Placeholder
        /\ \A k \in 1 .. Len(box) : (<<Placeholder>> \o box)[k + 1] = box[k]
    BY <2>1, Marked
  <2> QED BY <2>1, <2>2
<1>2. PICK n \in 0 .. Len(new) : /\ \A k \in 1 .. n : new[k] \in {Placeholder, Message}
                                 /\ SubSeq(new, n + 1, Len(new)) = typed
  BY <1>1 DEF Whole
<1>3. n # 0
  <2>1. SUFFICES ASSUME n = 0 PROVE FALSE
    OBVIOUS
  <2>2. SubSeq(new, 1, Len(new)) = typed /\ Len(new) >= 1
    BY <1>1, <1>2, <2>1
  <2>3. typed[1] = new[1] /\ Len(typed) >= 1
    BY <1>1, <2>2
  <2> QED BY <1>1, <2>3
<1>4. \A k \in 1 .. n - 1 : box[k] \in {Placeholder, Message}
  <2> TAKE k \in 1 .. n - 1
  <2>1. k \in 1 .. Len(box) /\ k + 1 \in 1 .. n
    BY <1>1, <1>2
  <2> QED BY <1>1, <1>2, <2>1
<1>5. SubSeq(new, n + 1, Len(new)) = SubSeq(box, (n - 1) + 1, Len(box))
  <2>1. PICK a, b \in Nat : a = n /\ b = Len(box) /\ 1 <= a /\ a <= b + 1
    <3>1. Len(box) \in Nat /\ n \in Nat /\ 1 <= n /\ n <= Len(box) + 1
      BY <1>1, <1>3
    <3> QED BY <3>1
  <2>2. \A k \in a .. b : new[k + 1] = box[k]
    BY <1>1, <2>1
  <2>3. SubSeq(new, a + 1, b + 1) = SubSeq(box, a, b)
    BY <1>1, <2>1, <2>2, SameSlice
  <2>4. (n - 1) + 1 = a
    BY <2>1
  <2> QED BY <1>1, <2>1, <2>3, <2>4
<1>6. n - 1 \in 0 .. Len(box)
  BY <1>1, <1>2, <1>3
<1> QED BY <1>2, <1>4, <1>5, <1>6 DEF Whole

LEMMA TypedIsWhole ==
  ASSUME NEW box \in Seq(Int), NEW typed \in Seq(Int), Whole(box, typed), NEW x \in Int
  PROVE  Whole(Append(box, x), Append(typed, x))
<1>1. PICK n \in 0 .. Len(box) : /\ \A k \in 1 .. n : box[k] \in {Placeholder, Message}
                                 /\ SubSeq(box, n + 1, Len(box)) = typed
  BY DEF Whole
<1>2. PICK new \in Seq(Int) : /\ new = Append(box, x) /\ Len(new) = Len(box) + 1
                              /\ new[Len(box) + 1] = x
                              /\ \A k \in 1 .. Len(box) : new[k] = box[k]
  BY Typed
<1>3. \A k \in 1 .. n : new[k] \in {Placeholder, Message}
  BY <1>1, <1>2
<1>a. PICK a \in Nat : a = n + 1
  OBVIOUS
<1>b. PICK b \in Nat : b = Len(box)
  OBVIOUS
<1>4. 1 <= a /\ a <= b + 1 /\ b <= Len(box) /\ typed = SubSeq(box, a, b)
  BY <1>1, <1>a, <1>b
<1>c. PICK c \in Nat : c = b + 1
  OBVIOUS
<1>d. PICK tail : tail = SubSeq(new, a, c)
  OBVIOUS
<1>5. 1 <= a /\ a <= c + 1 /\ c <= Len(new) /\ c = Len(new) /\ a <= c
  BY <1>2, <1>4, <1>b, <1>c
<1>6. Len(typed) = b - a + 1 /\ \A i \in 1 .. b - a + 1 : typed[i] = box[a + i - 1]
  <2>1. Len(SubSeq(box, a, b)) = b - a + 1
    BY <1>4, Slice
  <2>2. \A i \in 1 .. b - a + 1 : SubSeq(box, a, b)[i] = box[a + i - 1]
    BY <1>4, Slice
  <2> QED BY <1>4, <2>1, <2>2
<1>7. /\ tail \in Seq(Int) /\ Len(tail) = c - a + 1
      /\ \A i \in 1 .. c - a + 1 : tail[i] = new[a + i - 1]
  <2>1. SubSeq(new, a, c) \in Seq(Int) /\ Len(SubSeq(new, a, c)) = c - a + 1
    BY <1>5, Slice
  <2>2. \A i \in 1 .. c - a + 1 : SubSeq(new, a, c)[i] = new[a + i - 1]
    BY <1>5, Slice
  <2> QED BY <1>d, <2>1, <2>2
<1>8. PICK long : long = Append(typed, x)
  OBVIOUS
<1>9. /\ long \in Seq(Int) /\ Len(long) = Len(typed) + 1 /\ long[Len(typed) + 1] = x
      /\ \A i \in 1 .. Len(typed) : long[i] = typed[i]
  BY <1>8, Typed
<1>l. PICK l \in Nat : l = b - a + 1
  BY <1>4
<1>m. Len(typed) = l /\ Len(long) = l + 1 /\ Len(tail) = l + 1 /\ a + l = c
  BY <1>6, <1>7, <1>9, <1>c, <1>l
<1>10. ASSUME NEW i \in 1 .. l + 1 PROVE tail[i] = long[i]
  <2>1. tail[i] = new[a + i - 1]
    BY <1>7, <1>m
  <2>2. CASE i = l + 1
    BY <1>2, <1>9, <1>b, <1>c, <1>m, <2>1, <2>2
  <2>3. CASE i # l + 1
    <3>1. i \in 1 .. l
      BY <2>3
    <3>2. long[i] = typed[i] /\ typed[i] = box[a + i - 1]
      BY <1>6, <1>9, <1>l, <1>m, <3>1
    <3>3. a + i - 1 \in 1 .. b
      BY <1>4, <1>l, <3>1
    <3>4. new[a + i - 1] = box[a + i - 1]
      BY <1>2, <1>b, <3>3
    <3> QED BY <2>1, <3>2, <3>4
  <2> QED BY <2>2, <2>3
<1>11. tail = long
  BY <1>7, <1>9, <1>10, <1>m, SeqEqual
<1>12. SubSeq(new, n + 1, Len(new)) = Append(typed, x)
  BY <1>5, <1>8, <1>11, <1>a, <1>d
<1>13. n \in 0 .. Len(new)
  BY <1>2
<1> QED BY <1>2, <1>3, <1>12, <1>13 DEF Whole

-------------------------------------------------------------------------------
\* What the steps share.

LEMMA RecordsOfCalls ==
  \A s \in ShotRecords :
    /\ Ended(s) \in ShotRecords /\ Ended(s) = [s EXCEPT !.body = "done"]
    /\ Reclaimed(s) \in ShotRecords /\ Reclaimed(s) = [s EXCEPT !.reclaimed = TRUE]
    /\ ShotSettled(s) \in ShotRecords
    /\ ShotSettled(s).collector # "live"
    /\ s.collector = "none" => ShotSettled(s) = s
    /\ s.collector = "settled" => ShotSettled(s) = s
    /\ s.collector = "live" =>
         ShotSettled(s) = [s EXCEPT !.collector = "settled", !.reclaimed = TRUE]
<1> TAKE s \in ShotRecords
<1>1. Ended(s) \in ShotRecords
  BY DEF Ended, ShotRecords, Bodies
<1>2. Reclaimed(s) \in ShotRecords
  BY DEF Reclaimed, ShotRecords
<1>3. CASE s.collector = "live"
  <2>1. PICK t : t = [s EXCEPT !.collector = "settled"]
    OBVIOUS
  <2>2. t \in ShotRecords
    BY <2>1 DEF ShotRecords
  <2>3. ShotSettled(s) = [t EXCEPT !.reclaimed = TRUE]
    BY <1>3, <2>1 DEF ShotSettled, Reclaimed
  <2>4. [t EXCEPT !.reclaimed = TRUE] = [s EXCEPT !.collector = "settled", !.reclaimed = TRUE]
    BY <2>1 DEF ShotRecords
  <2>5. [t EXCEPT !.reclaimed = TRUE] \in ShotRecords /\ [t EXCEPT !.reclaimed = TRUE].collector = "settled"
    BY <2>1, <2>2 DEF ShotRecords
  <2> QED BY <1>1, <1>2, <1>3, <2>3, <2>4, <2>5 DEF Ended, Reclaimed
<1>4. CASE s.collector # "live"
  BY <1>1, <1>2, <1>4 DEF ShotSettled, Ended, Reclaimed
<1> QED BY <1>3, <1>4

LEMMA OneCall ==
  ASSUME OneShotTypes, NEW n \in ShotIds, NEW new \in ShotRecords,
         oneShots' = [oneShots EXCEPT ![n] = new]
  PROVE  /\ oneShots' \in Seq(ShotRecords) /\ ShotIds' = ShotIds /\ oneShots'[n] = new
         /\ \A m \in ShotIds : m # n => oneShots'[m] = oneShots[m]
  BY DEF OneShotTypes, ShotIds

\* A step of one call leaves the others where they were.
LEMMA OthersFit ==
  ASSUME OneShotTypes, CallsFit, NEW n \in ShotIds, NEW new \in ShotRecords,
         oneShots' = [oneShots EXCEPT ![n] = new], UNCHANGED clientVars,
         \A m \in ShotIds : m # n => (rootLease' = m <=> rootLease = m),
         \A m \in ShotIds : m # n => (m \in ephemeral' <=> m \in ephemeral),
         Fits(new, rootLease' = n, n \in ephemeral', connected /\ new.client = client)
  PROVE  CallsFit'
<1>1. /\ ShotIds' = ShotIds /\ oneShots'[n] = new
      /\ \A m \in ShotIds : m # n => oneShots'[m] = oneShots[m]
  BY OneCall
<1>2. UNCHANGED <<client, connected>>
  BY DEF clientVars
<1> SUFFICES ASSUME NEW m \in ShotIds
             PROVE  Fits(oneShots'[m], rootLease' = m, m \in ephemeral', ShotAlive(m)')
  BY <1>1 DEF CallsFit
<1>3. CASE m = n
  <2>1. ShotAlive(n)' <=> connected /\ new.client = client
    BY <1>1, <1>2 DEF ShotAlive
  <2> QED BY <1>1, <1>3, <2>1 DEF Fits
<1>4. CASE m # n
  <2>1. ShotAlive(m)' <=> ShotAlive(m)
    BY <1>1, <1>2, <1>4 DEF ShotAlive
  <2>2. Fits(oneShots[m], rootLease = m, m \in ephemeral, ShotAlive(m)) /\ oneShots'[m] = oneShots[m]
    BY <1>1, <1>4 DEF CallsFit
  <2> QED BY <1>4, <2>1, <2>2 DEF Fits
<1> QED BY <1>3, <1>4

\* What a step that neither writes into the box nor takes or leaves the root
\* for a call keeps of it.
LEMMA BoxStays ==
  ASSUME OneShotTypes, BoxSound, UNCHANGED boxVars,
         rootLease' = rootLease \/ (rootLease \in {Nobody, Turn} /\ rootLease' \in {Nobody, Turn}),
         rootLease > 0 => oneShots'[rootLease].cancelled = oneShots[rootLease].cancelled
  PROVE  BoxSound'
<1>1. rootLease \in Int
  BY DEF OneShotTypes, Nobody, Turn, ShotIds
<1>2. UNCHANGED <<boxBefore, commitBox, drafts, adopted>>
  BY DEF boxVars
<1>3. Whole(commitBox, drafts)'
  BY <1>2 DEF BoxSound, Whole
<1>4. CASE rootLease' = rootLease
  BY <1>2, <1>3, <1>4 DEF BoxSound, BoxFollowed
<1>5. CASE rootLease \in {Nobody, Turn} /\ rootLease' \in {Nobody, Turn}
  <2>1. ~ (rootLease > 0) /\ ~ (rootLease' > 0)
    BY <1>5 DEF Nobody, Turn
  <2> QED BY <1>2, <1>3, <1>5, <2>1 DEF BoxSound, BoxFollowed
<1> QED BY <1>4, <1>5

LEMMA EmptyBox == <<>> \in Seq(Int) /\ <<>> \in Seq(Nat \ {0})
OBVIOUS

\* The answer of a call, of whatever kind.
LEMMA AnswerIsSound ==
  ASSUME OneShotTypes, BoxSound, NEW n \in ShotIds, NEW usable, Answered(n, usable),
         drafts' = drafts, adopted' = adopted,
         \A m \in ShotIds : m # n => oneShots'[m].cancelled = oneShots[m].cancelled
  PROVE  /\ rootLease' = IF rootLease = n THEN Nobody ELSE rootLease
         /\ commitBox' \in Seq(Int) /\ boxBefore' \in Seq(Int)
         /\ BoxSound'
<1>1. CASE rootLease # n
  <2>1. UNCHANGED <<rootLease, commitBox, boxBefore>>
    BY <1>1 DEF Answered
  <2>2. rootLease > 0 => rootLease \in ShotIds
    BY DEF OneShotTypes, Nobody, Turn
  <2>3. rootLease > 0 => oneShots'[rootLease].cancelled = oneShots[rootLease].cancelled
    BY <1>1, <2>2
  <2>4. BoxSound'
    BY <2>1, <2>3, BoxStays DEF boxVars
  <2> QED BY <1>1, <2>1, <2>4 DEF OneShotTypes
<1>2. CASE rootLease = n
  <2>1. PICK piece : /\ piece = IF usable /\ ~ oneShots[n].cancelled
                              THEN <<Message>> \o boxBefore ELSE boxBefore
                    /\ commitBox' = BoxWith(piece)
    BY <1>2 DEF Answered
  <2>2. rootLease' = Nobody /\ boxBefore' = <<>>
    BY <1>2 DEF Answered
  <2>3. boxBefore \in Seq(Int) /\ commitBox \in Seq(Int) /\ n > 0 /\ ~ (rootLease' > 0)
        /\ drafts \in Seq(Nat \ {0}) /\ drafts \in Seq(Int)
    BY <2>2 DEF OneShotTypes, Nobody, ShotIds
  <2>4. piece \in Seq(Int)
    BY <2>1, <2>3, Marked DEF Message
  <2>5. CASE commitBox = <<Placeholder>> \o boxBefore
    <3>1. commitBox' = piece
      BY <2>1, <2>5 DEF BoxWith
    <3>2. Whole(boxBefore, drafts)
      BY <2>3, <2>5, UnmarkedIsWhole DEF BoxSound
    <3>3. Whole(piece, drafts)
      BY <2>1, <2>3, <3>2, MarkedIsWhole
    <3>4. Placeholder \in Range(piece) => Placeholder \in Range(boxBefore)
      <4>1. CASE piece = boxBefore
        BY <4>1
      <4>2. CASE piece = <<Message>> \o boxBefore
        <5>1. SUFFICES ASSUME NEW k \in 1 .. Len(piece), piece[k] = Placeholder
                       PROVE  Placeholder \in Range(boxBefore)
          BY <2>4 DEF Range
        <5>2. /\ Len(piece) = Len(boxBefore) + 1 /\ piece[1] = Message
              /\ \A j \in 1 .. Len(boxBefore) : piece[j + 1] = boxBefore[j]
          BY <2>3, <4>2, Marked DEF Message
        <5>3. k # 1
          BY <5>1, <5>2 DEF Placeholder, Message
        <5>4. k - 1 \in 1 .. Len(boxBefore) /\ (k - 1) + 1 = k
          BY <2>3, <5>2, <5>3
        <5>5. boxBefore[k - 1] = Placeholder
          BY <5>1, <5>2, <5>4
        <5> QED BY <2>3, <5>4, <5>5 DEF Range
      <4> QED BY <2>1, <4>1, <4>2
    <3>5. Placeholder \in Range(piece) => adopted
      BY <1>2, <2>3, <2>5, <3>4 DEF BoxSound, BoxFollowed
    <3>6. Whole(commitBox, drafts)'
      BY <3>1, <3>3 DEF Whole
    <3>7. BoxFollowed'
      BY <2>3, <3>1, <3>5 DEF BoxFollowed
    <3> QED BY <1>2, <2>2, <2>4, <3>1, <3>6, <3>7, EmptyBox DEF BoxSound
  <2>6. CASE commitBox # <<Placeholder>> \o boxBefore
    <3>1. commitBox' = commitBox
      BY <2>1, <2>6 DEF BoxWith
    <3>2. Placeholder \in Range(commitBox) => adopted
      BY <1>2, <2>3, <2>6 DEF BoxSound, BoxFollowed
    <3>3. Whole(commitBox, drafts)'
      BY <3>1 DEF BoxSound, Whole
    <3>4. BoxFollowed'
      BY <2>3, <3>1, <3>2 DEF BoxFollowed
    <3> QED BY <1>2, <2>2, <2>3, <3>1, <3>3, <3>4, EmptyBox DEF BoxSound
  <2> QED BY <2>5, <2>6
<1> QED BY <1>1, <1>2
-------------------------------------------------------------------------------
\* The steps of one call.

LEMMA CallStep ==
  ASSUME OneShotInv, NEW n \in ShotIds, NEW new \in ShotRecords,
         oneShots' = [oneShots EXCEPT ![n] = new], UNCHANGED <<clientVars, idVars>>,
         new.known = oneShots[n].known, new.client \in {oneShots[n].client, client},
         rootLease' \in {Nobody, Turn} \cup ShotIds,
         \A m \in ShotIds : m # n => (rootLease' = m <=> rootLease = m),
         ephemeral' \in {ephemeral, ephemeral \ {n}},
         Fits(new, rootLease' = n, n \in ephemeral', connected /\ new.client = client),
         commitBox' \in Seq(Int), boxBefore' \in Seq(Int), UNCHANGED <<drafts, adopted>>,
         BoxSound'
  PROVE  OneShotInv'
<1>1. OneShotTypes /\ CallsFit /\ HistoryHidesOneShots
  BY DEF OneShotInv
<1>2. /\ oneShots' \in Seq(ShotRecords) /\ ShotIds' = ShotIds /\ oneShots'[n] = new
      /\ \A m \in ShotIds : m # n => oneShots'[m] = oneShots[m]
  BY <1>1, OneCall
<1>3. CallsFit'
  <2>1. \A m \in ShotIds : m # n => (m \in ephemeral' <=> m \in ephemeral)
    OBVIOUS
  <2> QED BY <1>1, <2>1, OthersFit
<1>4. OneShotTypes'
  <2>1. \A m \in ShotIds : oneShots'[m].client <= client
    BY <1>1, <1>2 DEF OneShotTypes
  <2> QED BY <1>1, <1>2, <2>1 DEF OneShotTypes, clientVars, idVars
<1>5. HistoryHidesOneShots'
  <2>1. UNCHANGED <<oneShotIds, forgotten>>
    BY DEF idVars
  <2>2. \A m \in ShotIds : oneShots'[m].known = oneShots[m].known
    BY <1>2
  <2> QED BY <1>1, <1>2, <2>1, <2>2 DEF HistoryHidesOneShots
<1> QED BY <1>3, <1>4, <1>5 DEF OneShotInv

\* A step of one call that answers it.
LEMMA AnswerStep ==
  ASSUME OneShotInv, NEW n \in ShotIds, NEW new \in ShotRecords,
         oneShots' = [oneShots EXCEPT ![n] = new], UNCHANGED <<clientVars, idVars>>,
         new.known = oneShots[n].known /\ new.client = oneShots[n].client, NEW usable, Answered(n, usable),
         ephemeral' \in {ephemeral, ephemeral \ {n}}, UNCHANGED <<drafts, adopted>>,
         Fits(new, FALSE, n \in ephemeral', connected /\ new.client = client)
  PROVE  OneShotInv'
<1>1. OneShotTypes /\ BoxSound
  BY DEF OneShotInv
<1>2. \A m \in ShotIds : m # n => oneShots'[m].cancelled = oneShots[m].cancelled
  BY <1>1, OneCall
<1>3. /\ rootLease' = IF rootLease = n THEN Nobody ELSE rootLease
      /\ commitBox' \in Seq(Int) /\ boxBefore' \in Seq(Int) /\ BoxSound'
  BY <1>1, <1>2, AnswerIsSound
<1>4. rootLease' \in {Nobody, Turn} \cup ShotIds /\ rootLease' # n
  BY <1>1, <1>3 DEF OneShotTypes, ShotIds, Nobody
<1>5. \A m \in ShotIds : m # n => (rootLease' = m <=> rootLease = m)
  BY <1>3 DEF ShotIds, Nobody
<1>6. Fits(new, rootLease' = n, n \in ephemeral', connected /\ new.client = client)
  BY <1>4
<1> QED BY <1>3, <1>4, <1>5, <1>6, CallStep

\* A step of one call that nobody but the call sees.
LEMMA QuietStep ==
  ASSUME OneShotInv, NEW n \in ShotIds, NEW new \in ShotRecords,
         oneShots' = [oneShots EXCEPT ![n] = new], UNCHANGED <<clientVars, idVars, boxVars>>,
         rootLease' = rootLease, ephemeral' = ephemeral,
         new.known = oneShots[n].known /\ new.client = oneShots[n].client, new.cancelled = oneShots[n].cancelled,
         Fits(new, rootLease = n, n \in ephemeral, connected /\ new.client = client)
  PROVE  OneShotInv'
<1>1. OneShotTypes /\ BoxSound
  BY DEF OneShotInv
<1>2. /\ oneShots'[n] = new
      /\ \A m \in ShotIds : m # n => oneShots'[m] = oneShots[m]
  BY <1>1, OneCall
<1>3. rootLease > 0 => oneShots'[rootLease].cancelled = oneShots[rootLease].cancelled
  BY <1>1, <1>2 DEF OneShotTypes, Nobody, Turn
<1>4. BoxSound'
  BY <1>1, <1>3, BoxStays
<1>5. Fits(new, rootLease' = n, n \in ephemeral', connected /\ new.client = client)
  OBVIOUS
<1>6. commitBox' \in Seq(Int) /\ boxBefore' \in Seq(Int) /\ rootLease' \in {Nobody, Turn} \cup ShotIds
      /\ UNCHANGED <<drafts, adopted>>
  BY <1>1 DEF OneShotTypes, boxVars
<1> QED BY <1>4, <1>5, <1>6, CallStep

\* The record of a call, and what is known of it.
LEMMA CallOf ==
  ASSUME OneShotInv, NEW n \in ShotIds
  PROVE  /\ oneShots[n] \in ShotRecords /\ n \in Nat \ {0}
         /\ Fits(oneShots[n], rootLease = n, n \in ephemeral, ShotAlive(n))
<1>1. oneShots[n] \in ShotRecords /\ n \in Nat \ {0}
  BY DEF OneShotInv, OneShotTypes, ShotIds
<1>2. Fits(oneShots[n], rootLease = n, n \in ephemeral, ShotAlive(n))
  BY DEF OneShotInv, CallsFit
<1> QED BY <1>1, <1>2

\* A call whose collector was settled.
LEMMA SettledCall ==
  ASSUME NEW s \in ShotRecords, s.collector = "settled" => s.reclaimed
  PROVE  /\ ShotSettled(s).known = s.known /\ ShotSettled(s).timedOut = s.timedOut
         /\ ShotSettled(s).client = s.client /\ ShotSettled(s).body = s.body
         /\ ShotSettled(s).prompting = s.prompting
         /\ ShotSettled(s).collector \in {"none", "settled"}
         /\ (ShotSettled(s).collector = "none") <=> (s.collector = "none")
         /\ ShotSettled(s).collector = "settled" => ShotSettled(s).reclaimed
         /\ s.reclaimed => ShotSettled(s).reclaimed
<1>1. CASE s.collector = "live"
  <2>1. PICK t : t = [s EXCEPT !.collector = "settled", !.reclaimed = TRUE] /\ t = ShotSettled(s)
    BY <1>1, RecordsOfCalls
  <2>2. t.client = s.client /\ t.body = s.body /\ t.collector = "settled" /\ t.reclaimed = TRUE
    BY <2>1 DEF ShotRecords
  <2>3. t.known = s.known /\ t.timedOut = s.timedOut /\ t.prompting = s.prompting
    BY <2>1 DEF ShotRecords
  <2> QED BY <1>1, <2>1, <2>2, <2>3
<1>2. CASE s.collector # "live"
  <2>1. ShotSettled(s) = s /\ s.collector \in {"none", "settled"}
    BY <1>2, RecordsOfCalls DEF ShotRecords
  <2> QED BY <2>1
<1> QED BY <1>1, <1>2

LEMMA NewSessionFailsSound ==
  ASSUME OneShotInv, NEW n \in ShotIds, NewSessionFails(n)
  PROVE  OneShotInv'
<1>1. PICK s \in ShotRecords : s = oneShots[n]
  BY CallOf
<1>2. PICK new \in ShotRecords : new = Ended(s) /\ new = [s EXCEPT !.body = "done"]
  BY RecordsOfCalls
<1>3. Fits(new, FALSE, n \in ephemeral', connected /\ new.client = client)
  BY <1>1, <1>2, CallOf DEF NewSessionFails, Fits, ShotRecords, ShotAlive
<1>4. oneShots' = [oneShots EXCEPT ![n] = new] /\ new.known = oneShots[n].known /\ new.client = oneShots[n].client
  BY <1>1, <1>2 DEF NewSessionFails, ShotRecords
<1>5. /\ UNCHANGED <<clientVars, idVars, drafts, adopted>> /\ ephemeral' \in {ephemeral, ephemeral \ {n}}
      /\ Answered(n, FALSE)
  BY DEF NewSessionFails
<1> QED BY <1>3, <1>4, <1>5, AnswerStep

LEMMA ModeAnswersSound ==
  ASSUME OneShotInv, NEW n \in ShotIds, ModeAnswers(n)
  PROVE  OneShotInv'
<1>1. PICK s \in ShotRecords : s = oneShots[n]
  BY CallOf
<1>2. PICK new : new = [s EXCEPT !.body = IF s.timedOut THEN "done" ELSE "snapshot"]
  OBVIOUS
<1>3. new \in ShotRecords
  BY <1>2 DEF ShotRecords, Bodies
<1>4. Fits(new, rootLease = n, n \in ephemeral, connected /\ new.client = client)
  BY <1>1, <1>2, CallOf DEF ModeAnswers, Fits, ShotRecords, ShotAlive
<1>5. /\ oneShots' = [oneShots EXCEPT ![n] = new]
      /\ new.known = oneShots[n].known /\ new.client = oneShots[n].client /\ new.cancelled = oneShots[n].cancelled
  BY <1>1, <1>2 DEF ModeAnswers, ShotRecords
<1> QED BY <1>3, <1>4, <1>5, QuietStep DEF ModeAnswers

LEMMA ModeFailsSound ==
  ASSUME OneShotInv, NEW n \in ShotIds, ModeFails(n)
  PROVE  OneShotInv'
<1>1. PICK s \in ShotRecords : s = oneShots[n]
  BY CallOf
<1>2. PICK t \in ShotRecords : t = Reclaimed(s) /\ t = [s EXCEPT !.reclaimed = TRUE]
  BY RecordsOfCalls
<1>3. PICK new \in ShotRecords : new = Ended(t) /\ new = [t EXCEPT !.body = "done"]
  BY RecordsOfCalls
<1>4. Fits(new, FALSE, n \in ephemeral', connected /\ new.client = client)
  BY <1>1, <1>2, <1>3, CallOf DEF ModeFails, Fits, ShotRecords, ShotAlive
<1>5. oneShots' = [oneShots EXCEPT ![n] = new] /\ new.known = oneShots[n].known /\ new.client = oneShots[n].client
  BY <1>1, <1>2, <1>3 DEF ModeFails, ShotRecords
<1>6. /\ UNCHANGED <<clientVars, idVars, drafts, adopted>> /\ ephemeral' \in {ephemeral, ephemeral \ {n}}
      /\ Answered(n, FALSE)
  BY DEF ModeFails
<1> QED BY <1>4, <1>5, <1>6, AnswerStep

LEMMA SnapshotEndsSound ==
  ASSUME OneShotInv, NEW n \in ShotIds, SnapshotEnds(n)
  PROVE  OneShotInv'
<1>1. PICK s \in ShotRecords : s = oneShots[n]
  BY CallOf
<1>2. CASE Late(s) \/ ~ ShotAlive(n)
  <2>1. PICK new \in ShotRecords : new = Ended(s) /\ new = [s EXCEPT !.body = "done"]
    BY RecordsOfCalls
  <2>2. Fits(new, FALSE, n \in ephemeral', connected /\ new.client = client)
    BY <1>1, <1>2, <2>1, CallOf DEF SnapshotEnds, Fits, ShotRecords, ShotAlive, Late
  <2>3. /\ oneShots' = [oneShots EXCEPT ![n] = new] /\ new.known = oneShots[n].known /\ new.client = oneShots[n].client
        /\ Answered(n, FALSE)
    BY <1>1, <1>2, <2>1 DEF SnapshotEnds, ShotRecords
  <2> QED BY <2>2, <2>3, AnswerStep DEF SnapshotEnds
<1>3. CASE ~ (Late(s) \/ ~ ShotAlive(n))
  <2>1. PICK new : new = [s EXCEPT !.body = "prompt", !.prompting = TRUE]
    OBVIOUS
  <2>2. new \in ShotRecords
    BY <2>1 DEF ShotRecords, Bodies
  <2>3. Fits(new, rootLease = n, n \in ephemeral, connected /\ new.client = client)
    BY <1>1, <1>3, <2>1, CallOf DEF SnapshotEnds, Fits, ShotRecords, ShotAlive, Late
  <2>4. /\ oneShots' = [oneShots EXCEPT ![n] = new]
        /\ new.known = oneShots[n].known /\ new.client = oneShots[n].client /\ new.cancelled = oneShots[n].cancelled
    BY <1>1, <1>3, <2>1 DEF SnapshotEnds, ShotRecords
  <2>5. UNCHANGED <<rootLease, ephemeral, clientVars, idVars, boxVars>>
    BY <1>1, <1>3 DEF SnapshotEnds, boxVars
  <2> QED BY <2>2, <2>3, <2>4, <2>5, QuietStep
<1> QED BY <1>2, <1>3

LEMMA PromptEndsSound ==
  ASSUME OneShotInv, NEW n \in ShotIds, NEW usable \in BOOLEAN, PromptEnds(n, usable)
  PROVE  OneShotInv'
<1>1. PICK s \in ShotRecords : s = oneShots[n]
  BY CallOf
<1>2. PICK t \in ShotRecords : t = ShotSettled(s)
  BY RecordsOfCalls
<1>3. /\ t.known = s.known /\ t.timedOut = s.timedOut /\ t.client = s.client
      /\ t.collector \in {"none", "settled"}
      /\ t.collector = "none" => s.collector = "none"
      /\ t.collector = "settled" => t.reclaimed
      /\ s.reclaimed => t.reclaimed
  BY <1>1, <1>2, CallOf, SettledCall DEF Fits
<1>4. PICK u \in ShotRecords : u = Ended(t) /\ u = [t EXCEPT !.body = "done"]
  BY RecordsOfCalls
<1>5. PICK new : new = [u EXCEPT !.prompting = FALSE]
  OBVIOUS
<1>6. new \in ShotRecords
  BY <1>4, <1>5 DEF ShotRecords
<1>7. ~ (n \in ephemeral') /\ (s.known => t.reclaimed)
  BY <1>1, <1>3, CallOf DEF PromptEnds, Fits, ShotRecords
<1>8. Fits(new, FALSE, n \in ephemeral', connected /\ new.client = client)
  BY <1>1, <1>3, <1>4, <1>5, <1>7, CallOf DEF PromptEnds, Fits, ShotRecords, ShotAlive
<1>9. oneShots' = [oneShots EXCEPT ![n] = new] /\ new.known = oneShots[n].known /\ new.client = oneShots[n].client
  BY <1>1, <1>2, <1>3, <1>4, <1>5 DEF PromptEnds, ShotRecords
<1>10. /\ UNCHANGED <<clientVars, idVars, drafts, adopted>> /\ ephemeral' \in {ephemeral, ephemeral \ {n}}
      /\ Answered(n, usable /\ oneShots[n].collector = "live")
  BY DEF PromptEnds
<1> QED BY <1>6, <1>8, <1>9, <1>10, AnswerStep

LEMMA TripwireSound ==
  ASSUME OneShotInv, NEW n \in ShotIds, Tripwire(n)
  PROVE  OneShotInv'
<1>1. PICK s \in ShotRecords : s = oneShots[n]
  BY CallOf
<1>2. PICK t \in ShotRecords : /\ t = ShotSettled(s)
                               /\ t = [s EXCEPT !.collector = "settled", !.reclaimed = TRUE]
  BY <1>1, RecordsOfCalls DEF Tripwire
<1>3. PICK u \in ShotRecords : u = Ended(t) /\ u = [t EXCEPT !.body = "done"]
  BY RecordsOfCalls
<1>4. PICK new : new = [u EXCEPT !.stopped = TRUE]
  OBVIOUS
<1>5. new \in ShotRecords
  BY <1>3, <1>4 DEF ShotRecords
<1>6. Fits(new, FALSE, n \in ephemeral', connected /\ new.client = client)
  BY <1>1, <1>2, <1>3, <1>4, CallOf DEF Tripwire, Fits, ShotRecords, ShotAlive
<1>7. oneShots' = [oneShots EXCEPT ![n] = new] /\ new.known = oneShots[n].known /\ new.client = oneShots[n].client
  BY <1>1, <1>2, <1>3, <1>4 DEF Tripwire, ShotRecords
<1>8. /\ UNCHANGED <<clientVars, idVars, drafts, adopted>> /\ ephemeral' \in {ephemeral, ephemeral \ {n}}
      /\ Answered(n, FALSE)
  BY DEF Tripwire
<1> QED BY <1>5, <1>6, <1>7, <1>8, AnswerStep

LEMMA DeadlineSound ==
  ASSUME OneShotInv, NEW n \in ShotIds, Deadline(n)
  PROVE  OneShotInv'
<1>1. PICK s \in ShotRecords : s = oneShots[n]
  BY CallOf
<1>2. PICK t \in ShotRecords : t = ShotSettled(s)
  BY RecordsOfCalls
<1>3. /\ t.known = s.known /\ t.client = s.client /\ t.prompting = s.prompting /\ t.body = s.body
      /\ t.collector \in {"none", "settled"}
      /\ (t.collector = "none") <=> (s.collector = "none")
      /\ t.collector = "settled" => t.reclaimed
      /\ s.reclaimed => t.reclaimed
  BY <1>1, <1>2, CallOf, SettledCall DEF Fits
<1>4. PICK new : new = [t EXCEPT !.timedOut = TRUE, !.stopped = s.prompting,
                                 !.body = IF s.prompting THEN "done" ELSE s.body]
  OBVIOUS
<1>5. new \in ShotRecords
  BY <1>4 DEF ShotRecords, Bodies
<1>6. Fits(new, FALSE, n \in ephemeral', connected /\ new.client = client)
  BY <1>1, <1>3, <1>4, CallOf DEF Deadline, Fits, ShotRecords, ShotAlive
<1>7. oneShots' = [oneShots EXCEPT ![n] = new] /\ new.known = oneShots[n].known /\ new.client = oneShots[n].client
  BY <1>1, <1>2, <1>3, <1>4 DEF Deadline, ShotRecords
<1>8. UNCHANGED <<clientVars, idVars, drafts, adopted>> /\ ephemeral' \in {ephemeral, ephemeral \ {n}}
      /\ Answered(n, FALSE)
  BY DEF Deadline
<1> QED BY <1>5, <1>6, <1>7, <1>8, AnswerStep

LEMMA CancelSound ==
  ASSUME OneShotInv, NEW n \in ShotIds, CancelGeneration(n)
  PROVE  OneShotInv'
<1>1. PICK s \in ShotRecords : s = oneShots[n]
  BY CallOf
<1>2. PICK new : new = [s EXCEPT !.cancelled = TRUE]
  OBVIOUS
<1>3. new \in ShotRecords
  BY <1>2 DEF ShotRecords
<1>4. /\ oneShots' = [oneShots EXCEPT ![n] = new] /\ new.known = oneShots[n].known /\ new.client = oneShots[n].client
      /\ UNCHANGED <<rootLease, clientVars, ephemeral, idVars, boxBefore, drafts, adopted>>
  BY <1>1, <1>2 DEF CancelGeneration, ShotRecords
<1>5. Fits(new, rootLease' = n, n \in ephemeral', connected /\ new.client = client)
  BY <1>1, <1>2, <1>4, CallOf DEF Fits, ShotRecords, ShotAlive
<1>6. OneShotTypes /\ BoxSound
  BY DEF OneShotInv
<1>7. /\ oneShots'[n] = new
      /\ \A m \in ShotIds : m # n => oneShots'[m] = oneShots[m]
  BY <1>3, <1>4, <1>6, OneCall
<1>8. BoxSound' /\ commitBox' \in Seq(Int)
  <2>1. CASE rootLease # n
    <3>1. commitBox' = commitBox
      BY <2>1 DEF CancelGeneration
    <3>2. rootLease > 0 => oneShots'[rootLease].cancelled = oneShots[rootLease].cancelled
      BY <1>6, <1>7, <2>1 DEF OneShotTypes, Nobody, Turn
    <3>3. BoxSound'
      BY <1>4, <1>6, <3>1, <3>2, BoxStays DEF boxVars
    <3> QED BY <1>6, <3>1, <3>3 DEF OneShotTypes
  <2>2. CASE rootLease = n /\ commitBox = <<Placeholder>> \o boxBefore
    <3>1. commitBox' = boxBefore
      BY <2>2 DEF CancelGeneration, BoxWith
    <3>2. Whole(boxBefore, drafts)
      BY <1>6, <2>2, UnmarkedIsWhole DEF BoxSound, OneShotTypes
    <3>3. Whole(commitBox, drafts)'
      BY <1>4, <3>1, <3>2 DEF Whole
    <3>4. Placeholder \in Range(boxBefore) => adopted
      BY <1>6, <2>2, CallOf DEF BoxSound, BoxFollowed
    <3>5. BoxFollowed'
      BY <1>4, <3>1, <3>4 DEF BoxFollowed
    <3> QED BY <1>6, <3>1, <3>3, <3>5 DEF BoxSound, OneShotTypes
  <2>3. CASE rootLease = n /\ commitBox # <<Placeholder>> \o boxBefore
    <3>1. commitBox' = commitBox
      BY <2>3 DEF CancelGeneration, BoxWith
    <3>2. Whole(commitBox, drafts)'
      BY <1>4, <1>6, <3>1 DEF BoxSound, Whole
    <3>3. Placeholder \in Range(commitBox) => adopted
      BY <1>6, <2>3, CallOf DEF BoxSound, BoxFollowed
    <3>5. commitBox' # <<Placeholder>> \o boxBefore'
      BY <1>4, <2>3, <3>1
    <3>4. BoxFollowed'
      BY <1>4, <3>1, <3>3, <3>5 DEF BoxFollowed
    <3> QED BY <1>6, <3>1, <3>2, <3>4 DEF BoxSound, OneShotTypes
  <2> QED BY <2>1, <2>2, <2>3
<1>9. boxBefore' \in Seq(Int) /\ rootLease' \in {Nobody, Turn} \cup ShotIds
  BY <1>4, <1>6 DEF OneShotTypes
<1> QED BY <1>3, <1>4, <1>5, <1>8, <1>9, CallStep

LEMMA GitAnswersSound ==
  ASSUME OneShotInv, NEW n \in ShotIds, GitAnswers(n)
  PROVE  OneShotInv'
<1>1. PICK s \in ShotRecords : s = oneShots[n]
  BY CallOf
<1>2. OneShotTypes /\ BoxSound
  BY DEF OneShotInv
<1>3. CASE oneShots' = [oneShots EXCEPT ![n] = Ended(@)] /\ UNCHANGED <<rootLease, commitBox, boxBefore>>
  <2>1. PICK new \in ShotRecords : new = Ended(s) /\ new = [s EXCEPT !.body = "done"]
    BY RecordsOfCalls
  <2>2. Fits(new, rootLease = n, n \in ephemeral, connected /\ new.client = client)
    BY <1>1, <2>1, CallOf DEF GitAnswers, Fits, ShotRecords, ShotAlive
  <2>3. /\ oneShots' = [oneShots EXCEPT ![n] = new]
        /\ new.known = oneShots[n].known /\ new.client = oneShots[n].client /\ new.cancelled = oneShots[n].cancelled
    BY <1>1, <1>3, <2>1 DEF ShotRecords
  <2>4. UNCHANGED <<clientVars, idVars, boxVars>> /\ rootLease' = rootLease /\ ephemeral' = ephemeral
    BY <1>3 DEF GitAnswers, boxVars
  <2> QED BY <2>2, <2>3, <2>4, QuietStep
<1>4. CASE /\ ~ oneShots[n].cancelled /\ connected /\ rootLease = Nobody
           /\ rootLease' = n
           /\ boxBefore' = commitBox /\ commitBox' = <<Placeholder>> \o commitBox
           /\ oneShots' = [oneShots EXCEPT ![n].body = "new", ![n].client = client]
  <2>1. PICK new : new = [s EXCEPT !.body = "new", !.client = client]
    OBVIOUS
  <2>2. new \in ShotRecords
    BY <1>2, <2>1 DEF ShotRecords, Bodies, OneShotTypes
  <2>3. oneShots' = [oneShots EXCEPT ![n] = new]
    <3>1. oneShots \in Seq(ShotRecords) /\ n \in 1 .. Len(oneShots)
      BY <1>2 DEF OneShotTypes, ShotIds
    <3> QED BY <1>1, <1>4, <2>1, <3>1 DEF ShotRecords
  <2>4. new.known = oneShots[n].known /\ new.client = client /\ ~ new.cancelled
    BY <1>1, <1>4, <2>1 DEF ShotRecords
  <2>5. UNCHANGED <<clientVars, idVars, ephemeral, drafts, adopted>>
    BY DEF GitAnswers
  <2>6. Fits(new, rootLease' = n, n \in ephemeral', connected /\ new.client = client)
    BY <1>1, <1>4, <2>1, <2>5, CallOf DEF GitAnswers, Fits, ShotRecords, ShotAlive
  <2>7. oneShots'[n] = new
    BY <1>2, <2>2, <2>3, OneCall
  <2>8. commitBox \in Seq(Int) /\ drafts \in Seq(Int) /\ n > 0 /\ ~ (rootLease > 0)
    BY <1>2, <1>4 DEF OneShotTypes, ShotIds, Nobody
  <2>9. commitBox' \in Seq(Int) /\ boxBefore' \in Seq(Int)
    BY <1>4, <2>8, Marked DEF Placeholder
  <2>10. Whole(<<Placeholder>> \o commitBox, drafts)
    BY <1>2, <2>8, MarkedIsWhole DEF BoxSound
  <2>11. Whole(commitBox, drafts)'
    BY <1>4, <2>5, <2>10 DEF Whole
  <2>12. BoxFollowed'
    <3>1. Placeholder \in Range(commitBox) => adopted
      BY <1>2, <2>8 DEF BoxSound, BoxFollowed
    <3>2. commitBox' = <<Placeholder>> \o boxBefore' /\ ~ oneShots'[rootLease'].cancelled
      BY <1>4, <2>4, <2>7
    <3>3. Placeholder \in Range(boxBefore') => adopted'
      BY <1>4, <2>5, <3>1
    <3>4. rootLease' > 0
      BY <1>4, <2>8
    <3> QED BY <3>2, <3>3, <3>4 DEF BoxFollowed
  <2>13. BoxSound'
    BY <2>11, <2>12 DEF BoxSound
  <2>14. rootLease' \in {Nobody, Turn} \cup ShotIds
    BY <1>4
  <2>15. \A m \in ShotIds : m # n => (rootLease' = m <=> rootLease = m)
    BY <1>4 DEF ShotIds, Nobody
  <2> QED BY <2>2, <2>3, <2>4, <2>5, <2>6, <2>9, <2>13, <2>14, <2>15, CallStep
<1> QED BY <1>3, <1>4 DEF GitAnswers

\* The registry holds the id that comes in, and loses none it does not count.
LEMMA RecordKeeps ==
  ASSUME OneShotTypes, NEW n \in ShotIds, Record(n)
  PROVE  /\ oneShotIds' \in Seq(Nat) /\ storedIds' \in Seq(Nat)
         /\ n \in Range(oneShotIds')
         /\ Range(oneShotIds) \cup forgotten \subseteq Range(oneShotIds') \cup forgotten'
<1>1. n \in Nat /\ oneShotIds \in Seq(Nat) /\ storedIds \in Seq(Nat) /\ MaxIds \in Nat \ {0}
  BY OneShotAssumption DEF OneShotTypes, ShotIds
<1>2. PICK ids \in Seq(Nat) : /\ ids = Append(oneShotIds, n) /\ Len(ids) = Len(oneShotIds) + 1
                              /\ ids[Len(oneShotIds) + 1] = n
  <2>1. /\ Append(oneShotIds, n) \in Seq(Nat) /\ Len(Append(oneShotIds, n)) = Len(oneShotIds) + 1
        /\ Append(oneShotIds, n)[Len(oneShotIds) + 1] = n
    BY <1>1
  <2> QED BY <2>1
<1>3. oneShotIds' = IF Len(ids) > MaxIds THEN Tail(ids) ELSE ids
  BY <1>2 DEF Record, RecordedIds
<1>4. oneShotIds' \in Seq(Nat) /\ n \in Range(oneShotIds')
  <2>1. CASE Len(ids) > MaxIds
    <3>1. Len(ids) >= 2
      BY <1>1, <1>2, <2>1
    <3>2. Tail(ids) \in Seq(Nat) /\ Len(Tail(ids)) = Len(ids) - 1 /\ Tail(ids)[Len(ids) - 1] = ids[Len(ids)]
      BY <3>1
    <3>3. Len(ids) - 1 \in 1 .. Len(Tail(ids)) /\ Tail(ids)[Len(ids) - 1] = n
      BY <1>1, <1>2, <3>1, <3>2
    <3>4. DOMAIN Tail(ids) = 1 .. Len(Tail(ids))
      BY <3>2
    <3>5. n \in Range(Tail(ids))
      BY <3>3, <3>4 DEF Range
    <3> QED BY <1>3, <2>1, <3>2, <3>5
  <2>2. CASE ~ (Len(ids) > MaxIds)
    <3>1. Len(ids) \in 1 .. Len(ids) /\ ids[Len(ids)] = n
      BY <1>1, <1>2
    <3> QED BY <1>3, <2>2, <3>1 DEF Range
  <2> QED BY <2>1, <2>2
<1>5. storedIds' \in Seq(Nat)
  BY <1>1, <1>4 DEF Record
<1>6. Range(oneShotIds) \cup forgotten \subseteq Range(oneShotIds') \cup forgotten'
  BY DEF Record
<1> QED BY <1>4, <1>5, <1>6

LEMMA NewSessionAnswersSound ==
  ASSUME OneShotInv, NEW n \in ShotIds, NewSessionAnswers(n)
  PROVE  OneShotInv'
<1>1. PICK s \in ShotRecords : s = oneShots[n]
  BY CallOf
<1>2. OneShotTypes /\ CallsFit /\ HistoryHidesOneShots /\ BoxSound
  BY DEF OneShotInv
<1>3. Record(n) /\ UNCHANGED <<rootLease, clientVars, boxVars>>
  BY DEF NewSessionAnswers
<1>4. PICK new \in ShotRecords :
        /\ oneShots' = [oneShots EXCEPT ![n] = new]
        /\ new.cancelled = s.cancelled /\ new.client = s.client
        /\ ephemeral' \subseteq ephemeral \cup {n}
        /\ \A m \in ShotIds : m # n => (m \in ephemeral' <=> m \in ephemeral)
        /\ Fits(new, rootLease' = n, n \in ephemeral', connected /\ new.client = client)
  <2>1. CASE s.timedOut
    <3>1. PICK t \in ShotRecords : t = Reclaimed(s) /\ t = [s EXCEPT !.reclaimed = TRUE]
      BY RecordsOfCalls
    <3>2. PICK u \in ShotRecords : u = Ended(t) /\ u = [t EXCEPT !.body = "done"]
      BY RecordsOfCalls
    <3>3. PICK new : new = [u EXCEPT !.known = TRUE]
      OBVIOUS
    <3>4. new \in ShotRecords
      BY <3>2, <3>3 DEF ShotRecords
    <3>5. Fits(new, rootLease' = n, n \in ephemeral', connected /\ new.client = client)
      BY <1>1, <1>3, <2>1, <3>1, <3>2, <3>3, CallOf DEF NewSessionAnswers, Fits, ShotRecords, ShotAlive
    <3>6. oneShots' = [oneShots EXCEPT ![n] = new] /\ ephemeral' = ephemeral
      BY <1>1, <2>1, <3>1, <3>2, <3>3 DEF NewSessionAnswers
    <3>7. new.cancelled = s.cancelled /\ new.client = s.client
      BY <3>1, <3>2, <3>3 DEF ShotRecords
    <3> QED BY <3>4, <3>5, <3>6, <3>7
  <2>2. CASE ~ s.timedOut
    <3>1. PICK body \in {"mode", "snapshot"} :
            oneShots' = [oneShots EXCEPT ![n].body = body, ![n].collector = "live", ![n].known = TRUE]
      BY <1>1, <2>2 DEF NewSessionAnswers
    <3>2. PICK new : new = [s EXCEPT !.body = body, !.collector = "live", !.known = TRUE]
      OBVIOUS
    <3>3. new \in ShotRecords
      BY <3>1, <3>2 DEF ShotRecords, Bodies
    <3>4. ephemeral' = ephemeral \cup {n}
      BY <1>1, <2>2 DEF NewSessionAnswers
    <3>5. Fits(new, rootLease' = n, n \in ephemeral', connected /\ new.client = client)
      BY <1>1, <1>3, <2>2, <3>1, <3>2, <3>4, CallOf DEF NewSessionAnswers, Fits, ShotRecords, ShotAlive
    <3>6. oneShots' = [oneShots EXCEPT ![n] = new]
      <4>1. oneShots \in Seq(ShotRecords) /\ n \in 1 .. Len(oneShots)
        BY <1>2 DEF OneShotTypes, ShotIds
      <4> QED BY <1>1, <3>1, <3>2, <4>1 DEF ShotRecords
    <3>7. new.cancelled = s.cancelled /\ new.client = s.client
      BY <3>2 DEF ShotRecords
    <3> QED BY <3>3, <3>4, <3>5, <3>6, <3>7
  <2> QED BY <2>1, <2>2
<1>5. /\ oneShots' \in Seq(ShotRecords) /\ ShotIds' = ShotIds /\ oneShots'[n] = new
      /\ \A m \in ShotIds : m # n => oneShots'[m] = oneShots[m]
  BY <1>2, <1>4, OneCall
<1>6. CallsFit'
  <2>1. \A m \in ShotIds : m # n => (rootLease' = m <=> rootLease = m)
    BY <1>3
  <2>2. UNCHANGED clientVars
    BY <1>3
  <2> QED BY <1>2, <1>4, <2>1, <2>2, OthersFit
<1>7. OneShotTypes'
  <2>1. oneShotIds' \in Seq(Nat) /\ storedIds' \in Seq(Nat)
    BY <1>2, <1>3, RecordKeeps
  <2>2. ephemeral' \subseteq ShotIds
    BY <1>2, <1>4 DEF OneShotTypes
  <2>3. \A m \in ShotIds : oneShots'[m].client <= client
    BY <1>1, <1>2, <1>4, <1>5 DEF OneShotTypes
  <2> QED BY <1>2, <1>3, <1>5, <2>1, <2>2, <2>3 DEF OneShotTypes, clientVars, boxVars
<1>8. HistoryHidesOneShots'
  <2>1. /\ n \in Range(oneShotIds')
        /\ Range(oneShotIds) \cup forgotten \subseteq Range(oneShotIds') \cup forgotten'
    BY <1>2, <1>3, RecordKeeps
  <2>2. SUFFICES ASSUME NEW m \in ShotIds, oneShots'[m].known
                 PROVE  m \in Range(oneShotIds') \cup forgotten'
    BY <1>5 DEF HistoryHidesOneShots
  <2>3. CASE m = n
    BY <2>1, <2>3
  <2>4. CASE m # n
    <3>1. oneShots[m].known
      BY <1>5, <2>2, <2>4
    <3> QED BY <1>2, <2>1, <3>1 DEF HistoryHidesOneShots
  <2> QED BY <2>3, <2>4
<1>9. BoxSound'
  <2>1. rootLease > 0 => oneShots'[rootLease].cancelled = oneShots[rootLease].cancelled
    BY <1>1, <1>2, <1>4, <1>5 DEF OneShotTypes, Nobody, Turn
  <2> QED BY <1>2, <1>3, <2>1, BoxStays
<1> QED BY <1>6, <1>7, <1>8, <1>9 DEF OneShotInv
-------------------------------------------------------------------------------
\* The steps around the calls.

\* A step that leaves the calls, their registry and the box alone.
LEMMA AroundStep ==
  ASSUME OneShotInv, UNCHANGED <<oneShots, ephemeral, idVars, boxVars>>,
         rootLease' = rootLease \/ (rootLease \in {Nobody, Turn} /\ rootLease' \in {Nobody, Turn}),
         client' \in {client, client + 1}, connected' \in BOOLEAN,
         \A n \in ShotIds : ShotAlive(n)' <=> ShotAlive(n)
  PROVE  OneShotInv'
<1>1. OneShotTypes /\ CallsFit /\ HistoryHidesOneShots /\ BoxSound
  BY DEF OneShotInv
<1>2. ShotIds' = ShotIds
  BY DEF ShotIds
<1>3. OneShotTypes'
  <2>1. \A n \in ShotIds : oneShots[n].client <= client /\ oneShots[n].client \in Nat
    BY <1>1, CallOf DEF OneShotTypes, ShotRecords
  <2>2. client \in Nat \ {0}
    BY <1>1 DEF OneShotTypes
  <2>3. client' \in Nat \ {0} /\ \A n \in ShotIds : oneShots[n].client <= client'
    BY <2>1, <2>2
  <2>4. rootLease' \in {Nobody, Turn} \cup ShotIds
    BY <1>1 DEF OneShotTypes
  <2> QED BY <1>1, <1>2, <2>3, <2>4 DEF OneShotTypes, idVars, boxVars
<1>4. CallsFit'
  <2>1. \A n \in ShotIds : (rootLease' = n) <=> (rootLease = n)
    BY DEF ShotIds, Nobody, Turn
  <2> SUFFICES ASSUME NEW n \in ShotIds
               PROVE  Fits(oneShots[n], rootLease' = n, n \in ephemeral, ShotAlive(n)')
    BY <1>2 DEF CallsFit
  <2>2. Fits(oneShots[n], rootLease = n, n \in ephemeral, ShotAlive(n))
    BY <1>1 DEF CallsFit
  <2> QED BY <2>1, <2>2 DEF Fits
<1>5. HistoryHidesOneShots'
  BY <1>1, <1>2 DEF HistoryHidesOneShots, idVars
<1>6. BoxSound'
  BY <1>1, BoxStays
<1> QED BY <1>3, <1>4, <1>5, <1>6 DEF OneShotInv

LEMMA RootSound ==
  ASSUME OneShotInv, TurnTakesRoot \/ TurnLeavesRoot
  PROVE  OneShotInv'
<1>1. UNCHANGED <<oneShots, ephemeral, idVars, boxVars, clientVars>>
  BY DEF TurnTakesRoot, TurnLeavesRoot
<1>2. rootLease \in {Nobody, Turn} /\ rootLease' \in {Nobody, Turn}
  BY DEF TurnTakesRoot, TurnLeavesRoot
<1>3. UNCHANGED <<client, connected>>
  BY <1>1 DEF clientVars
<1>4. client' \in {client, client + 1} /\ connected' \in BOOLEAN
  BY <1>3 DEF OneShotInv, OneShotTypes
<1>5. \A n \in ShotIds : ShotAlive(n)' <=> ShotAlive(n)
  BY <1>1, <1>3 DEF ShotAlive
<1> QED BY <1>1, <1>2, <1>4, <1>5, AroundStep

LEMMA ReconnectedSound ==
  ASSUME OneShotInv, Reconnected
  PROVE  OneShotInv'
<1>1. /\ UNCHANGED <<oneShots, rootLease, ephemeral, idVars, boxVars>>
      /\ client' = client + 1 /\ connected' = TRUE /\ ~ connected
  BY DEF Reconnected
<1>2. client' \in {client, client + 1} /\ connected' \in BOOLEAN
  BY <1>1
<1>3. ASSUME NEW n \in ShotIds PROVE ShotAlive(n)' <=> ShotAlive(n)
  <2>1. oneShots[n].client <= client /\ oneShots[n].client \in Nat /\ client \in Nat
    BY CallOf DEF OneShotInv, OneShotTypes, ShotRecords
  <2> QED BY <1>1, <2>1 DEF ShotAlive
<1> QED BY <1>1, <1>2, <1>3, AroundStep

LEMMA GenerateSound ==
  ASSUME OneShotInv, Generate
  PROVE  OneShotInv'
<1>1. OneShotTypes /\ CallsFit /\ HistoryHidesOneShots /\ BoxSound
  BY DEF OneShotInv
<1>2. PICK l \in Nat : l = Len(oneShots)
  BY <1>1 DEF OneShotTypes
<1>3. PICK new : /\ new = [body |-> "git", client |-> 0, known |-> FALSE, timedOut |-> FALSE,
                           cancelled |-> FALSE, collector |-> "none", prompting |-> FALSE,
                           stopped |-> FALSE, reclaimed |-> FALSE]
                 /\ oneShots' = Append(oneShots, new)
  BY DEF Generate
<1>4. new \in ShotRecords
  BY <1>3 DEF ShotRecords, Bodies
<1>5. UNCHANGED <<rootLease, clientVars, ephemeral, idVars, boxVars>>
  BY DEF Generate
<1>6. UNCHANGED <<rootLease, client, connected, ephemeral, oneShotIds, storedIds, forgotten,
                  boxBefore, commitBox, drafts, adopted>>
  BY <1>5 DEF clientVars, idVars, boxVars
<1>7. /\ oneShots' \in Seq(ShotRecords) /\ Len(oneShots') = l + 1 /\ oneShots'[l + 1] = new
      /\ \A n \in 1 .. l : oneShots'[n] = oneShots[n]
  BY <1>1, <1>2, <1>3, <1>4 DEF OneShotTypes
<1>8. ShotIds = 1 .. l /\ ShotIds' = 1 .. l + 1
  BY <1>2, <1>7 DEF ShotIds
<1>9. l + 1 \notin ephemeral /\ rootLease # l + 1
  BY <1>1, <1>8 DEF OneShotTypes, Nobody, Turn
<1>10. \A n \in ShotIds' : n \in ShotIds \/ n = l + 1
  BY <1>8
<1>11. \A n \in ShotIds : oneShots'[n] = oneShots[n]
  BY <1>7, <1>8
<1>12. OneShotTypes'
  <2>1. \A n \in ShotIds' : oneShots'[n].client <= client
    <3> TAKE n \in ShotIds'
    <3>1. CASE n \in ShotIds
      BY <1>1, <1>11, <3>1 DEF OneShotTypes
    <3>2. CASE n = l + 1
      BY <1>1, <1>3, <1>7, <3>2 DEF OneShotTypes
    <3> QED BY <1>10, <3>1, <3>2
  <2>2. ephemeral \subseteq ShotIds' /\ rootLease \in {Nobody, Turn} \cup ShotIds'
    BY <1>1, <1>8 DEF OneShotTypes
  <2> QED BY <1>1, <1>6, <1>7, <2>1, <2>2 DEF OneShotTypes
<1>13. CallsFit'
  <2> SUFFICES ASSUME NEW n \in ShotIds'
               PROVE  Fits(oneShots'[n], rootLease' = n, n \in ephemeral', ShotAlive(n)')
    BY DEF CallsFit
  <2>1. CASE n \in ShotIds
    <3>1. Fits(oneShots[n], rootLease = n, n \in ephemeral, ShotAlive(n)) /\ oneShots'[n] = oneShots[n]
      BY <1>1, <1>11, <2>1 DEF CallsFit
    <3>2. ShotAlive(n)' <=> ShotAlive(n)
      BY <1>6, <3>1 DEF ShotAlive
    <3> QED BY <1>6, <3>1, <3>2 DEF Fits
  <2>2. CASE n = l + 1
    <3>1. oneShots'[n] = new /\ ~ ShotAlive(n)'
      BY <1>1, <1>3, <1>6, <1>7, <2>2 DEF ShotAlive, OneShotTypes
    <3>2. rootLease' # n /\ n \notin ephemeral'
      BY <1>6, <1>9, <2>2
    <3>3. Fits(new, FALSE, FALSE, FALSE)
      BY <1>3 DEF Fits
    <3> QED BY <3>1, <3>2, <3>3 DEF Fits
  <2> QED BY <1>10, <2>1, <2>2
<1>14. HistoryHidesOneShots'
  <2>1. ~ oneShots'[l + 1].known
    BY <1>3, <1>7
  <2> QED BY <1>1, <1>6, <1>10, <1>11, <2>1 DEF HistoryHidesOneShots
<1>15. BoxSound'
  <2>1. rootLease > 0 => oneShots'[rootLease].cancelled = oneShots[rootLease].cancelled
    BY <1>1, <1>11 DEF OneShotTypes, Nobody, Turn
  <2> QED BY <1>1, <1>5, <2>1, BoxStays
<1> QED BY <1>12, <1>13, <1>14, <1>15 DEF OneShotInv

LEMMA EditBoxSound ==
  ASSUME OneShotInv, EditBox
  PROVE  OneShotInv'
<1>1. OneShotTypes /\ CallsFit /\ HistoryHidesOneShots /\ BoxSound
  BY DEF OneShotInv
<1>2. UNCHANGED <<oneShots, rootLease, client, connected, ephemeral, oneShotIds, storedIds,
                  forgotten, boxBefore>>
  BY DEF EditBox, clientVars, idVars
<1>3. ShotIds' = ShotIds /\ CallsFit' /\ HistoryHidesOneShots'
  <2>1. ShotIds' = ShotIds
    BY <1>2 DEF ShotIds
  <2>2. \A n \in ShotIds : ShotAlive(n)' <=> ShotAlive(n)
    BY <1>2 DEF ShotAlive
  <2> QED BY <1>1, <1>2, <2>1, <2>2 DEF CallsFit, HistoryHidesOneShots, Fits
<1>4. commitBox \in Seq(Int) /\ drafts \in Seq(Int) /\ drafts \in Seq(Nat \ {0}) /\ boxBefore \in Seq(Int)
  BY <1>1 DEF OneShotTypes
<1>5. commitBox' \in Seq(Int) /\ drafts' \in Seq(Nat \ {0}) /\ adopted' \in BOOLEAN /\ BoxSound'
  <2>1. CASE /\ drafts' = Append(drafts, Len(drafts) + 1)
             /\ commitBox' = Append(commitBox, Len(drafts'))
             /\ adopted' = (adopted \/ Placeholder \in Range(commitBox))
    <3>1. PICK x \in Nat \ {0} : x = Len(drafts) + 1
      BY <1>4
    <3>2. Append(drafts, x) \in Seq(Nat \ {0}) /\ Len(Append(drafts, x)) = x
      BY <1>4, <3>1
    <3>3. drafts' = Append(drafts, x) /\ commitBox' = Append(commitBox, x)
      BY <2>1, <3>1, <3>2
    <3>4. /\ commitBox' \in Seq(Int) /\ Len(commitBox') = Len(commitBox) + 1
          /\ commitBox'[Len(commitBox) + 1] = x
          /\ \A k \in 1 .. Len(commitBox) : commitBox'[k] = commitBox[k]
      BY <1>4, <3>3, Typed
    <3>5. Whole(commitBox', drafts')
      BY <1>1, <1>4, <3>3, TypedIsWhole DEF BoxSound
    <3>6. Placeholder \in Range(commitBox') => adopted'
      <4>a. DOMAIN commitBox' = 1 .. Len(commitBox')
        BY <3>4
      <4>1. SUFFICES ASSUME NEW k \in DOMAIN commitBox', commitBox'[k] = Placeholder
                     PROVE  Placeholder \in Range(commitBox)
        <5>1. SUFFICES ASSUME Placeholder \in Range(commitBox') PROVE Placeholder \in Range(commitBox)
          BY <2>1
        <5>2. PICK k \in DOMAIN commitBox' : commitBox'[k] = Placeholder
          BY <5>1 DEF Range
        <5> QED BY <5>2
      <4>2. k # Len(commitBox) + 1
        BY <3>4, <4>1 DEF Placeholder
      <4>3. k \in 1 .. Len(commitBox) /\ commitBox[k] = Placeholder
        BY <1>4, <3>4, <4>a, <4>1, <4>2
      <4> QED BY <1>4, <4>3 DEF Range
    <3>7. commitBox' = <<Placeholder>> \o boxBefore => Placeholder \in Range(commitBox')
      <4>1. SUFFICES ASSUME commitBox' = <<Placeholder>> \o boxBefore
                     PROVE  Placeholder \in Range(commitBox')
        OBVIOUS
      <4>2. commitBox'[1] = Placeholder
        BY <1>4, <4>1, Marked DEF Placeholder
      <4>3. 1 \in 1 .. Len(commitBox')
        BY <1>4, <3>4
      <4> QED BY <3>4, <4>2, <4>3 DEF Range
    <3>8. BoxFollowed'
      BY <1>2, <3>6, <3>7 DEF BoxFollowed
    <3>9. Whole(commitBox, drafts)'
      BY <3>5 DEF Whole
    <3> QED BY <1>1, <2>1, <3>2, <3>3, <3>4, <3>8, <3>9 DEF BoxSound, OneShotTypes
  <2>2. CASE commitBox' = <<>> /\ drafts' = <<>> /\ adopted' = FALSE
    <3>1. Len(commitBox') = 0 /\ SubSeq(commitBox', 1, 0) = <<>>
      BY <2>2
    <3>2. Whole(commitBox, drafts)'
      BY <2>2, <3>1 DEF Whole
    <3>3. Placeholder \notin Range(commitBox')
      BY <2>2 DEF Range
    <3>4. commitBox' # <<Placeholder>> \o boxBefore'
      <4>1. Len(<<Placeholder>> \o boxBefore) = Len(boxBefore) + 1
        BY <1>4, Marked DEF Placeholder
      <4>2. Len(boxBefore) + 1 # 0
        BY <1>4
      <4> QED BY <1>2, <3>1, <4>1, <4>2
    <3>5. BoxFollowed'
      BY <3>3, <3>4 DEF BoxFollowed
    <3> QED BY <2>2, <3>2, <3>5, EmptyBox DEF BoxSound
  <2> QED BY <2>1, <2>2 DEF EditBox
<1>6. OneShotTypes'
  BY <1>1, <1>2, <1>3, <1>5 DEF OneShotTypes
<1> QED BY <1>3, <1>5, <1>6 DEF OneShotInv

\* A map over the calls.
LEMMA MapOfCalls ==
  ASSUME OneShotTypes, NEW f \in [ShotIds -> ShotRecords], oneShots' = f
  PROVE  oneShots' \in Seq(ShotRecords) /\ ShotIds' = ShotIds
<1>1. PICK l \in Nat : l = Len(oneShots) /\ ShotIds = 1 .. l
  BY DEF OneShotTypes, ShotIds
<1>2. f \in [1 .. l -> ShotRecords]
  BY <1>1
<1>3. f \in Seq(ShotRecords) /\ Len(f) = l
  BY <1>2
<1> QED BY <1>1, <1>3 DEF ShotIds

LEMMA ReloadSound ==
  ASSUME OneShotInv, ReloadWindow
  PROVE  OneShotInv'
<1>1. OneShotTypes /\ CallsFit /\ HistoryHidesOneShots /\ BoxSound
  BY DEF OneShotInv
<1>2. PICK f : /\ f = [n \in ShotIds |-> [oneShots[n] EXCEPT !.body = "gone", !.prompting = FALSE]]
               /\ oneShots' = f
  BY DEF ReloadWindow
<1>3. ASSUME NEW n \in ShotIds
      PROVE  /\ f[n] \in ShotRecords /\ f[n].client = oneShots[n].client
             /\ f[n].known = oneShots[n].known /\ Fits(f[n], FALSE, FALSE, FALSE)
  <2>1. PICK s \in ShotRecords : s = oneShots[n]
    BY CallOf
  <2>2. PICK new : new = [s EXCEPT !.body = "gone", !.prompting = FALSE] /\ new = f[n]
    BY <1>2, <2>1
  <2>3. new \in ShotRecords /\ new.client = s.client /\ new.known = s.known
    BY <2>2 DEF ShotRecords, Bodies
  <2>4. Fits(new, FALSE, FALSE, FALSE)
    BY <2>1, <2>2, CallOf DEF Fits, ShotRecords
  <2> QED BY <2>1, <2>2, <2>3, <2>4
<1>4. oneShots' \in Seq(ShotRecords) /\ ShotIds' = ShotIds
  <2>1. f \in [ShotIds -> ShotRecords]
    BY <1>2, <1>3
  <2> QED BY <1>1, <1>2, <2>1, MapOfCalls
<1>5. /\ client' = client + 1 /\ connected' = TRUE /\ rootLease' = Nobody /\ ephemeral' = {}
      /\ boxBefore' = <<>> /\ oneShotIds' = storedIds /\ UNCHANGED <<storedIds, commitBox, drafts>>
      /\ forgotten' = forgotten \cup (Range(oneShotIds) \ Range(storedIds))
      /\ adopted' = (adopted \/ Placeholder \in Range(commitBox))
  BY DEF ReloadWindow
<1>6. client \in Nat /\ \A n \in ShotIds : oneShots[n].client <= client /\ oneShots[n].client \in Nat
  BY <1>1, CallOf DEF OneShotTypes, ShotRecords
<1>7. OneShotTypes'
  <2>1. ASSUME NEW n \in ShotIds PROVE f[n].client <= client + 1
    <3>1. PICK c \in Nat : c = oneShots[n].client /\ c <= client
      BY <1>6
    <3>2. f[n].client = c
      BY <1>3, <3>1
    <3> QED BY <1>6, <3>1, <3>2
  <2>2. \A n \in ShotIds' : oneShots'[n].client <= client'
    BY <1>2, <1>4, <1>5, <2>1
  <2>3. client' \in Nat \ {0} /\ connected' \in BOOLEAN /\ adopted' \in BOOLEAN
    BY <1>5, <1>6
  <2>4. rootLease' \in {Nobody, Turn} \cup ShotIds' /\ ephemeral' \subseteq ShotIds'
    BY <1>5
  <2>5. /\ oneShotIds' \in Seq(Nat) /\ storedIds' \in Seq(Nat) /\ commitBox' \in Seq(Int)
        /\ boxBefore' \in Seq(Int) /\ drafts' \in Seq(Nat \ {0})
    BY <1>1, <1>5, EmptyBox DEF OneShotTypes
  <2> QED BY <1>4, <2>2, <2>3, <2>4, <2>5 DEF OneShotTypes
<1>8. CallsFit'
  <2> SUFFICES ASSUME NEW n \in ShotIds
               PROVE  Fits(f[n], rootLease' = n, n \in ephemeral', ShotAlive(n)')
    BY <1>2, <1>4 DEF CallsFit
  <2>1. rootLease' # n /\ n \notin ephemeral'
    BY <1>5 DEF ShotIds, Nobody
  <2>2. ~ ShotAlive(n)'
    <3>1. PICK c \in Nat : c = oneShots[n].client /\ c <= client
      BY <1>6
    <3>2. oneShots'[n].client = c
      BY <1>2, <1>3, <3>1
    <3>3. c # client + 1
      BY <1>6, <3>1
    <3> QED BY <1>5, <3>2, <3>3 DEF ShotAlive
  <2> QED BY <1>3, <2>1, <2>2 DEF Fits
<1>9. HistoryHidesOneShots'
  BY <1>1, <1>2, <1>3, <1>4, <1>5 DEF HistoryHidesOneShots
<1>10. BoxSound'
  <2>1. Whole(commitBox, drafts)'
    BY <1>1, <1>5 DEF BoxSound, Whole
  <2>2. ~ (rootLease' > 0)
    BY <1>5 DEF Nobody
  <2>3. BoxFollowed'
    BY <1>5, <2>2 DEF BoxFollowed
  <2> QED BY <2>1, <2>3 DEF BoxSound
<1> QED BY <1>7, <1>8, <1>9, <1>10 DEF OneShotInv

\* A call of the client that died waits for no answer of it, and its collector is
\* gone; one that takes its checkpoint is still waited for.
LEMMA CrashedCall ==
  ASSUME OneShotInv, connected, NEW n \in ShotIds
  PROVE  /\ Crashed(n) \in ShotRecords /\ Crashed(n).client = oneShots[n].client
         /\ Crashed(n).known = oneShots[n].known /\ Crashed(n).cancelled = oneShots[n].cancelled
         /\ Fits(Crashed(n), rootLease = n /\ oneShots[n].body = "snapshot", FALSE, FALSE)
<1>1. PICK s \in ShotRecords : s = oneShots[n]
  BY CallOf
<1>2. PICK t \in ShotRecords : t = IF n \in ephemeral THEN ShotSettled(s) ELSE s
  BY RecordsOfCalls
<1>3. /\ t.known = s.known /\ t.client = s.client /\ t.prompting = s.prompting /\ t.body = s.body
      /\ t.collector = "settled" => t.reclaimed
      /\ s.reclaimed => t.reclaimed
      /\ t.timedOut = s.timedOut
      /\ (t.collector = "none") <=> (s.collector = "none")
      /\ t.collector = "live" => s.collector = "live" /\ n \notin ephemeral
  BY <1>1, <1>2, CallOf, SettledCall DEF Fits
<1>4. t.cancelled = s.cancelled
  <2>1. ShotSettled(s).cancelled = s.cancelled
    <3>1. CASE s.collector = "live"
      <4>1. PICK u : u = [s EXCEPT !.collector = "settled", !.reclaimed = TRUE] /\ u = ShotSettled(s)
        BY <3>1, RecordsOfCalls
      <4> QED BY <4>1 DEF ShotRecords
    <3>2. CASE s.collector # "live"
      BY <3>2 DEF ShotSettled
    <3> QED BY <3>1, <3>2
  <2> QED BY <1>2, <2>1
<1>5. ShotAlive(n) <=> s.client = client
  BY <1>1 DEF ShotAlive
<1>6. CASE s.client # client
  <2>1. Crashed(n) = s
    BY <1>1, <1>6 DEF Crashed
  <2>2. Fits(s, rootLease = n /\ s.body = "snapshot", FALSE, FALSE)
    BY <1>1, <1>5, <1>6, CallOf DEF Fits, ShotRecords
  <2> QED BY <1>1, <2>1, <2>2
<1>7. CASE s.client = client /\ s.body = "mode"
  <2>1. PICK u \in ShotRecords : u = Reclaimed(t) /\ u = [t EXCEPT !.reclaimed = TRUE]
    BY RecordsOfCalls
  <2>2. PICK v \in ShotRecords : v = Ended(u) /\ v = [u EXCEPT !.body = "done"]
    BY RecordsOfCalls
  <2>3. Crashed(n) = v
    BY <1>1, <1>2, <1>7, <2>1, <2>2 DEF Crashed
  <2>a. u.client = t.client /\ u.known = t.known /\ u.cancelled = t.cancelled
    BY <2>1 DEF ShotRecords
  <2>b. v.client = u.client /\ v.known = u.known /\ v.cancelled = u.cancelled
    BY <2>2 DEF ShotRecords
  <2>4. v.client = s.client /\ v.known = s.known /\ v.cancelled = s.cancelled
    BY <1>3, <1>4, <2>a, <2>b
  <2>5. Fits(v, rootLease = n /\ s.body = "snapshot", FALSE, FALSE)
    BY <1>1, <1>3, <1>7, <2>1, <2>2, CallOf DEF Fits, ShotRecords
  <2> QED BY <1>1, <2>3, <2>4, <2>5
<1>8. CASE s.client = client /\ s.body \in {"new", "prompt"}
  <2>1. PICK u \in ShotRecords : u = Ended(t) /\ u = [t EXCEPT !.body = "done"]
    BY RecordsOfCalls
  <2>2. PICK v : v = [u EXCEPT !.prompting = FALSE]
    OBVIOUS
  <2>3. Crashed(n) = v
    BY <1>1, <1>2, <1>8, <2>1, <2>2 DEF Crashed
  <2>4. v \in ShotRecords /\ v.client = s.client /\ v.known = s.known /\ v.cancelled = s.cancelled
    BY <1>3, <1>4, <2>1, <2>2 DEF ShotRecords
  <2>5. s.known => t.reclaimed
    BY <1>1, <1>3, <1>8, CallOf DEF Fits, ShotRecords
  <2>6. Fits(v, rootLease = n /\ s.body = "snapshot", FALSE, FALSE)
    BY <1>1, <1>3, <1>8, <2>1, <2>2, <2>5, CallOf DEF Fits, ShotRecords
  <2> QED BY <1>1, <2>3, <2>4, <2>6
<1>9. CASE s.client = client /\ s.body \notin {"new", "prompt", "mode"}
  <2>1. PICK v : v = [t EXCEPT !.prompting = FALSE]
    OBVIOUS
  <2>2. Crashed(n) = v
    BY <1>1, <1>2, <1>9, <2>1 DEF Crashed
  <2>3. v \in ShotRecords /\ v.client = s.client /\ v.known = s.known /\ v.cancelled = s.cancelled
    BY <1>3, <1>4, <2>1 DEF ShotRecords
  <2>4. s.body \in {"snapshot", "done", "gone"} /\ ShotAlive(n)
    BY <1>1, <1>5, <1>9, CallOf DEF Fits, ShotRecords, Bodies
  <2>5. /\ v.body = s.body /\ v.collector = t.collector /\ v.known = s.known
        /\ v.reclaimed = t.reclaimed /\ v.timedOut = s.timedOut /\ ~ v.prompting
    BY <1>3, <2>1 DEF ShotRecords
  <2>6. /\ s.body = "snapshot" => s.collector # "none" /\ (s.collector = "live" => n \in ephemeral)
        /\ s.body = "snapshot" => rootLease = n \/ s.timedOut
        /\ rootLease = n => ~ s.timedOut
        /\ s.body = "done" => (s.known => s.reclaimed)
    BY <1>1, CallOf DEF Fits, ShotRecords
  <2>7. Fits(v, rootLease = n /\ s.body = "snapshot", FALSE, FALSE)
    BY <1>3, <2>4, <2>5, <2>6 DEF Fits
  <2> QED BY <1>1, <2>2, <2>3, <2>7
<1> QED BY <1>6, <1>7, <1>8, <1>9

LEMMA ClientDiesSound ==
  ASSUME OneShotInv, ClientDies
  PROVE  OneShotInv'
<1>1. OneShotTypes /\ CallsFit /\ HistoryHidesOneShots /\ BoxSound
  BY DEF OneShotInv
<1>2. /\ connected /\ connected' = FALSE /\ ephemeral' = {}
      /\ UNCHANGED <<idVars, client, drafts, adopted>>
  BY DEF ClientDies
<1>3. PICK f : f = [n \in ShotIds |-> Crashed(n)] /\ oneShots' = f
  BY DEF ClientDies
<1>4. ASSUME NEW n \in ShotIds
      PROVE  /\ f[n] \in ShotRecords /\ f[n].client = oneShots[n].client
             /\ f[n].known = oneShots[n].known /\ f[n].cancelled = oneShots[n].cancelled
             /\ Fits(f[n], rootLease = n /\ oneShots[n].body = "snapshot", FALSE, FALSE)
  <2>1. f[n] = Crashed(n)
    BY <1>3
  <2> QED BY <1>2, <2>1, CrashedCall
<1>5. oneShots' \in Seq(ShotRecords) /\ ShotIds' = ShotIds
  <2>1. f \in [ShotIds -> ShotRecords]
    BY <1>3, <1>4
  <2> QED BY <1>1, <1>3, <2>1, MapOfCalls
<1>6. /\ rootLease' \in {Nobody, Turn} \cup ShotIds
      /\ \A n \in ShotIds : rootLease' = n <=> (rootLease = n /\ oneShots[n].body = "snapshot")
      /\ commitBox' \in Seq(Int) /\ boxBefore' \in Seq(Int) /\ BoxSound'
  <2>1. \A n \in ShotIds : n # Nobody /\ n # Turn /\ n > 0
    BY DEF ShotIds, Nobody, Turn
  <2>2. CASE rootLease \in ShotIds /\ oneShots[rootLease].body # "snapshot"
    <3>1. Answered(rootLease, FALSE)
      BY <2>1, <2>2 DEF ClientDies
    <3>2. \A m \in ShotIds : m # rootLease => oneShots'[m].cancelled = oneShots[m].cancelled
      BY <1>3, <1>4
    <3>3. /\ rootLease' = Nobody /\ commitBox' \in Seq(Int) /\ boxBefore' \in Seq(Int)
          /\ BoxSound'
      BY <1>1, <1>2, <2>2, <3>1, <3>2, AnswerIsSound
    <3> QED BY <2>1, <2>2, <3>3
  <2>3. CASE ~ (rootLease \in ShotIds /\ oneShots[rootLease].body # "snapshot")
    <3>1. UNCHANGED <<commitBox, boxBefore>> /\ UNCHANGED boxVars
      BY <1>2, <2>3 DEF ClientDies, boxVars
    <3>2. rootLease' = IF rootLease = Turn THEN Nobody ELSE rootLease
      BY <2>3 DEF ClientDies
    <3>3. rootLease > 0 => oneShots'[rootLease].cancelled = oneShots[rootLease].cancelled
      <4>1. rootLease > 0 => rootLease \in ShotIds
        BY <1>1 DEF OneShotTypes, Nobody, Turn
      <4>2. \A m \in ShotIds : oneShots'[m].cancelled = oneShots[m].cancelled
        BY <1>3, <1>4
      <4> QED BY <4>1, <4>2
    <3>4. rootLease' = rootLease \/ (rootLease \in {Nobody, Turn} /\ rootLease' \in {Nobody, Turn})
      BY <3>2
    <3>5. BoxSound'
      BY <1>1, <3>1, <3>3, <3>4, BoxStays
    <3>6. rootLease' \in {Nobody, Turn} \cup ShotIds
      BY <1>1, <3>2 DEF OneShotTypes
    <3>7. \A n \in ShotIds : rootLease' = n <=> (rootLease = n /\ oneShots[n].body = "snapshot")
      BY <2>1, <2>3, <3>2
    <3>8. commitBox' \in Seq(Int) /\ boxBefore' \in Seq(Int)
      BY <1>1, <3>1 DEF OneShotTypes
    <3> QED BY <3>5, <3>6, <3>7, <3>8
  <2> QED BY <2>2, <2>3
<1>7. OneShotTypes'
  <2>1. \A n \in ShotIds' : oneShots'[n].client <= client
    BY <1>1, <1>3, <1>4, <1>5 DEF OneShotTypes
  <2> QED BY <1>1, <1>2, <1>5, <1>6, <2>1 DEF OneShotTypes, idVars
<1>8. CallsFit'
  <2> SUFFICES ASSUME NEW n \in ShotIds
               PROVE  Fits(f[n], rootLease' = n, n \in ephemeral', ShotAlive(n)')
    BY <1>3, <1>5 DEF CallsFit
  <2>1. n \notin ephemeral' /\ ~ ShotAlive(n)'
    BY <1>2 DEF ShotAlive
  <2>2. rootLease' = n <=> (rootLease = n /\ oneShots[n].body = "snapshot")
    BY <1>6
  <2>3. Fits(f[n], rootLease = n /\ oneShots[n].body = "snapshot", FALSE, FALSE)
    BY <1>4
  <2> QED BY <2>1, <2>2, <2>3 DEF Fits
<1>9. HistoryHidesOneShots'
  BY <1>1, <1>2, <1>3, <1>4, <1>5 DEF HistoryHidesOneShots, idVars
<1> QED BY <1>6, <1>7, <1>8, <1>9 DEF OneShotInv

-------------------------------------------------------------------------------

LEMMA OneShotStart == Init => OneShotInv
<1> SUFFICES ASSUME OneShotInit PROVE OneShotInv
  BY DEF Init
<1>1. /\ oneShots = <<>> /\ rootLease = Nobody /\ client = 1 /\ connected = TRUE
      /\ ephemeral = {} /\ oneShotIds = <<>> /\ storedIds = <<>> /\ boxBefore = <<>>
      /\ commitBox = <<>> /\ drafts = <<>> /\ adopted = FALSE /\ forgotten = {}
  BY DEF OneShotInit
<1>2. ShotIds = {}
  BY <1>1 DEF ShotIds
<1>3. OneShotTypes
  <2>1. oneShots \in Seq(ShotRecords) /\ oneShotIds \in Seq(Nat) /\ storedIds \in Seq(Nat)
    BY <1>1
  <2>2. commitBox \in Seq(Int) /\ boxBefore \in Seq(Int) /\ drafts \in Seq(Nat \ {0})
    BY <1>1, EmptyBox
  <2>3. client \in Nat \ {0}
    BY <1>1
  <2>4. connected \in BOOLEAN /\ adopted \in BOOLEAN
    BY Zenon DEF OneShotInit
  <2> QED BY <1>1, <1>2, <2>1, <2>2, <2>3, <2>4 DEF OneShotTypes
<1>4. CallsFit /\ HistoryHidesOneShots
  BY <1>2 DEF CallsFit, HistoryHidesOneShots
<1>5. BoxSound
  <2>1. Len(commitBox) = 0 /\ SubSeq(commitBox, 1, 0) = <<>>
    BY <1>1
  <2>2. Whole(commitBox, drafts)
    BY <1>1, <2>1 DEF Whole
  <2>3. ~ (rootLease > 0)
    BY <1>1 DEF Nobody
  <2>4. Placeholder \notin Range(commitBox)
    BY <1>1 DEF Range
  <2> QED BY <2>2, <2>3, <2>4 DEF BoxSound, BoxFollowed
<1> QED BY <1>3, <1>4, <1>5 DEF OneShotInv

LEMMA OneShotStep == OneShotInv /\ [OneShotNext]_oneShotVars => OneShotInv'
<1> SUFFICES ASSUME OneShotInv, [OneShotNext]_oneShotVars PROVE OneShotInv'
  OBVIOUS
<1>1. CASE UNCHANGED oneShotVars
  <2>1. UNCHANGED <<oneShots, rootLease, client, connected, ephemeral, idVars, boxVars>>
    BY <1>1 DEF oneShotVars, clientVars
  <2>2. \A n \in ShotIds : ShotAlive(n)' <=> ShotAlive(n)
    BY <2>1 DEF ShotAlive
  <2>3. client' \in {client, client + 1} /\ connected' \in BOOLEAN
    BY <2>1 DEF OneShotInv, OneShotTypes
  <2> QED BY <2>1, <2>2, <2>3, AroundStep
<1>2. CASE Generate
  BY <1>2, GenerateSound
<1>3. CASE EditBox
  BY <1>3, EditBoxSound
<1>4. CASE TurnTakesRoot \/ TurnLeavesRoot
  BY <1>4, RootSound
<1>5. CASE ClientDies
  BY <1>5, ClientDiesSound
<1>6. CASE Reconnected
  BY <1>6, ReconnectedSound
<1>7. CASE ReloadWindow
  BY <1>7, ReloadSound
<1>8. ASSUME NEW n \in ShotIds,
             \/ GitAnswers(n) \/ CancelGeneration(n)
             \/ NewSessionAnswers(n) \/ NewSessionFails(n) \/ ModeAnswers(n) \/ ModeFails(n)
             \/ SnapshotEnds(n) \/ Tripwire(n) \/ Deadline(n)
             \/ \E usable \in BOOLEAN : PromptEnds(n, usable)
      PROVE  OneShotInv'
  <2>1. CASE GitAnswers(n)
    BY <2>1, GitAnswersSound
  <2>2. CASE CancelGeneration(n)
    BY <2>2, CancelSound
  <2>3. CASE NewSessionAnswers(n)
    BY <2>3, NewSessionAnswersSound
  <2>4. CASE NewSessionFails(n)
    BY <2>4, NewSessionFailsSound
  <2>5. CASE ModeAnswers(n)
    BY <2>5, ModeAnswersSound
  <2>6. CASE ModeFails(n)
    BY <2>6, ModeFailsSound
  <2>7. CASE SnapshotEnds(n)
    BY <2>7, SnapshotEndsSound
  <2>8. CASE Tripwire(n)
    BY <2>8, TripwireSound
  <2>9. CASE Deadline(n)
    BY <2>9, DeadlineSound
  <2>10. CASE \E usable \in BOOLEAN : PromptEnds(n, usable)
    BY <2>10, PromptEndsSound
  <2> QED BY <1>8, <2>1, <2>2, <2>3, <2>4, <2>5, <2>6, <2>7, <2>8, <2>9, <2>10
<1> QED BY <1>1, <1>2, <1>3, <1>4, <1>5, <1>6, <1>7, <1>8 DEF OneShotNext

\* A call the agent works on that nobody cancelled holds the root, so that it
\* works beside no turn and no other call; the sessions it opened are asked to be
\* deleted and stay out of the history; and what the user typed into the commit
\* box is never overwritten, whichever of the answer, the deadline, the tripwire,
\* the cancel button, a crash and a reload comes first, for any number of calls,
\* clients and texts (OneShotRunner.runOneShot, generateCommitMessage).
THEOREM OneShotsAreContained == Spec => []OneShotKept
<1>1. Init => OneShotInv
  BY OneShotStart
<1>2. OneShotInv /\ [Next]_vars => OneShotInv'
  <2>1. UNCHANGED vars => UNCHANGED oneShotVars
    BY DEF vars
  <2> QED BY <2>1, OneShotSteps, OneShotStep
<1>3. OneShotInv => OneShotKept
  BY OneShotIsContained
<1> QED BY <1>1, <1>2, <1>3, PTL DEF Spec
===============================================================================

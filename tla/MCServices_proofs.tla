--------------------------- MODULE MCServices_proofs ---------------------------
(***************************************************************************)
(* The invariants of MCServices that speak of several components, from the *)
(* invariants of each.  The types of a component are those its inductive   *)
(* invariant keeps and what that does not need: the bounds of its counters *)
(* and its booleans, which are inductive beside it.                        *)
(***************************************************************************)
EXTENDS Panels_proofs, Services_proofs, Editor_proofs, Transcript_proofs

LEMMA TranscriptSteps == Next => [TranscriptNext]_transcriptVars
<1> SUFFICES ASSUME Next, ~ UNCHANGED transcriptVars PROVE TranscriptNext
  OBVIOUS
<1> QED BY DEF Next, Only

\* A tab shows what its session said and decided, whatever the agent, the user and
\* the host do meanwhile: the text of the newest turn once and in full, nothing that
\* goes on after its end, and on each card what the agent was told (transcript.ts,
\* turnTranslator.ts, approvalOptions.ts).
THEOREM TranscriptAlwaysTrue == Spec => []TranscriptIsTrue
<1>1. Init => TranscriptInv
  BY TranscriptInitInv DEF Init
<1>2. TranscriptInv /\ [Next]_vars => TranscriptInv'
  <2> SUFFICES ASSUME TranscriptInv, [Next]_vars PROVE TranscriptInv'
    OBVIOUS
  <2>1. [TranscriptNext]_transcriptVars
    BY TranscriptSteps DEF vars
  <2> QED BY <2>1, TranscriptKeeps
<1> QED BY <1>1, <1>2, TranscriptInvIsTrue, PTL DEF Spec

\* What the webview shows is so, in each of its parts.
THEOREM ViewAlwaysTrue == Spec => []ViewIsTrue
<1>1. TranscriptIsTrue /\ (NoDeadSpinner /\ SwitchIsHonest /\ WishIsShown) /\ ModelIsTrue
      /\ (OneTabShows /\ PageShowsItsSessions /\ DraftsReturn) => ViewIsTrue
  BY DEF ViewIsTrue
<1> QED BY <1>1, TranscriptAlwaysTrue, PanelAlwaysHonest, ModelAlwaysTrue, PageComesBack, PTL

-------------------------------------------------------------------------------
\* The lines of the document of next edit.

\* The lines of the document are original ones or edited ones.
LineBounds ==
  /\ text \in Seq(0 .. MaxLines) /\ fimFlight \in 0 .. MaxFim
  /\ focused \in BOOLEAN /\ sourceOn \in BOOLEAN /\ ghost \in BOOLEAN
  /\ armed \in BOOLEAN /\ shellGone \in BOOLEAN

LEMMA ChangedLines ==
  ASSUME NEW S, 0 \in S, NEW doc \in Seq(S), NEW c, Within(c, Len(doc))
  PROVE  Changed(doc, c) \in Seq(S)
<1>1. PICK from, to, k \in Nat :
        /\ from = c.from /\ to = c.to /\ k = c.lines
        /\ 1 <= from /\ from <= to /\ to <= Len(doc)
  BY NextEditAssumption DEF Within, Changes, Lines
<1> DEFINE a == SubSeq(doc, 1, from - 1)
           m == [n \in 1 .. k |-> 0]
           b == SubSeq(doc, to + 1, Len(doc))
<1>2. a \in Seq(S)
  BY <1>1
<1>3. m \in Seq(S)
  BY <1>1
<1>4. b \in Seq(S)
  BY <1>1
<1>5. Changed(doc, c) = (a \o m) \o b
  BY <1>1 DEF Changed
<1> HIDE DEF a, m, b
<1>6. a \o m \in Seq(S)
  BY <1>2, <1>3
<1> QED BY <1>4, <1>5, <1>6

\* A batch makes original lines into edited ones, and no others.
LEMMA BatchLines ==
  ASSUME NEW doc \in Seq(0 .. MaxLines), NEW es, Batch(es, Len(doc))
  PROVE  ChangedByBatch(doc, es) \in Seq(0 .. MaxLines)
<1>1. MaxLines \in Nat /\ 0 \in 0 .. MaxLines
  BY NextEditAssumption
<1>2. doc \in Seq(Nat)
  BY <1>1
<1> DEFINE S == 0 .. MaxLines
<1>3. 0 \in S /\ doc \in Seq(S)
  BY <1>1
<1> HIDE DEF S
<1>4. CASE \E c \in Changes : Within(c, Len(doc)) /\ es = <<c>>
  <2>1. PICK c \in Changes : Within(c, Len(doc)) /\ es = <<c>>
    BY <1>4
  <2>2. ChangedByBatch(doc, es) = Changed(doc, c)
    BY <2>1 DEF ChangedByBatch
  <2> QED BY <1>3, <2>1, <2>2, ChangedLines DEF S
<1>5. CASE \E c, d \in Changes : /\ Within(c, Len(doc)) /\ Within(d, Len(doc))
                                  /\ d.to < c.from /\ es = <<c, d>>
  <2>1. PICK c, d \in Changes : /\ Within(c, Len(doc)) /\ Within(d, Len(doc))
                                /\ d.to < c.from /\ es = <<c, d>>
    BY <1>5
  <2>2. PICK mid : mid = Changed(doc, c)
    OBVIOUS
  <2>3. ChangedByBatch(doc, es) = Changed(mid, d)
    BY <2>1, <2>2 DEF ChangedByBatch
  <2>4. mid \in Seq(S)
    BY <1>3, <2>1, <2>2, ChangedLines
  <2>5. Within(d, Len(mid))
    BY <1>2, <2>1, <2>2, WithinStill
  <2>6. Changed(mid, d) \in Seq(S)
    BY <1>3, <2>4, <2>5, ChangedLines
  <2> QED BY <2>3, <2>6 DEF S
<1> QED BY <1>4, <1>5 DEF Batch

LEMMA LineBoundsStart == NextEditInit => LineBounds
<1> SUFFICES ASSUME NextEditInit PROVE LineBounds
  OBVIOUS
<1>1. PICK k \in Lines : text = [n \in 1 .. k |-> n]
  BY DEF NextEditInit
<1>2. k \in Nat /\ k <= MaxLines /\ MaxLines \in Nat
  BY NextEditAssumption DEF Lines
<1>3. [n \in 1 .. k |-> n] \in [1 .. k -> 0 .. MaxLines]
  BY <1>2
<1> DEFINE S == 0 .. MaxLines
<1>4. k \in Nat /\ text \in [1 .. k -> S]
  BY <1>1, <1>2, <1>3
<1> HIDE DEF S
<1>5. text \in Seq(S)
  BY <1>4
<1>6. fimFlight \in 0 .. MaxFim
  BY NextEditAssumption DEF NextEditInit
<1>7. /\ focused \in BOOLEAN /\ sourceOn \in BOOLEAN /\ ghost \in BOOLEAN
      /\ armed \in BOOLEAN /\ shellGone \in BOOLEAN
  BY DEF NextEditInit
<1> QED BY <1>5, <1>6, <1>7 DEF LineBounds, S

\* The batch that an edit is.
LEMMA EditIsBatch ==
  ASSUME NextEditInv, EditText \/ EditApplied
  PROVE  \E es : Batch(es, Len(text)) /\ TextChanges(es)
<1>1. FlightsStand
  BY DEF NextEditInv
<1>2. CASE EditText
  <2>1. PICK es \in Events[Len(text)] : TextChanges(es)
    BY <1>2 DEF EditText
  <2>2. Batch(es, Len(text))
    BY <1>1, EventIsBatch DEF FlightsStand
  <2> QED BY <2>1, <2>2
<1>3. CASE EditApplied
  <2>1. PICK n, es :
          /\ n \in 1 .. 2
          /\ es = <<[from |-> applying.region.from, to |-> applying.region.to, lines |-> n]>>
          /\ TextChanges(es)
    BY <1>3 DEF EditApplied
  <2>2. PICK c : c = [from |-> applying.region.from, to |-> applying.region.to, lines |-> n]
    OBVIOUS
  <2>3. StandsOn(text, applying.region) /\ applying.region \in Regions
    BY <1>1, <1>3 DEF FlightsStand, EditApplied
  <2>4. PICK a, b, l \in Nat : a = applying.region.from /\ b = applying.region.to /\ l = Len(text)
    <3>1. Len(text) \in Nat
      BY <1>1 DEF FlightsStand
    <3>2. applying.region.from \in Nat /\ applying.region.to \in Nat
      BY <2>3 DEF Regions
    <3> QED BY <3>1, <3>2
  <2>5. 1 <= a /\ a <= b /\ b <= l /\ l <= MaxLines
    BY <1>1, <2>3, <2>4 DEF StandsOn, FlightsStand, Lines
  <2>6. a \in Lines /\ b \in Lines
    BY <2>4, <2>5, NextEditAssumption DEF Lines
  <2>7. c \in Changes
    BY <2>1, <2>2, <2>4, <2>6 DEF Changes
  <2>8. Within(c, Len(text))
    BY <2>2, <2>4, <2>5, <2>7 DEF Within
  <2>9. Batch(es, Len(text))
    BY <2>1, <2>2, <2>7, <2>8 DEF Batch
  <2> QED BY <2>1, <2>9
<1> QED BY <1>2, <1>3

LEMMA LineBoundsKept ==
  ASSUME NextEditInv, LineBounds, [NextEditNext]_nextEditVars
  PROVE  LineBounds'
<1>1. CASE UNCHANGED nextEditVars
  BY <1>1 DEF nextEditVars, LineBounds
<1>2. CASE EditText \/ EditApplied
  <2>1. PICK es : Batch(es, Len(text)) /\ TextChanges(es)
    BY <1>2, EditIsBatch
  <2>2. text' \in Seq(0 .. MaxLines) /\ armed' = TRUE
    BY <2>1, BatchLines DEF TextChanges, LineBounds
  <2>3. UNCHANGED <<focused, sourceOn, fimFlight, ghost, shellGone>>
    BY <1>2 DEF EditText, EditApplied
  <2> QED BY <2>2, <2>3 DEF LineBounds
<1>3. CASE FimStarts \/ FimSettles
  <2>1. fimFlight \in Nat /\ fimFlight <= MaxFim /\ MaxFim \in Nat
    BY NextEditAssumption DEF LineBounds
  <2>2. fimFlight' \in 0 .. MaxFim
    BY <1>3, <2>1 DEF FimStarts, FimSettles
  <2>3. ghost' \in BOOLEAN /\ UNCHANGED <<text, focused, sourceOn, armed, shellGone>>
    BY <1>3 DEF FimStarts, FimSettles, LineBounds
  <2> QED BY <2>2, <2>3 DEF LineBounds
<1>4. CASE \/ TouchText \/ SwitchEditor \/ DismissKey \/ TabJump \/ TabAccept \/ ApplyAnswered
           \/ FimAccepted \/ ToggleSource \/ TriggerPredicts \/ TriggerStops \/ Predicted
           \/ PredictionDropped \/ ShellDispose
  <2>1. UNCHANGED <<text, fimFlight>>
    BY <1>4 DEF TouchText, SwitchEditor, DismissKey, TabJump, TabAccept, ApplyAnswered,
           FimAccepted, ToggleSource, TriggerPredicts, TriggerStops, Predicted,
           PredictionDropped, ShellDispose
  <2>2. /\ focused' \in {focused, ~ focused} /\ sourceOn' \in {sourceOn, ~ sourceOn}
        /\ ghost' \in {ghost, FALSE} /\ armed' \in {armed, TRUE, FALSE}
        /\ shellGone' \in {shellGone, TRUE}
    BY <1>4 DEF TouchText, SwitchEditor, DismissKey, TabJump, TabAccept, ApplyAnswered,
           FimAccepted, ToggleSource, TriggerPredicts, TriggerStops, Predicted,
           PredictionDropped, ShellDispose
  <2>3. /\ focused' \in BOOLEAN /\ sourceOn' \in BOOLEAN /\ ghost' \in BOOLEAN
        /\ armed' \in BOOLEAN /\ shellGone' \in BOOLEAN
    BY <2>2 DEF LineBounds
  <2> QED BY <2>1, <2>3 DEF LineBounds
<1> QED BY <1>1, <1>2, <1>3, <1>4 DEF NextEditNext

LEMMA NextEditTyped == NextEditInv /\ LineBounds => NextEditTypeOK
BY DEF NextEditInv, FlightsStand, ProposalStands, ScreenOK, LineBounds, NextEditTypeOK

-------------------------------------------------------------------------------
\* The calls of the one-shot runner and the ids of its registry.

\* So many ids at most, each of a call.
Registered(ids) == Len(ids) <= MaxIds /\ \A i \in DOMAIN ids : ids[i] \in ShotIds

ShotBounds ==
  /\ Len(oneShots) <= MaxCalls /\ client <= MaxClients /\ forgotten \subseteq ShotIds
  /\ Registered(oneShotIds) /\ Registered(storedIds)

LEMMA RegisteredRange ==
  ASSUME NEW ids \in Seq(Nat), Registered(ids)
  PROVE  Range(ids) \subseteq ShotIds
BY DEF Registered, Range

\* No step forgets a call, and Generate alone makes one.
LEMMA CallsKept ==
  ASSUME OneShotTypes, OneShotTypes', [OneShotNext]_oneShotVars, ~ Generate
  PROVE  Len(oneShots') = Len(oneShots) /\ ShotIds' = ShotIds
<1>1. DOMAIN oneShots = ShotIds
  BY DEF OneShotTypes, ShotIds
<1> SUFFICES DOMAIN oneShots' = DOMAIN oneShots
  <2>1. ASSUME DOMAIN oneShots' = DOMAIN oneShots PROVE Len(oneShots') = Len(oneShots)
    BY <2>1 DEF OneShotTypes
  <2> QED BY <2>1 DEF ShotIds
<1>2. CASE \/ UNCHANGED oneShotVars
           \/ EditBox \/ TurnTakesRoot \/ TurnLeavesRoot \/ Reconnected
  <2>1. CASE UNCHANGED oneShotVars
    BY <2>1 DEF oneShotVars
  <2>2. CASE EditBox
    <3>1. oneShots' = oneShots
      BY <2>2 DEF EditBox
    <3> QED BY <3>1
  <2>3. CASE TurnTakesRoot \/ TurnLeavesRoot \/ Reconnected
    BY <2>3 DEF TurnTakesRoot, TurnLeavesRoot, Reconnected
  <2> QED BY <1>2, <2>1, <2>2, <2>3
<1>3. CASE ClientDies \/ ReloadWindow
  <2>1. CASE ClientDies
    <3>1. oneShots' = [n \in ShotIds |-> Crashed(n)]
      BY <2>1 DEF ClientDies
    <3> QED BY <1>1, <3>1
  <2>2. CASE ReloadWindow
    <3>1. oneShots' = [n \in ShotIds |-> [oneShots[n] EXCEPT !.body = "gone", !.prompting = FALSE]]
      BY <2>2 DEF ReloadWindow
    <3> HIDE DEF ShotIds
    <3> QED BY <1>1, <3>1, Zenon
  <2> QED BY <1>3, <2>1, <2>2
<1>4. CASE \E n \in ShotIds :
             \/ GitAnswers(n) \/ CancelGeneration(n)
             \/ NewSessionAnswers(n) \/ NewSessionFails(n) \/ ModeAnswers(n) \/ ModeFails(n)
             \/ SnapshotEnds(n) \/ Tripwire(n) \/ Deadline(n)
             \/ \E usable \in BOOLEAN : PromptEnds(n, usable)
  <2> PICK n \in ShotIds :
             \/ GitAnswers(n) \/ CancelGeneration(n)
             \/ NewSessionAnswers(n) \/ NewSessionFails(n) \/ ModeAnswers(n) \/ ModeFails(n)
             \/ SnapshotEnds(n) \/ Tripwire(n) \/ Deadline(n)
             \/ \E usable \in BOOLEAN : PromptEnds(n, usable)
    BY <1>4
  <2>1. CASE GitAnswers(n)
    BY <2>1 DEF GitAnswers
  <2>2. CASE CancelGeneration(n)
    BY <2>2 DEF CancelGeneration
  <2>3. CASE NewSessionAnswers(n)
    BY <2>3 DEF NewSessionAnswers
  <2>4. CASE NewSessionFails(n)
    BY <2>4 DEF NewSessionFails
  <2>5. CASE ModeAnswers(n)
    BY <2>5 DEF ModeAnswers
  <2>6. CASE ModeFails(n)
    BY <2>6 DEF ModeFails
  <2>7. CASE SnapshotEnds(n)
    BY <2>7 DEF SnapshotEnds
  <2>8. CASE Tripwire(n)
    BY <2>8 DEF Tripwire
  <2>9. CASE Deadline(n)
    BY <2>9 DEF Deadline
  <2>10. CASE \E usable \in BOOLEAN : PromptEnds(n, usable)
    BY <2>10 DEF PromptEnds
  <2> QED
    BY <2>1, <2>2, <2>3, <2>4, <2>5, <2>6, <2>7, <2>8, <2>9, <2>10
<1> QED BY <1>2, <1>3, <1>4 DEF OneShotNext

LEMMA ShotBoundsStart == OneShotInit => ShotBounds
<1> SUFFICES ASSUME OneShotInit PROVE ShotBounds
  OBVIOUS
<1>1. oneShots = << >> /\ client = 1 /\ forgotten = {} /\ oneShotIds = << >> /\ storedIds = << >>
  BY DEF OneShotInit
<1>2. Len(<< >>) = 0 /\ DOMAIN << >> = {}
  OBVIOUS
<1> QED BY <1>1, <1>2, OneShotAssumption DEF ShotBounds, Registered

\* record keeps to the bound of the registry.
LEMMA RecordBounds ==
  ASSUME OneShotTypes, ShotBounds, ShotIds' = ShotIds, NEW n \in ShotIds, Record(n)
  PROVE  Registered(oneShotIds)' /\ Registered(storedIds)' /\ forgotten' \subseteq ShotIds
<1>1. oneShotIds \in Seq(Nat) /\ n \in Nat /\ MaxIds \in Nat \ {0}
  BY OneShotAssumption DEF OneShotTypes, ShotIds
<1>2. Registered(oneShotIds) /\ Registered(storedIds)
  BY DEF ShotBounds
<1> DEFINE ids == Append(oneShotIds, n)
<1>3. /\ ids \in Seq(Nat) /\ Len(ids) = Len(oneShotIds) + 1 /\ DOMAIN ids = 1 .. Len(ids)
      /\ ids[Len(oneShotIds) + 1] = n
      /\ \A i \in 1 .. Len(oneShotIds) : ids[i] = oneShotIds[i]
  BY <1>1
<1>4. Len(oneShotIds) <= MaxIds /\ Len(oneShotIds) \in Nat
      /\ \A i \in 1 .. Len(oneShotIds) : oneShotIds[i] \in ShotIds
  BY <1>1, <1>2 DEF Registered
<1>5. oneShotIds' = IF Len(ids) > MaxIds THEN Tail(ids) ELSE ids
  BY DEF Record, RecordedIds
<1> HIDE DEF ids
<1>6. ASSUME NEW i \in 1 .. Len(ids) PROVE ids[i] \in ShotIds
  <2>1. i \in 1 .. Len(oneShotIds) \/ i = Len(oneShotIds) + 1
    BY <1>3, <1>4
  <2> QED BY <1>3, <1>4, <2>1
<1>7. Registered(oneShotIds)'
  <2>1. CASE Len(ids) > MaxIds
    <3>1. /\ Len(Tail(ids)) = Len(ids) - 1 /\ DOMAIN Tail(ids) = 1 .. Len(ids) - 1
          /\ \A i \in 1 .. Len(ids) - 1 : Tail(ids)[i] = ids[i + 1]
      BY <1>1, <1>3, <2>1
    <3>2. oneShotIds' = Tail(ids)
      BY <1>5, <2>1
    <3>3. \A i \in 1 .. Len(ids) - 1 : ids[i + 1] \in ShotIds
      BY <1>3, <1>4, <1>6
    <3>4. Len(Tail(ids)) <= MaxIds
      BY <1>1, <1>3, <1>4, <3>1
    <3> QED BY <3>1, <3>2, <3>3, <3>4 DEF Registered
  <2>2. CASE ~ (Len(ids) > MaxIds)
    <3>1. oneShotIds' = ids /\ Len(ids) <= MaxIds
      BY <1>1, <1>3, <1>4, <1>5, <2>2
    <3> QED BY <1>3, <1>6, <3>1 DEF Registered
  <2> QED BY <2>1, <2>2
<1>8. Registered(storedIds)'
  <2>1. storedIds' \in {storedIds, oneShotIds'}
    BY DEF Record
  <2> QED BY <1>2, <1>7, <2>1 DEF Registered
<1>9. forgotten' \subseteq ShotIds
  BY <1>1, <1>2, RegisteredRange DEF Record, ShotBounds
<1> QED BY <1>7, <1>8, <1>9

LEMMA ShotBoundsKept ==
  ASSUME OneShotTypes, OneShotTypes', ShotBounds, [OneShotNext]_oneShotVars
  PROVE  ShotBounds'
<1>1. CASE Generate
  <2>1. /\ Len(oneShots) < MaxCalls /\ UNCHANGED <<clientVars, idVars>>
        /\ \E s : oneShots' = Append(oneShots, s)
    BY <1>1 DEF Generate
  <2>2. Len(oneShots') = Len(oneShots) + 1 /\ Len(oneShots) \in Nat
    BY <2>1 DEF OneShotTypes
  <2>3. Len(oneShots') <= MaxCalls /\ ShotIds \subseteq ShotIds'
    BY <2>1, <2>2, OneShotAssumption DEF ShotIds
  <2>4. UNCHANGED <<client, forgotten, oneShotIds, storedIds>>
    BY <2>1 DEF clientVars, idVars
  <2> QED BY <2>3, <2>4 DEF ShotBounds, Registered
<1>2. CASE ~ Generate
  <2>1. Len(oneShots') = Len(oneShots) /\ ShotIds' = ShotIds
    BY <1>2, CallsKept
  <2>2. CASE Reconnected
    <3>1. client \in Nat /\ client < MaxClients /\ client' = client + 1 /\ UNCHANGED idVars
      BY <2>2 DEF Reconnected, OneShotTypes
    <3>2. client' <= MaxClients
      BY <3>1, OneShotAssumption
    <3>3. UNCHANGED <<oneShotIds, storedIds, forgotten>>
      BY <3>1 DEF idVars
    <3> QED BY <2>1, <3>2, <3>3 DEF ShotBounds, Registered
  <2>3. CASE ReloadWindow
    <3>1. client \in Nat /\ client < MaxClients /\ client' = client + 1
      BY <2>3 DEF ReloadWindow, OneShotTypes
    <3>2. client' <= MaxClients
      BY <3>1, OneShotAssumption
    <3>3. /\ oneShotIds' = storedIds /\ storedIds' = storedIds
          /\ forgotten' = forgotten \cup (Range(oneShotIds) \ Range(storedIds))
      BY <2>3 DEF ReloadWindow
    <3>4. forgotten' \subseteq ShotIds
      BY <3>3, RegisteredRange DEF ShotBounds, OneShotTypes
    <3> QED BY <2>1, <3>2, <3>3, <3>4 DEF ShotBounds, Registered
  <2>4. CASE \E n \in ShotIds : NewSessionAnswers(n)
    <3>1. PICK n \in ShotIds : Record(n) /\ UNCHANGED clientVars
      BY <2>4 DEF NewSessionAnswers
    <3>2. Registered(oneShotIds)' /\ Registered(storedIds)' /\ forgotten' \subseteq ShotIds
      BY <2>1, <3>1, RecordBounds
    <3>3. client' = client
      BY <3>1 DEF clientVars
    <3> QED BY <2>1, <3>2, <3>3 DEF ShotBounds
  <2>5. CASE UNCHANGED <<client, idVars>>
    <3>1. UNCHANGED <<client, oneShotIds, storedIds, forgotten>>
      BY <2>5 DEF idVars
    <3> QED BY <2>1, <3>1 DEF ShotBounds, Registered
  <2>6. \/ UNCHANGED oneShotVars
        \/ EditBox \/ TurnTakesRoot \/ TurnLeavesRoot \/ ClientDies
        \/ \E n \in ShotIds :
             \/ GitAnswers(n) \/ CancelGeneration(n)
             \/ NewSessionFails(n) \/ ModeAnswers(n) \/ ModeFails(n)
             \/ SnapshotEnds(n) \/ Tripwire(n) \/ Deadline(n)
             \/ \E usable \in BOOLEAN : PromptEnds(n, usable)
        => UNCHANGED <<client, idVars>>
    <3>1. UNCHANGED oneShotVars \/ ClientDies => UNCHANGED <<client, idVars>>
      BY DEF oneShotVars, clientVars, ClientDies
    <3>2. EditBox \/ TurnTakesRoot \/ TurnLeavesRoot => UNCHANGED <<client, idVars>>
      BY DEF clientVars, EditBox, TurnTakesRoot, TurnLeavesRoot
    <3>3. ASSUME NEW n \in ShotIds,
                 \/ GitAnswers(n) \/ CancelGeneration(n)
                 \/ NewSessionFails(n) \/ ModeAnswers(n) \/ ModeFails(n)
                 \/ SnapshotEnds(n) \/ Tripwire(n) \/ Deadline(n)
                 \/ \E usable \in BOOLEAN : PromptEnds(n, usable)
          PROVE  UNCHANGED clientVars /\ UNCHANGED idVars
      BY <3>3 DEF GitAnswers, CancelGeneration, NewSessionFails, ModeAnswers, ModeFails,
                  SnapshotEnds, Tripwire, Deadline, PromptEnds
    <3> QED BY <3>1, <3>2, <3>3 DEF clientVars
  <2> QED BY <1>2, <2>2, <2>3, <2>4, <2>5, <2>6 DEF OneShotNext
<1> QED BY <1>1, <1>2

LEMMA OneShotTyped == OneShotInv /\ ShotBounds => OneShotTypeOK
<1> SUFFICES ASSUME OneShotTypes, ShotBounds PROVE OneShotTypeOK
  BY DEF OneShotInv
<1>1. ASSUME NEW n \in ShotIds
      PROVE  /\ oneShots[n].body \in Bodies
             /\ oneShots[n].collector \in {"none", "live", "settled"}
             /\ oneShots[n].client \in 0 .. client
             /\ {oneShots[n].known, oneShots[n].timedOut, oneShots[n].cancelled,
                 oneShots[n].prompting, oneShots[n].stopped, oneShots[n].reclaimed}
                   \subseteq BOOLEAN
  <2>1. oneShots[n] \in ShotRecords /\ oneShots[n].client <= client
    BY DEF OneShotTypes, ShotIds
  <2> QED BY <2>1 DEF ShotRecords, OneShotTypes
<1>2. client \in 1 .. MaxClients
  BY OneShotAssumption DEF OneShotTypes, ShotBounds
<1>3. \A ids \in {oneShotIds, storedIds} : Len(ids) <= MaxIds /\ Range(ids) \subseteq ShotIds
  BY RegisteredRange DEF OneShotTypes, ShotBounds, Registered
<1> QED BY <1>1, <1>2, <1>3 DEF OneShotTypes, ShotBounds, OneShotTypeOK

-------------------------------------------------------------------------------
\* The documents, requests and caches of the completions.

\* A request is the one of its number, at most MaxRequests, and debounces with a
\* sequence that its engine has counted.
RequestBounded(req, n) == req.doc \in Documents /\ req.number \in 1 .. n /\ req.sequence <= n

CompletionBounds ==
  /\ document \in Documents /\ asked <= MaxRequests /\ surfaced \in BOOLEAN
  /\ \A req \in requests : RequestBounded(req, asked)
  /\ Current <= MaxEngines
  /\ \A g \in 1 .. Current : engines[g].sequence <= asked /\ Len(engines[g].cache) <= Capacity

LEMMA DocumentIs ==
  \A d : d \in Documents <=> d \in Docs /\ Len(d.prefix) <= MaxTyped
<1>1. \A s : s \in SeqOf(Chars, MaxTyped) <=> s \in Seq(Chars) /\ Len(s) <= MaxTyped
  <2>1. ASSUME NEW s, s \in SeqOf(Chars, MaxTyped)
        PROVE  s \in Seq(Chars) /\ Len(s) <= MaxTyped
    <3>1. PICK m \in 0 .. MaxTyped : s \in [1 .. m -> Chars]
      BY <2>1 DEF SeqOf
    <3>2. m \in Nat /\ m <= MaxTyped
      BY CompletionAssumption
    <3>3. s \in Seq(Chars) /\ Len(s) = m
      BY <3>1, <3>2
    <3> QED BY <3>2, <3>3
  <2>2. ASSUME NEW s \in Seq(Chars), Len(s) <= MaxTyped
        PROVE  s \in SeqOf(Chars, MaxTyped)
    <3>1. Len(s) \in 0 .. MaxTyped /\ s \in [1 .. Len(s) -> Chars]
      BY <2>2, CompletionAssumption
    <3> QED BY <3>1 DEF SeqOf
  <2> QED BY <2>1, <2>2
<1>2. \A d : d \in Docs /\ Len(d.prefix) <= MaxTyped => d \in Documents
  BY <1>1 DEF Docs, Documents
<1> QED BY <1>1, <1>2 DEF Docs, Documents

LEMMA RemovedLength ==
  ASSUME NEW S, NEW s \in Seq(S), NEW n \in DOMAIN s
  PROVE  Len(RemoveAt(s, n)) = Len(s) - 1
<1> DEFINE a == SubSeq(s, 1, n - 1)
           b == SubSeq(s, n + 1, Len(s))
<1>1. n \in 1 .. Len(s) /\ Len(s) \in Nat
  OBVIOUS
<1>2. a \in Seq(S) /\ Len(a) = n - 1
  BY <1>1
<1>3. b \in Seq(S) /\ Len(b) = Len(s) - n
  BY <1>1
<1>4. RemoveAt(s, n) = a \o b
  BY DEF RemoveAt
<1> HIDE DEF a, b
<1>5. a \o b \in Seq(S) /\ Len(a \o b) = Len(s) - 1
  BY <1>1, <1>2, <1>3
<1> QED BY <1>4, <1>5

\* A cache has room for so many entries.
LEMMA CacheBounded ==
  ASSUME NEW cache \in Seq(Entries), Len(cache) <= Capacity
  PROVE  /\ \A n \in DOMAIN cache : Len(Touched(cache, n)) <= Capacity
         /\ \A doc \in Docs, txt \in Seq(Chars) : Len(Put(cache, doc, txt)) <= Capacity
<1>c. Capacity \in Nat /\ Len(cache) \in Nat
  BY CompletionAssumption
<1>1. ASSUME NEW n \in DOMAIN cache PROVE Len(Touched(cache, n)) <= Capacity
  <2>1. RemoveAt(cache, n) \in Seq(Entries) /\ Len(RemoveAt(cache, n)) = Len(cache) - 1
    BY RemovedKeeps, RemovedLength
  <2>2. Len(Touched(cache, n)) = (Len(cache) - 1) + 1
    BY <2>1 DEF Touched
  <2> QED BY <1>c, <2>2
<1>2. ASSUME NEW doc \in Docs, NEW txt \in Seq(Chars)
      PROVE  Len(Put(cache, doc, txt)) <= Capacity
  <2> DEFINE new == [context |-> doc.context, prefix |-> doc.prefix, value |-> txt]
             w == Without(cache, doc)
             all == Append(w, new)
  <2>1. w \in Seq(Entries) /\ Len(w) <= Capacity
    <3>1. CASE SameKey(cache, doc) = {}
      BY <3>1 DEF Without
    <3>2. CASE SameKey(cache, doc) # {}
      <4>1. PICK n \in DOMAIN cache : w = RemoveAt(cache, n)
        BY <3>2 DEF Without, SameKey
      <4>2. w \in Seq(Entries) /\ Len(w) = Len(cache) - 1
        BY <4>1, RemovedKeeps, RemovedLength
      <4> QED BY <1>c, <4>2
    <3> QED BY <3>1, <3>2
  <2>2. new \in Entries
    BY DEF Entries, Docs
  <2>3. Put(cache, doc, txt) = IF doc.prefix = << >> THEN cache
                               ELSE IF Len(all) > Capacity THEN Tail(all) ELSE all
    BY DEF Put
  <2> HIDE DEF w, new
  <2>4. all \in Seq(Entries) /\ Len(all) = Len(w) + 1 /\ Len(w) \in Nat
    BY <2>1, <2>2
  <2>5. Len(all) > Capacity => Len(Tail(all)) = Len(all) - 1
    BY <1>c, <2>4
  <2> HIDE DEF all
  <2>6. CASE doc.prefix = << >>
    BY <2>3, <2>6
  <2>7. CASE doc.prefix # << >> /\ Len(all) > Capacity
    <3>1. Put(cache, doc, txt) = Tail(all)
      BY <2>3, <2>7
    <3>2. Len(Tail(all)) = Len(w)
      BY <2>4, <2>5, <2>7
    <3> QED BY <2>1, <3>1, <3>2
  <2>8. CASE doc.prefix # << >> /\ ~ Len(all) > Capacity
    BY <1>c, <2>1, <2>3, <2>4, <2>8
  <2> QED BY <2>6, <2>7, <2>8
<1> QED BY <1>1, <1>2

LEMMA CompletionBoundsStart == CompletionInit => CompletionBounds
<1> SUFFICES ASSUME CompletionInit PROVE CompletionBounds
  OBVIOUS
<1>1. document \in Documents
  <2>1. document \in [context : Contexts, prefix : {<< >>}] /\ << >> \in Seq(Chars)
    BY DEF CompletionInit
  <2>2. document \in Docs /\ Len(document.prefix) = 0
    BY <2>1 DEF Docs
  <2> QED BY <2>2, DocumentIs, CompletionAssumption
<1>2. Current = 1 /\ engines[1].cache = << >> /\ engines[1].sequence = 0
  BY DEF CompletionInit, Current, NewEngine
<1>3. requests = {} /\ asked = 0 /\ surfaced = FALSE
  BY DEF CompletionInit
<1>4. 0 <= MaxRequests /\ 1 <= MaxEngines /\ 0 <= Capacity
  BY CompletionAssumption
<1>5. \A g \in 1 .. Current : engines[g].sequence <= asked /\ Len(engines[g].cache) <= Capacity
  BY <1>2, <1>3, <1>4
<1> QED BY <1>1, <1>2, <1>3, <1>4, <1>5 DEF CompletionBounds

LEMMA EditedBounded ==
  ASSUME CompletionTypes, CompletionBounds, NEW doc \in Documents, Edited(doc)
  PROVE  CompletionBounds'
<1>1. \A req \in CompletionCalls :
        LET r == [req EXCEPT !.aborted = TRUE]
        IN r.doc = req.doc /\ r.number = req.number /\ r.sequence = req.sequence
  BY DEF CompletionCalls
<1>2. ASSUME NEW r \in requests' PROVE RequestBounded(r, asked)
  <2>1. PICK req \in requests : r = [req EXCEPT !.aborted = TRUE]
    BY DEF Edited
  <2>2. req \in CompletionCalls /\ RequestBounded(req, asked)
    BY DEF CompletionTypes, CompletionBounds
  <2>3. r.doc = req.doc /\ r.number = req.number /\ r.sequence = req.sequence
    BY <1>1, <2>1, <2>2
  <2> QED BY <2>2, <2>3 DEF RequestBounded
<1> QED BY <1>2 DEF CompletionBounds, Edited, Current

LEMMA UserBounded ==
  ASSUME CompletionTypes, CompletionBounds, Type \/ Delete \/ OtherContext
  PROVE  CompletionBounds'
<1>1. document \in Docs /\ Len(document.prefix) <= MaxTyped /\ MaxTyped \in Nat
      /\ document.prefix \in Seq(Chars)
  BY DocumentIs, CompletionAssumption DEF CompletionBounds, Docs
<1>2. CASE Type
  <2>1. PICK c \in Chars :
          Len(document.prefix) < MaxTyped /\ Edited([document EXCEPT !.prefix = Append(@, c)])
    BY <1>2 DEF Type
  <2>2. PICK s : s = Append(document.prefix, c)
    OBVIOUS
  <2>3. s \in Seq(Chars) /\ Len(s) <= MaxTyped
    BY <1>1, <2>1, <2>2
  <2>4. PICK doc : doc = [document EXCEPT !.prefix = s]
    OBVIOUS
  <2>5. doc \in Docs /\ doc.prefix = s
    BY <1>1, <2>3, <2>4 DEF Docs
  <2> QED BY <2>1, <2>2, <2>3, <2>4, <2>5, DocumentIs, EditedBounded
<1>3. CASE Delete
  <2>1. document.prefix # << >> /\ Edited([document EXCEPT !.prefix = Front(@)])
    BY <1>3 DEF Delete
  <2>2. PICK s : s = Front(document.prefix)
    OBVIOUS
  <2>3. s \in Seq(Chars) /\ Len(s) <= MaxTyped
    <3>1. document.prefix \in Seq(Chars) /\ Len(document.prefix) > 0
      BY <1>1, <2>1
    <3> QED BY <1>1, <2>2, <3>1 DEF Front
  <2>4. PICK doc : doc = [document EXCEPT !.prefix = s]
    OBVIOUS
  <2>5. doc \in Docs /\ doc.prefix = s
    BY <1>1, <2>3, <2>4 DEF Docs
  <2> QED BY <2>1, <2>2, <2>3, <2>4, <2>5, DocumentIs, EditedBounded
<1>4. CASE OtherContext
  <2>1. PICK c \in Contexts : Edited([document EXCEPT !.context = c])
    BY <1>4 DEF OtherContext
  <2>2. PICK doc : doc = [document EXCEPT !.context = c]
    OBVIOUS
  <2>3. doc \in Docs /\ doc.prefix = document.prefix
    BY <1>1, <2>2 DEF Docs
  <2> QED BY <1>1, <2>1, <2>2, <2>3, DocumentIs, EditedBounded
<1> QED BY <1>2, <1>3, <1>4

\* One cache becomes c, and the requests are others.
LEMMA CacheChanges ==
  ASSUME CompletionTypes, CompletionBounds, NEW g \in 1 .. Current, NEW c \in Seq(Entries),
         Len(c) <= Capacity, engines' = [engines EXCEPT ![g].cache = c],
         asked' \in asked .. MaxRequests, UNCHANGED <<document, surfaced>>,
         \A r \in requests' : RequestBounded(r, asked')
  PROVE  CompletionBounds'
<1>1. /\ Len(engines') = Len(engines) /\ engines'[g].cache = c
      /\ \A h \in 1 .. Current : h # g => engines'[h] = engines[h]
  BY CacheReplaced
<1>2. engines'[g].sequence = engines[g].sequence
  <2> DEFINE S == [sequence : Nat, cache : Seq(Entries)]
             new == [engines[g] EXCEPT !.cache = c]
  <2>1. engines \in Seq(S) /\ g \in 1 .. Len(engines)
    BY DEF CompletionTypes, Current
  <2>2. engines[g] \in S
    <3> HIDE DEF S
    <3> QED BY <2>1
  <2>3. new.sequence = engines[g].sequence
    BY <2>2
  <2>4. engines'[g] = new
    <3> HIDE DEF S, new
    <3>1. engines' = [engines EXCEPT ![g] = new]
      BY DEF new
    <3> QED BY <2>1, <3>1
  <2> QED BY <2>3, <2>4
<1>3. ASSUME NEW h \in 1 .. Current
      PROVE  engines'[h].sequence <= asked' /\ Len(engines'[h].cache) <= Capacity
  <2>1. engines[h].sequence <= asked /\ engines[h].sequence \in Nat /\ asked \in Nat
        /\ Len(engines[h].cache) <= Capacity
    BY EnginesKeep DEF CompletionBounds, CompletionTypes
  <2>2. engines[h].sequence <= asked'
    BY <2>1, CompletionAssumption
  <2>3. CASE h = g
    BY <1>1, <1>2, <2>2, <2>3
  <2>4. CASE h # g
    BY <1>1, <2>1, <2>2, <2>4
  <2> QED BY <2>3, <2>4
<1>4. asked' <= MaxRequests /\ Current' = Current
  BY <1>1, CompletionAssumption DEF CompletionTypes, Current
<1> QED BY <1>3, <1>4 DEF CompletionBounds

\* The engines stay.
LEMMA EnginesStay ==
  ASSUME CompletionTypes, CompletionBounds, engines' = engines,
         asked' \in asked .. MaxRequests, document' = document, surfaced' \in BOOLEAN,
         \A r \in requests' : RequestBounded(r, asked')
  PROVE  CompletionBounds'
<1>1. ASSUME NEW h \in 1 .. Current PROVE engines[h].sequence <= asked'
  <2>1. engines[h].sequence <= asked /\ engines[h].sequence \in Nat /\ asked \in Nat
    BY EnginesKeep DEF CompletionBounds, CompletionTypes
  <2> QED BY <2>1, CompletionAssumption
<1>2. asked' <= MaxRequests /\ Current' = Current
  BY CompletionAssumption DEF CompletionTypes, Current
<1> QED BY <1>1, <1>2 DEF CompletionBounds

LEMMA ConsultsBounded ==
  ASSUME CompletionTypes, CompletionBounds, NEW req \in CompletionCalls, req.engine \in 1 .. Current,
         NEW others, asked' \in asked .. MaxRequests, UNCHANGED <<document, surfaced>>,
         RequestBounded(req, asked'), \A r \in others : RequestBounded(r, asked'),
         Consults(req, others)
  PROVE  CompletionBounds'
<1> DEFINE cache == engines[req.engine].cache
<1>1. cache \in Seq(Entries) /\ Len(cache) <= Capacity /\ req.doc \in Docs
  BY EnginesKeep DEF CompletionCalls, CompletionBounds
<1>2. CASE /\ Hit(cache, req.doc) /\ requests' = others
           /\ engines' = [engines EXCEPT ![req.engine].cache = Touched(@, Best(@, req.doc))]
  <2>1. PICK n \in DOMAIN cache : n = Best(cache, req.doc)
    <3> HIDE DEF cache
    <3> QED BY <1>1, <1>2, HitContinues
  <2>2. PICK c : c = Touched(cache, n)
    OBVIOUS
  <2>3. c \in Seq(Entries) /\ Len(c) <= Capacity
    <3> HIDE DEF cache
    <3> QED BY <1>1, <2>2, TouchedKeeps, CacheBounded
  <2>4. engines' = [engines EXCEPT ![req.engine].cache = c]
    BY <1>2, <2>1, <2>2
  <2> QED BY <1>2, <2>3, <2>4, CacheChanges
<1>3. CASE /\ requests' = IF req.doc.context \in Blocked THEN others
                          ELSE others \cup {[req EXCEPT !.state = "stream"]}
           /\ UNCHANGED <<engines, offered>>
  <2>1. PICK r : r = [req EXCEPT !.state = "stream"]
    OBVIOUS
  <2>2. r.doc = req.doc /\ r.number = req.number /\ r.sequence = req.sequence
    BY <2>1 DEF CompletionCalls
  <2>3. \A q \in requests' : q \in others \/ q = r
    BY <1>3, <2>1
  <2>4. \A q \in requests' : RequestBounded(q, asked')
    BY <2>2, <2>3 DEF RequestBounded
  <2>5. surfaced' \in BOOLEAN
    BY DEF CompletionBounds
  <2> QED BY <1>3, <2>4, <2>5, EnginesStay
<1> QED BY <1>2, <1>3 DEF Consults

LEMMA CompletionBoundsKept ==
  CompletionInv /\ CompletionBounds /\ [CompletionNext]_completionVars => CompletionBounds'
<1> SUFFICES ASSUME CompletionTypes, CompletionBounds, [CompletionNext]_completionVars
             PROVE  CompletionBounds'
  BY DEF CompletionInv
<1>1. /\ requests \subseteq CompletionCalls /\ asked \in Nat /\ Current \in 1 .. Current
      /\ Current \in Nat /\ asked \in asked .. MaxRequests /\ surfaced \in BOOLEAN
      /\ \A req \in requests : req.engine \in 1 .. Current /\ RequestBounded(req, asked)
      /\ document \in Docs /\ document \in Documents
  BY CompletionAssumption, DocumentIs DEF CompletionTypes, CompletionBounds, Current
<1>2. CASE UNCHANGED completionVars
  BY <1>2 DEF completionVars, CompletionBounds, Current
<1>3. CASE Type \/ Delete \/ OtherContext
  BY <1>3, UserBounded
<1>n. ASSUME asked < MaxRequests, NEW k \in Nat, k <= asked + 1
      PROVE  /\ NewRequest(k) \in CompletionCalls /\ NewRequest(k).engine = Current
             /\ RequestBounded(NewRequest(k), asked + 1) /\ asked + 1 \in asked .. MaxRequests
             /\ \A req \in requests : RequestBounded(req, asked + 1)
  <2>1. asked + 1 \in 1 .. asked + 1 /\ asked + 1 \in asked .. MaxRequests
    BY <1>1, <1>n, CompletionAssumption
  <2>2. /\ NewRequest(k) \in CompletionCalls /\ NewRequest(k).engine = Current
        /\ RequestBounded(NewRequest(k), asked + 1)
    BY <1>1, <1>n, <2>1 DEF NewRequest, CompletionCalls, RequestBounded
  <2>3. ASSUME NEW req \in requests PROVE RequestBounded(req, asked + 1)
    <3>1. req.number \in 1 .. asked /\ req.sequence <= asked /\ req.sequence \in Nat
      BY <1>1 DEF RequestBounded, CompletionCalls
    <3> QED BY <1>1, <3>1 DEF RequestBounded
  <2> QED BY <2>1, <2>2, <2>3
<1>4. CASE ProvideTyped
  <2>1. PICK k : k = engines[Current].sequence + 1
    OBVIOUS
  <2>2. k \in Nat /\ k <= asked + 1 /\ engines[Current].sequence \in Nat
    BY <1>1, <2>1, EnginesKeep DEF CompletionBounds
  <2>3. engines' = [engines EXCEPT ![Current].sequence = k]
    BY <1>4, <2>1 DEF ProvideTyped
  <2> DEFINE S == [sequence : Nat, cache : Seq(Entries)]
             new == [engines[Current] EXCEPT !.sequence = k]
  <2>4. engines[Current] \in S
    BY <1>1, EnginesKeep
  <2>5. new \in S /\ new.sequence = k /\ new.cache = engines[Current].cache
    BY <2>2, <2>4
  <2>6. engines \in Seq(S) /\ Current \in 1 .. Len(engines)
    BY <1>1 DEF CompletionTypes, Current
  <2>7. engines' = [engines EXCEPT ![Current] = new]
    BY <2>3
  <2> HIDE DEF S, new
  <2>8. /\ Len(engines') = Len(engines) /\ engines'[Current] = new
        /\ \A h \in 1 .. Len(engines) : h # Current => engines'[h] = engines[h]
    BY <2>5, <2>6, <2>7
  <2>9. /\ asked < MaxRequests /\ asked' = asked + 1
        /\ requests' = requests \cup {NewRequest(k)} /\ UNCHANGED <<document, surfaced>>
    BY <1>4, <2>5, <2>8 DEF ProvideTyped
  <2>10. \A r \in requests' : RequestBounded(r, asked')
    BY <1>n, <2>2, <2>9
  <2>11. ASSUME NEW h \in 1 .. Current
         PROVE  engines'[h].sequence <= asked' /\ Len(engines'[h].cache) <= Capacity
    <3>1. engines[h].sequence <= asked /\ engines[h].sequence \in Nat
          /\ Len(engines[h].cache) <= Capacity
      BY EnginesKeep DEF CompletionBounds
    <3>2. CASE h = Current
      BY <2>2, <2>5, <2>8, <2>9, <3>1, <3>2
    <3>3. CASE h # Current
      <4>1. engines'[h] = engines[h]
        BY <2>8, <3>3 DEF Current
      <4> QED BY <1>1, <2>9, <3>1, <4>1
    <3> QED BY <3>2, <3>3
  <2>12. Current' = Current /\ asked' <= MaxRequests
    BY <1>1, <2>8, <2>9, CompletionAssumption DEF Current
  <2> QED BY <2>9, <2>10, <2>11, <2>12 DEF CompletionBounds
<1>5. CASE ProvideManual
  <2>1. PICK r, others : r = NewRequest(0) /\ others = requests
    OBVIOUS
  <2>2. /\ Consults(r, others) /\ UNCHANGED <<document, surfaced>> /\ asked' = asked + 1
        /\ asked < MaxRequests
    BY <1>5, <2>1 DEF ProvideManual
  <2>3. /\ r \in CompletionCalls /\ r.engine \in 1 .. Current
        /\ RequestBounded(r, asked') /\ asked' \in asked .. MaxRequests
        /\ \A req \in others : RequestBounded(req, asked')
    <3>1. 0 \in Nat /\ 0 <= asked + 1
      BY <1>1
    <3> QED BY <1>1, <1>n, <2>1, <2>2, <3>1
  <2> QED BY <2>2, <2>3, ConsultsBounded
<1>6. CASE CommandFails
  <2>1. surfaced' \in BOOLEAN
    BY <1>6 DEF CommandFails
  <2> QED BY <1>1, <1>6, <2>1, EnginesStay DEF CommandFails
<1>7. CASE Rebuild
  <2> DEFINE S == [sequence : Nat, cache : Seq(Entries)]
  <2>1. NewEngine \in S /\ NewEngine.cache = << >> /\ NewEngine.sequence = 0
    BY DEF NewEngine
  <2>2. engines \in Seq(S) /\ engines' = Append(engines, NewEngine) /\ Current < MaxEngines
    BY <1>7 DEF CompletionTypes, Rebuild
  <2> HIDE DEF S
  <2>3. /\ Len(engines') = Len(engines) + 1 /\ engines'[Len(engines) + 1] = NewEngine
        /\ \A h \in 1 .. Len(engines) : engines'[h] = engines[h]
    BY <2>1, <2>2
  <2>4. UNCHANGED <<document, requests, asked, surfaced>>
    BY <1>7 DEF Rebuild
  <2>5. ASSUME NEW h \in 1 .. Current + 1
        PROVE  engines'[h].sequence <= asked /\ Len(engines'[h].cache) <= Capacity
    <3>1. CASE h = Current + 1
      BY <1>1, <2>1, <2>3, <3>1, CompletionAssumption DEF Current
    <3>2. CASE h \in 1 .. Current
      BY <2>3, <3>2 DEF CompletionBounds, Current
    <3> QED BY <1>1, <3>1, <3>2
  <2>6. Current' = Current + 1 /\ Current' <= MaxEngines
    BY <1>1, <2>2, <2>3, CompletionAssumption DEF Current
  <2> QED BY <2>4, <2>5, <2>6 DEF CompletionBounds
<1>8. ASSUME NEW req \in requests, CancelToken(req) PROVE CompletionBounds'
  <2>1. PICK r : r = [req EXCEPT !.aborted = TRUE]
    OBVIOUS
  <2>2. r.doc = req.doc /\ r.number = req.number /\ r.sequence = req.sequence
    BY <1>1, <2>1 DEF CompletionCalls
  <2>3. \A q \in requests' : RequestBounded(q, asked)
    BY <1>1, <1>8, <2>1, <2>2 DEF CancelToken, RequestBounded
  <2> QED BY <1>1, <1>8, <2>3, EnginesStay DEF CancelToken
<1>9. ASSUME NEW req \in requests, DebounceFires(req) PROVE CompletionBounds'
  <2>1. UNCHANGED <<document, asked, surfaced>> /\ \A q \in requests \ {req} : RequestBounded(q, asked)
    BY <1>1, <1>9 DEF DebounceFires
  <2>2. CASE requests' = requests \ {req} /\ UNCHANGED <<engines, offered>>
    BY <1>1, <2>1, <2>2, EnginesStay
  <2>3. CASE Consults(req, requests \ {req})
    BY <1>1, <2>1, <2>3, ConsultsBounded
  <2> QED BY <1>9, <2>2, <2>3 DEF DebounceFires
<1>10. ASSUME NEW req \in requests, NEW txt \in Texts \cup {<< >>}, StreamEnds(req, txt)
       PROVE  CompletionBounds'
  <2>1. requests' = requests \ {req} /\ UNCHANGED <<document, asked, surfaced>>
    BY <1>10 DEF StreamEnds
  <2>2. CASE UNCHANGED <<engines, answers, offered>>
    BY <1>1, <2>1, <2>2, EnginesStay
  <2>3. CASE ~ (req.aborted \/ txt = << >>)
    <3>1. txt \in Seq(Chars) /\ req.doc \in Docs /\ req.engine \in 1 .. Current
      BY <1>1, <2>3, CompletionAssumption DEF CompletionCalls
    <3>2. engines' = [engines EXCEPT ![req.engine].cache = Put(@, req.doc, txt)]
      BY <1>10, <2>3 DEF StreamEnds
    <3>3. PICK cache, c : cache = engines[req.engine].cache /\ c = Put(cache, req.doc, txt)
      OBVIOUS
    <3>4. cache \in Seq(Entries) /\ Len(cache) <= Capacity
      BY <3>1, <3>3, EnginesKeep DEF CompletionBounds
    <3>5. c \in Seq(Entries) /\ Len(c) <= Capacity
      BY <3>1, <3>3, <3>4, PutKeeps, CacheBounded
    <3>6. engines' = [engines EXCEPT ![req.engine].cache = c]
      BY <3>2, <3>3
    <3> QED BY <1>1, <2>1, <3>1, <3>5, <3>6, CacheChanges
  <2> QED BY <1>10, <2>2, <2>3 DEF StreamEnds
<1>11. ASSUME NEW req \in requests, NEW actionable \in BOOLEAN, StreamFails(req, actionable)
       PROVE  CompletionBounds'
  <2>1. surfaced' \in BOOLEAN
    BY <1>11 DEF StreamFails
  <2> QED BY <1>1, <1>11, <2>1, EnginesStay DEF StreamFails
<1> QED
  BY <1>2, <1>3, <1>4, <1>5, <1>6, <1>7, <1>8, <1>9, <1>10, <1>11 DEF CompletionNext

LEMMA CompletionTyped == CompletionInv /\ CompletionBounds => CompletionTypeOK
<1> SUFFICES ASSUME CompletionTypes, CompletionBounds PROVE CompletionTypeOK
  BY DEF CompletionInv
<1>1. /\ Current \in Nat /\ Current \in 1 .. MaxEngines /\ asked \in 0 .. MaxRequests
  BY CompletionAssumption DEF CompletionTypes, CompletionBounds, Current
<1>2. ASSUME NEW req \in requests
      PROVE  req \in [number : 1 .. asked, state : {"debounce", "stream"}, doc : Documents,
                      engine : 1 .. MaxEngines, sequence : 0 .. asked, aborted : BOOLEAN]
  <2>1. req \in CompletionCalls /\ req.engine \in 1 .. Current /\ RequestBounded(req, asked)
    BY DEF CompletionTypes, CompletionBounds
  <2>2. req.sequence \in Nat /\ req.sequence <= asked /\ req.engine \in Nat
    BY <2>1 DEF CompletionCalls, RequestBounded
  <2>3. MaxEngines \in Nat /\ Current <= MaxEngines
    BY <1>1, CompletionAssumption
  <2>4. req.sequence \in 0 .. asked
    BY <1>1, <2>2
  <2>5. req.engine \in 1 .. MaxEngines
    BY <1>1, <2>1, <2>2, <2>3
  <2>6. req.number \in 1 .. asked /\ req.doc \in Documents
    BY <2>1 DEF RequestBounded
  <2> QED BY <2>1, <2>4, <2>5, <2>6 DEF CompletionCalls
<1>3. ASSUME NEW g \in 1 .. Current
      PROVE  engines[g].sequence \in 0 .. MaxRequests /\ Len(engines[g].cache) <= Capacity
  <2>1. /\ engines[g].sequence \in Nat /\ engines[g].sequence <= asked
        /\ Len(engines[g].cache) <= Capacity
    BY EnginesKeep DEF CompletionBounds
  <2>2. asked \in Nat /\ asked <= MaxRequests /\ MaxRequests \in Nat
    BY <1>1, CompletionAssumption
  <2>3. engines[g].sequence \in 0 .. MaxRequests
    BY <2>1, <2>2
  <2> QED BY <2>1, <2>3
<1> QED BY <1>1, <1>2, <1>3 DEF CompletionBounds, CompletionTypeOK

-------------------------------------------------------------------------------
\* The passes of the tracker registry, and the numbers of the key.

\* A folder of the list is assigned to the root of a folder of the list.
LEMMA AssignedIsRoot ==
  ASSUME NEW list \in FolderLists, NEW f \in ToSet(list)
  PROVE  Assigned(f, list) \in Roots
<1> DEFINE containing == {i \in DOMAIN list : list[i] = f \/ <<list[i], f>> \in Holds}
<1>1. list \in Seq(Folders)
  BY RegistryAssumption
<1>2. \E i \in DOMAIN list : list[i] = f
  BY DEF ToSet
<1>3. containing \subseteq Nat /\ containing # {}
  BY <1>1, <1>2
<1>4. PICK i : i = CHOOSE k \in containing : \A j \in containing : k <= j
  OBVIOUS
<1>5. i \in containing
  <2>1. \E k \in containing : \A j \in containing : k <= j
    BY <1>3, LeastNatural
  <2> QED BY <1>4, <2>1
<1>6. list[i] \in Folders
  BY <1>1, <1>5
<1>7. FindContainingWorkspaceRoot(f, list) = list[i]
  BY <1>4 DEF FindContainingWorkspaceRoot
<1> QED BY <1>6, <1>7 DEF Assigned, Roots

LEMMA DesiredAreRoots == \A list \in FolderLists : Desired(list) \subseteq Roots
BY AssignedIsRoot DEF Desired

Passes == [phase : {"idle", "adding", "removing"}, todo : SUBSET Roots,
           list : FolderLists \cup {<< >>}, waits : SUBSET Instances]
Disposals == [on : BOOLEAN, todo : SUBSET Roots, waits : SUBSET Instances]

RegistryTypes ==
  /\ folders \in FolderLists /\ reconciles \in 0 .. MaxReconciles
  /\ pass \in Passes /\ disposal \in Disposals /\ trackers \subseteq Instances
  /\ initing \subseteq Instances /\ flushing \subseteq Instances
  /\ prevFolders \in FolderLists \cup {<< >>}
  /\ promotionNotified \subseteq Roots /\ initFailed \subseteq Roots

LEMMA RegistryTyped == RegistryInv /\ RegistryTypes => RegistryTypeOK
BY DEF RegistryInv, OneTrackerPerRoot, RegistryTypes, Passes, Disposals, RegistryTypeOK

\* The work list of a pass changes.
LEMMA PassMoves ==
  ASSUME NEW p \in Passes, NEW todo \in SUBSET Roots, NEW waits \in SUBSET Instances
  PROVE  /\ [p EXCEPT !.todo = todo] \in Passes
         /\ [p EXCEPT !.todo = todo, !.waits = waits] \in Passes
         /\ [p EXCEPT !.phase = "removing", !.todo = todo] \in Passes
BY DEF Passes

LEMMA RegistryTypesStart == RegistryInit => RegistryTypes
BY RegistryAssumption DEF RegistryInit, RegistryTypes, Passes, Disposals, NoPass

LEMMA RegistryTypesKept == RegistryTypes /\ [RegistryNext]_registryVars => RegistryTypes'
<1> SUFFICES ASSUME RegistryTypes, [RegistryNext]_registryVars PROVE RegistryTypes'
  OBVIOUS
<1> USE DEF RegistryTypes
<1>t. /\ \A t \in Instances : t[1] \in Roots
      /\ Tracked \subseteq Roots /\ pass.todo \subseteq Roots /\ disposal.todo \subseteq Roots
  BY DEF Instances, Tracked, Passes, Disposals
<1>1. CASE UNCHANGED registryVars
  BY <1>1 DEF registryVars
<1>2. CASE ChangeFolders
  BY <1>2, RegistryAssumption DEF ChangeFolders
<1>3. CASE PassStart
  <2>1. Desired(folders) \subseteq Roots
    BY DesiredAreRoots
  <2>2. Promoted(folders) \subseteq Roots
    <3>1. \A f \in ToSet(folders) : Canon[f] \in Roots
      BY RegistryAssumption DEF ToSet, Roots
    <3> QED BY <3>1 DEF Promoted
  <2>3. pass' \in Passes
    BY <1>3, <2>1 DEF PassStart, NoPass, Passes
  <2>4. reconciles' \in 0 .. MaxReconciles
    BY <1>3, RegistryAssumption DEF PassStart
  <2> QED BY <1>3, <2>2, <2>3, <2>4 DEF PassStart
<1>4. CASE PassAdds
  <2>1. PICK root \in pass.todo, n \in 1 .. MaxInstances :
          /\ trackers' = trackers \cup {<<root, n>>}
          /\ initing' = initing \cup {<<root, n>>}
          /\ initFailed' = initFailed \ {root}
          /\ pass' = [pass EXCEPT !.todo = pass.todo \ {root}]
    BY <1>4 DEF PassAdds, Passes
  <2>2. <<root, n>> \in Instances
    BY <1>t, <2>1 DEF Instances
  <2>3. pass' \in Passes
    BY <1>t, <2>1, PassMoves
  <2> QED BY <1>4, <2>1, <2>2, <2>3 DEF PassAdds
<1>5. CASE PassSkips
  <2>1. PICK root : pass' = [pass EXCEPT !.todo = pass.todo \ {root}]
    BY <1>5 DEF PassSkips, Passes
  <2>2. pass' \in Passes
    BY <1>t, <2>1, PassMoves
  <2> QED BY <1>5, <2>2 DEF PassSkips
<1>6. CASE PassAdded
  <2>1. pass' \in Passes
    BY <1>t, <1>6, PassMoves DEF PassAdded
  <2> QED BY <1>6, <2>1 DEF PassAdded
<1>7. CASE PassRemoves
  <2>1. PICK t \in trackers :
          RemoveRoot(t) /\ pass' = [pass EXCEPT !.todo = pass.todo \ {t[1]}, !.waits = {t}]
    BY <1>7 DEF PassRemoves, Passes
  <2>2. pass' \in Passes
    <3>1. {t} \in SUBSET Instances /\ pass.todo \ {t[1]} \in SUBSET Roots
      BY <1>t, <2>1
    <3> QED BY <2>1, <3>1, PassMoves
  <2> QED BY <1>7, <2>1, <2>2 DEF PassRemoves, RemoveRoot
<1>8. CASE PassEnd
  <2>1. pass' \in Passes /\ prevFolders' \in FolderLists \cup {<< >>}
    BY <1>8 DEF PassEnd, NoPass, Passes
  <2> QED BY <1>8, <2>1 DEF PassEnd
<1>9. CASE Deactivate
  BY <1>t, <1>9 DEF Deactivate, Disposals
<1>10. CASE DisposalRemoves
  <2>1. PICK t \in trackers :
          /\ RemoveRoot(t)
          /\ disposal' = [disposal EXCEPT !.todo = disposal.todo \ {t[1]}, !.waits = {t}]
    BY <1>10 DEF DisposalRemoves, Disposals
  <2>2. disposal' \in Disposals
    <3>1. {t} \in SUBSET Instances /\ disposal.todo \ {t[1]} \in SUBSET Roots
      BY <1>t, <2>1
    <3>2. \A d \in Disposals, a \in SUBSET Roots, w \in SUBSET Instances :
            [d EXCEPT !.todo = a, !.waits = w] \in Disposals
      BY DEF Disposals
    <3> QED BY <2>1, <3>1, <3>2
  <2> QED BY <1>10, <2>1, <2>2 DEF DisposalRemoves, RemoveRoot
<1>11. ASSUME NEW t \in Instances, Flushed(t) \/ InitSucceeds(t) \/ InitFails(t)
       PROVE  RegistryTypes'
  BY <1>t, <1>11 DEF Flushed, InitSucceeds, InitFails
<1> QED
  BY <1>1, <1>2, <1>3, <1>4, <1>5, <1>6, <1>7, <1>8, <1>9, <1>10, <1>11 DEF RegistryNext

--------------------------------------------------------------------------------
\* The key: with ApiKeyTypeOK an event that is not heard of has a read left for it.
LEMMA KeyTypeStart == ApiKeyInit => ApiKeyTypeOK
<1> SUFFICES ASSUME ApiKeyInit PROVE ApiKeyTypeOK
  OBVIOUS
<1>1. setting \in KeyOrNone /\ 0 \in KeyOrNone
  BY DEF ApiKeyInit, KeyOrNone
<1>2. keyEvents \in Nat /\ keyRefreshSeq \in 1 .. MaxReads - keyEvents
  BY ApiKeyAssumption DEF ApiKeyInit
<1> QED BY <1>1, <1>2 DEF ApiKeyInit, ApiKeyTypeOK

LEMMA KeyTypeKept == ApiKeyTypeOK /\ [ApiKeyNext]_keyVars => ApiKeyTypeOK'
<1> SUFFICES ASSUME ApiKeyTypeOK, [ApiKeyNext]_keyVars PROVE ApiKeyTypeOK'
  OBVIOUS
<1> USE ApiKeyAssumption DEF ApiKeyTypeOK
<1>0. 0 \in KeyOrNone /\ Keys \subseteq KeyOrNone
  BY DEF KeyOrNone
<1>s. ASSUME NEW k \in KeyOrNone, Stored(k)
      PROVE  /\ storedKey' \in KeyOrNone /\ keyEvents' \in Nat
             /\ keyRefreshSeq' \in 1 .. MaxReads - keyEvents'
             /\ UNCHANGED <<apiKey, keyReads, keyRefreshSeq, keyLost>>
  BY <1>s DEF Stored
<1>1. CASE UNCHANGED keyVars
  BY <1>1 DEF keyVars
<1>2. CASE InitGets
  <2>1. initKey' \in [at : {"get", "store", "clear", "arrive", "done"}, key : KeyOrNone]
    BY <1>2 DEF InitGets
  <2>2. inMemory' \in {"unread", "readBack", "wiped"}
    BY <1>2 DEF InitGets
  <2> QED BY <1>2, <2>1, <2>2 DEF InitGets
<1>3. CASE InitStores
  BY <1>s, <1>3 DEF InitStores
<1>4. CASE InitClears
  BY <1>0, <1>4 DEF InitClears
<1>13. CASE InitArrives
  BY <1>0, <1>13 DEF InitArrives
<1>14. CASE InitRejects
  <2>1. keyLost' \in BOOLEAN
    BY <1>14 DEF InitRejects, NewestRead
  <2> QED BY <1>0, <1>14, <2>1 DEF InitRejects
<1>5. CASE KeyChanged
  <2>1. keyEvents' \in Nat /\ keyRefreshSeq' \in 1 .. MaxReads - keyEvents'
    BY <1>5 DEF KeyChanged
  <2>2. keyReads' \subseteq (2 .. keyRefreshSeq') \X (KeyOrNone \cup {-1})
    <3>1. keyRefreshSeq' = keyRefreshSeq + 1 /\ keyReads' = keyReads \cup {<<keyRefreshSeq', -1>>}
      BY <1>5 DEF KeyChanged
    <3>2. keyRefreshSeq' \in 2 .. keyRefreshSeq' /\ 2 .. keyRefreshSeq \subseteq 2 .. keyRefreshSeq'
      BY <3>1
    <3> QED BY <3>1, <3>2
  <2> QED BY <1>5, <2>1, <2>2 DEF KeyChanged
<1>6. CASE KeyServed
  BY <1>6 DEF KeyServed
<1>7. CASE KeyArrives
  BY <1>7 DEF KeyArrives
<1>8. CASE KeyReadFails
  BY <1>8 DEF KeyReadFails
<1>9. CASE EnterKey
  BY <1>0, <1>s, <1>9 DEF EnterKey
<1>10. CASE ClearKey
  BY <1>0, <1>s, <1>10 DEF ClearKey
<1>11. CASE ClearSetting
  BY <1>0, <1>11 DEF ClearSetting
<1>12. CASE Restart
  <2>1. storedKey' \in KeyOrNone
    BY <1>0, <1>12 DEF Restart
  <2>2. /\ apiKey' = 0 /\ keyEvents' = 0 /\ keyReads' = {} /\ keyRefreshSeq' = 1
        /\ clearing' = FALSE /\ initKey' = [at |-> "get", key |-> setting] /\ keyLost' = FALSE
        /\ UNCHANGED <<keyring, setting, wanted>>
        /\ inMemory' \in {"unread", "readBack", "wiped"}
    BY <1>12 DEF Restart, Activated
  <2>3. keyEvents' \in Nat /\ keyRefreshSeq' \in 1 .. MaxReads - keyEvents'
    BY <2>2
  <2>4. initKey' \in [at : {"get", "store", "clear", "arrive", "done"}, key : KeyOrNone]
    BY <1>0, <2>2
  <2> QED BY <1>0, <2>1, <2>2, <2>3, <2>4
<1>15. CASE HostRestarts
  <2>1. /\ apiKey' = 0 /\ keyEvents' = 0 /\ keyReads' = {} /\ keyRefreshSeq' = 1
        /\ clearing' = FALSE /\ initKey' = [at |-> "get", key |-> setting] /\ keyLost' = FALSE
        /\ UNCHANGED <<storedKey, keyring, setting, wanted, inMemory>>
    BY <1>15 DEF HostRestarts, Activated
  <2>2. keyEvents' \in Nat /\ keyRefreshSeq' \in 1 .. MaxReads - keyEvents'
    BY <2>1
  <2>3. initKey' \in [at : {"get", "store", "clear", "arrive", "done"}, key : KeyOrNone]
    BY <2>1
  <2> QED BY <1>0, <2>1, <2>2, <2>3
<1> QED
  BY <1>1, <1>2, <1>3, <1>4, <1>5, <1>6, <1>7, <1>8, <1>9, <1>10, <1>11, <1>12,
     <1>13, <1>14, <1>15 DEF ApiKeyNext

-------------------------------------------------------------------------------
\* The operations of the control panels.

\* Each operation fetches the panel once, at its end.
Fetched == {op \in ConfigOps : fetch[op] # NoFetch \/ opPc[op] \in Settled}
ControlBounds ==
  /\ env \subseteq ConfigOps /\ written \subseteq ConfigOps
  /\ disclosed \subseteq ConfigOps \X {"secret", "entry"}
  /\ fetchSeq <= MaxFetches + Cardinality(Fetched)

LEMMA ControlBoundsStart == ControlOpsInit => ControlBounds
<1> SUFFICES ASSUME ControlOpsInit PROVE ControlBounds
  OBVIOUS
<1>1. Fetched = {}
  BY DEF ControlOpsInit, Fetched, Settled, Fetchers
<1>2. Cardinality({}) = 0
  BY FS_EmptySet
<1> QED BY <1>1, <1>2, ControlOpsAssumption DEF ControlOpsInit, ControlBounds

\* An operation that has settled or fetches the panel goes on to do so.
LEMMA FetchedGrows ==
  ASSUME Fetched \subseteq Fetched', fetchSeq <= MaxFetches + Cardinality(Fetched),
         fetchSeq \in Nat,
         \/ fetchSeq' = fetchSeq
         \/ fetchSeq' = fetchSeq + 1 /\ (fetchSeq < MaxFetches \/ Fetched # Fetched')
  PROVE  fetchSeq' <= MaxFetches + Cardinality(Fetched')
<1> DEFINE X == Fetched
           Y == Fetched'
<1>1. IsFiniteSet(Y) /\ X \subseteq Y
  <2>1. Y \subseteq ConfigOps
    BY DEF Fetched
  <2> QED BY <2>1, ControlOpsAssumption, FS_Subset
<1>2. IsFiniteSet(X) /\ Cardinality(X) <= Cardinality(Y)
      /\ (Cardinality(X) = Cardinality(Y) => X = Y)
  BY <1>1, FS_Subset
<1>3. Cardinality(X) \in Nat /\ Cardinality(Y) \in Nat /\ MaxFetches \in Nat
  BY <1>1, <1>2, FS_CardinalityType, ControlOpsAssumption
<1>4. fetchSeq <= MaxFetches + Cardinality(X) /\ (fetchSeq' = fetchSeq
      \/ (fetchSeq' = fetchSeq + 1 /\ (fetchSeq < MaxFetches \/ X # Y)))
  OBVIOUS
<1> HIDE DEF X, Y
<1>5. fetchSeq' <= MaxFetches + Cardinality(Y)
  BY <1>2, <1>3, <1>4
<1> QED BY <1>5 DEF Y

LEMMA OperationBounds ==
  ASSUME ControlInv, ControlBounds, NEW op \in ConfigOps,
         \/ Request(op) \/ TailRuns(op) \/ Refuse(op)
         \/ ServerReads(op) \/ ServerWrites(op) \/ WriteRejected(op)
         \/ SecretWritten(op) \/ SecretRejected(op) \/ SecretVerified(op) \/ SecretMissing(op)
         \/ UndoEnv(op) \/ UndoConfig(op)
         \/ InstallStarts(op) \/ InstallEnds(op) \/ PollVerified(op) \/ PollGivesUp(op)
         \/ Reload(op)
  PROVE  ControlBounds'
<1>1. /\ fetch' = fetch /\ fetchSeq' = fetchSeq
      /\ \A p \in ConfigOps : opPc[p] \in Settled => opPc'[p] \in Settled
  <2>0. opPc \in [ConfigOps -> OpPhases]
    BY DEF ControlInv, ControlTypes
  <2> USE DEF panelVars, Settled
  <2>1. CASE Request(op) \/ Refuse(op) \/ PollGivesUp(op) \/ WriteRejected(op) \/ UndoConfig(op)
    BY <2>0, <2>1 DEF Request, Refuse, PollGivesUp, WriteRejected, UndoConfig, OpSettles
  <2>2. CASE TailRuns(op) \/ ServerReads(op) \/ SecretWritten(op) \/ SecretRejected(op)
             \/ SecretVerified(op) \/ SecretMissing(op) \/ UndoEnv(op) \/ InstallStarts(op)
    BY <2>0, <2>2 DEF TailRuns, ServerReads, SecretWritten, SecretRejected, SecretVerified,
                      SecretMissing, UndoEnv, InstallStarts, Goes
  <2>3. CASE ServerWrites(op) \/ InstallEnds(op) \/ PollVerified(op) \/ Reload(op)
    BY <2>0, <2>3 DEF ServerWrites, InstallEnds, PollVerified, Reload, Goes
  <2> QED BY <2>1, <2>2, <2>3
<1>2. env' \subseteq ConfigOps
  BY DEF ControlBounds, Request, TailRuns, Refuse, ServerReads, ServerWrites, WriteRejected,
         SecretWritten, SecretRejected, SecretVerified, SecretMissing, UndoEnv, UndoConfig,
         InstallStarts, InstallEnds, PollVerified, PollGivesUp, Reload
<1>3. written' \subseteq ConfigOps
  BY DEF ControlBounds, Request, TailRuns, Refuse, ServerReads, ServerWrites, WriteRejected,
         SecretWritten, SecretRejected, SecretVerified, SecretMissing, UndoEnv, UndoConfig,
         InstallStarts, InstallEnds, PollVerified, PollGivesUp, Reload
<1>4. disclosed' \subseteq ConfigOps \X {"secret", "entry"}
  BY DEF ControlBounds, Request, TailRuns, Refuse, ServerReads, ServerWrites, WriteRejected,
         SecretWritten, SecretRejected, SecretVerified, SecretMissing, UndoEnv, UndoConfig,
         InstallStarts, InstallEnds, PollVerified, PollGivesUp, Reload
<1>5. Fetched \subseteq Fetched'
  BY <1>1 DEF Fetched
<1>6. fetchSeq \in Nat
  BY DEF ControlInv, ControlTypes
<1>7. fetchSeq' <= MaxFetches + Cardinality(Fetched')
  BY <1>1, <1>5, <1>6, FetchedGrows DEF ControlBounds
<1> QED BY <1>2, <1>3, <1>4, <1>7 DEF ControlBounds

LEMMA FetchBounds ==
  ASSUME ControlInv, ControlBounds, NEW f \in Fetchers,
         FetchStarts(f) \/ FetchReads(f) \/ FetchEnds(f) \/ FetchFails(f)
  PROVE  ControlBounds'
<1>0. /\ opPc \in [ConfigOps -> OpPhases] /\ fetch \in [Fetchers -> Fetches] /\ fetchSeq \in Nat
      /\ ConfigOps \subseteq Fetchers
  BY DEF ControlInv, ControlTypes, Fetchers
<1>1. UNCHANGED <<env, written, disclosed>>
  BY DEF FetchStarts, FetchReads, FetchEnds, FetchFails, Pushes, opVars
<1>2. CASE FetchStarts(f)
  <2>1. /\ opPc' = opPc /\ fetchSeq' = fetchSeq + 1 /\ fetch[f] = NoFetch
        /\ f \in Viewers \/ opPc[f] \in {"push", "diverged"}
        /\ f \in Viewers => fetchSeq < MaxFetches
    BY <1>2 DEF FetchStarts, opVars
  <2>2. fetch'[f] # NoFetch /\ \A g \in Fetchers : g # f => fetch'[g] = fetch[g]
    BY <1>0, <1>2 DEF FetchStarts, NoFetch
  <2>3. Fetched \subseteq Fetched'
    BY <1>0, <2>1, <2>2 DEF Fetched
  <2>4. f \in ConfigOps /\ f \notin Viewers => f \in Fetched' /\ f \notin Fetched
    BY <1>0, <2>1, <2>2 DEF Fetched, Settled
  <2>5. f \in ConfigOps \/ f \in Viewers
    BY DEF Fetchers
  <2>6. fetchSeq' <= MaxFetches + Cardinality(Fetched')
    BY <1>0, <2>1, <2>3, <2>4, <2>5, FetchedGrows DEF ControlBounds
  <2> QED BY <1>1, <2>6 DEF ControlBounds
<1>3. CASE FetchReads(f)
  <2>1. opPc' = opPc /\ fetchSeq' = fetchSeq
    BY <1>3 DEF FetchReads, opVars
  <2>2. fetch'[f] # NoFetch /\ \A g \in Fetchers : g # f => fetch'[g] = fetch[g]
    BY <1>0, <1>3 DEF FetchReads, NoFetch
  <2>3. Fetched \subseteq Fetched'
    BY <1>0, <2>1, <2>2 DEF Fetched
  <2>4. fetchSeq' <= MaxFetches + Cardinality(Fetched')
    BY <1>0, <2>1, <2>3, FetchedGrows DEF ControlBounds
  <2> QED BY <1>1, <2>4 DEF ControlBounds
<1>4. CASE FetchEnds(f) \/ FetchFails(f)
  <2>1. /\ fetchSeq' = fetchSeq /\ \A g \in Fetchers : g # f => fetch'[g] = fetch[g]
        /\ Pushes(f, TRUE) \/ Pushes(f, FALSE)
    BY <1>0, <1>4 DEF FetchEnds, FetchFails
  <2>2. \A p \in ConfigOps : opPc[p] \in Settled => opPc'[p] \in Settled
    BY <1>0, <2>1 DEF Pushes, OpSettles, opVars, Settled
  <2>3. f \in ConfigOps => opPc'[f] \in Settled
    BY <1>0, <2>1 DEF Pushes, OpSettles, Settled
  <2>4. Fetched \subseteq Fetched'
    BY <1>0, <2>1, <2>2, <2>3 DEF Fetched
  <2>5. fetchSeq' <= MaxFetches + Cardinality(Fetched')
    BY <1>0, <2>1, <2>4, FetchedGrows DEF ControlBounds
  <2> QED BY <1>1, <2>5 DEF ControlBounds
<1> QED BY <1>2, <1>3, <1>4

LEMMA ControlBoundsKept == ControlInv /\ ControlBounds /\ [ControlOpsNext]_controlVars => ControlBounds'
<1> SUFFICES ASSUME ControlInv, ControlBounds, [ControlOpsNext]_controlVars PROVE ControlBounds'
  OBVIOUS
<1>1. CASE UNCHANGED controlVars
  BY <1>1 DEF controlVars, opVars, panelVars, ControlBounds, Fetched
<1> QED BY <1>1, OperationBounds, FetchBounds DEF ControlOpsNext

LEMMA ControlTyped == ControlInv /\ ControlBounds => ControlOpsTypeOK
<1> SUFFICES ASSUME ControlInv, ControlBounds PROVE ControlOpsTypeOK
  OBVIOUS
<1>1. ControlTypes
  BY DEF ControlInv
<1>2. \A f \in Fetchers : fetch[f].phase \in {"none", "started", "read"}
  BY <1>1 DEF ControlTypes, Fetches
<1>3. \A i \in DOMAIN writeTail : writeTail[i] \in ConfigOps
  BY <1>1 DEF ControlTypes
<1>4. fetchSeq \in 0 .. MaxFetches + Cardinality(ConfigOps)
  <2>1. Fetched \subseteq ConfigOps
    BY DEF Fetched
  <2>2. /\ Cardinality(Fetched) <= Cardinality(ConfigOps)
        /\ Cardinality(Fetched) \in Nat /\ Cardinality(ConfigOps) \in Nat
    BY <2>1, ControlOpsAssumption, FS_Subset, FS_CardinalityType
  <2>3. fetchSeq \in Nat /\ fetchSeq <= MaxFetches + Cardinality(Fetched)
    BY <1>1 DEF ControlTypes, ControlBounds
  <2> QED BY <2>2, <2>3, ControlOpsAssumption
<1> QED BY <1>1, <1>2, <1>3, <1>4 DEF ControlTypes, ControlBounds, ControlOpsTypeOK, OpPhases

-------------------------------------------------------------------------------
\* The switches of a panel.

\* A value the switch may hold is there once or not at all.
Optional == {Absent, {TRUE}, {FALSE}}
PanelBounds == mount <= MaxMounts /\ switch.override \in Optional /\ switch.confirmed \in Optional

LEMMA PanelBoundsStart == PanelSyncInit => PanelBounds
BY PanelSyncAssumption DEF PanelSyncInit, PanelBounds, Optional, FreshSwitch, Absent

LEMMA SettledOptional ==
  ASSUME NEW s \in Switches, s.override \in Optional, s.confirmed \in Optional,
         NEW t \in Toggles, t.want \in BOOLEAN
  PROVE  /\ Confirmed(s, t).override \in Optional /\ Confirmed(s, t).confirmed \in Optional
         /\ RolledBack(s, t).override \in Optional /\ RolledBack(s, t).confirmed \in Optional
<1>1. {t.want} \in Optional /\ Absent \in Optional
  BY DEF Optional
<1>2. ASSUME NEW u \in Switches, u.override \in Optional, u.confirmed \in Optional
      PROVE  Reconciled(u).override \in Optional /\ Reconciled(u).confirmed \in Optional
  <2>1. CASE u.latest = u.settled
    <3>1. Reconciled(u).override = Absent /\ Reconciled(u).confirmed = Absent
      BY <2>1 DEF Reconciled, Switches
    <3> QED BY <1>1, <3>1
  <2>2. CASE u.latest # u.settled
    BY <1>2, <2>2 DEF Reconciled
  <2> QED BY <2>1, <2>2
<1>3. Confirmed(s, t).override \in Optional /\ Confirmed(s, t).confirmed \in Optional
  <2> DEFINE u == [s EXCEPT !.confirmed = {t.want},
                            !.settled = IF s.latest = t.seq THEN t.seq ELSE @]
  <2>1. u \in Switches /\ u.override = s.override /\ u.confirmed = {t.want}
    BY DEF Switches, Toggles
  <2>2. Confirmed(s, t) = Reconciled(u)
    BY DEF Confirmed
  <2> HIDE DEF u
  <2> QED BY <1>1, <1>2, <2>1, <2>2
<1>4. RolledBack(s, t).override \in Optional /\ RolledBack(s, t).confirmed \in Optional
  <2> DEFINE u == [s EXCEPT !.override = s.confirmed, !.settled = t.seq, !.error = TRUE]
  <2>1. u \in Switches /\ u.override = s.confirmed /\ u.confirmed = s.confirmed
    BY DEF Switches, Toggles
  <2>2. RolledBack(s, t) = IF s.latest # t.seq THEN s ELSE Reconciled(u)
    BY DEF RolledBack
  <2> HIDE DEF u
  <2> QED BY <1>2, <2>1, <2>2
<1> QED BY <1>3, <1>4

LEMMA PanelBoundsKept ==
  PanelInv /\ PanelBounds /\ [PanelSyncNext]_panelSyncVars => PanelBounds'
<1> SUFFICES ASSUME PanelInv, PanelBounds, [PanelSyncNext]_panelSyncVars PROVE PanelBounds'
  OBVIOUS
<1>1. /\ switch \in Switches /\ jobs \in [Requests -> Jobs] /\ mount \in Nat /\ slot \in Slots
      /\ page \in 1 .. MaxPages /\ rpcSeq \in 0 .. MaxAsked[page] /\ pending \subseteq 1 .. rpcSeq
  BY DEF PanelInv, PanelTypes
<1>2. \A r \in Requests : jobs[r].toggle \in Toggles /\ jobs[r].toggle.want \in BOOLEAN
  BY <1>1 DEF Jobs, Toggles
<1>3. MaxMounts \in Nat
  BY PanelSyncAssumption
<1>4. FreshSwitch.override \in Optional /\ FreshSwitch.confirmed \in Optional
  BY DEF FreshSwitch, Optional
<1>5. ASSUME UNCHANGED <<mount, switch>> PROVE PanelBounds'
  BY <1>5 DEF PanelBounds
<1>6. ASSUME NEW id \in pending, NEW ok, NEW s, Settle(id, ok, s), UNCHANGED mount
      PROVE  PanelBounds'
  <2>1. <<page, id>> \in Requests
    <3>1. MaxAsked[page] \in Nat
      BY <1>1, PanelSyncAssumption
    <3>2. id \in 1 .. MaxAsked[page]
      BY <1>1, <3>1
    <3> QED BY <1>1, <3>2, RequestsArePairs
  <2>2. PICK t \in Toggles : t = jobs[<<page, id>>].toggle /\ t.want \in BOOLEAN
    BY <1>2, <2>1
  <2>3. switch' \in {switch, Confirmed(switch, t), RolledBack(switch, t)}
    BY <1>6, <2>2 DEF Settle
  <2>4. /\ Confirmed(switch, t).override \in Optional /\ Confirmed(switch, t).confirmed \in Optional
        /\ RolledBack(switch, t).override \in Optional /\ RolledBack(switch, t).confirmed \in Optional
    BY <1>1, <2>2, SettledOptional DEF PanelBounds
  <2> QED BY <1>6, <2>3, <2>4 DEF PanelBounds
<1>7. ASSUME NEW r \in Requests, NEW ok, NEW s, Responds(r, ok, s)
      PROVE  PanelBounds'
  BY <1>5, <1>6, <1>7 DEF Responds
<1>8. CASE UNCHANGED panelSyncVars
  BY <1>5, <1>8 DEF panelSyncVars, pageVars
<1>9. CASE RequestPanel \/ PerformToggle
  BY <1>5, <1>9 DEF RequestPanel, PerformToggle
<1>10. CASE ReopenPanel
  BY <1>1, <1>3, <1>4, <1>10 DEF ReopenPanel, PanelBounds
<1>11. CASE ReloadPage
  BY <1>1, <1>3, <1>4, <1>11 DEF ReloadPage, PanelBounds
<1>12. CASE ClickSwitch
  <2>1. PICK want \in BOOLEAN :
          switch' = [switch EXCEPT !.override = {want}, !.latest = switch.latest + 1, !.error = FALSE]
    <3>1. (~ ShownOn) \in BOOLEAN
      BY <1>1 DEF ShownOn, Slots
    <3> QED BY <1>12, <3>1 DEF ClickSwitch
  <2>2. switch'.override = {want} /\ switch'.confirmed = switch.confirmed
    BY <1>1, <2>1 DEF Switches
  <2>3. {want} \in Optional
    BY DEF Optional
  <2>4. mount' = mount
    BY <1>12 DEF ClickSwitch
  <2> QED BY <2>2, <2>3, <2>4 DEF PanelBounds
<1>13. CASE RequestTimesOut
  BY <1>6, <1>13 DEF RequestTimesOut
<1>14. ASSUME NEW r \in Requests, Arrives(r) \/ TogglePersists(r) \/ SourceReads(r)
       PROVE  PanelBounds'
  BY <1>5, <1>14 DEF Arrives, TogglePersists, SourceReads, pageVars
<1>15. ASSUME NEW r \in Requests, ToggleRejected(r) \/ PanelFetched(r) \/ PanelFetchFails(r)
       PROVE  PanelBounds'
  BY <1>7, <1>15 DEF ToggleRejected, PanelFetched, PanelFetchFails
<1> QED
  BY <1>8, <1>9, <1>10, <1>11, <1>12, <1>13, <1>14, <1>15 DEF PanelSyncNext

LEMMA PanelTyped == PanelInv /\ PanelBounds => PanelSyncTypeOK
<1> SUFFICES ASSUME PanelInv, PanelBounds PROVE PanelSyncTypeOK
  OBVIOUS
<1>1. /\ PanelTypes /\ switch.settled <= switch.latest
      /\ \A i \in 1 .. Len(configTail) : jobs[configTail[i]].phase = "tail"
  BY DEF PanelInv, WishKept, TailHolds
<1>2. \A r \in Requests : jobs[r].phase \in {"none", "sent", "tail", "fetching", "read"}
  BY <1>1 DEF PanelTypes, Jobs
<1>3. mount \in 1 .. MaxMounts /\ slot.status \in {"idle", "loading", "success", "error"}
  BY <1>1, PanelSyncAssumption DEF PanelTypes, PanelBounds, Slots
<1>4. DOMAIN jobs = Requests /\ DOMAIN configTail = 1 .. Len(configTail)
  BY <1>1 DEF PanelTypes
<1> QED BY <1>1, <1>2, <1>3, <1>4 DEF PanelTypes, PanelBounds, Optional, PanelSyncTypeOK

-------------------------------------------------------------------------------
\* The picks of a model.

\* The picks are made and arrive in their order, so that a controller has numbered no
\* more of them than have arrived.
PicksInOrder ==
  /\ \A i \in Picks : pick[i].phase = "none" => pick[i] = NoPick
  /\ \A i, j \in Picks : j < i /\ pick[i].phase # "none" => pick[j].phase # "none"
  /\ \A i \in Picks : pick[i].phase \in {"none", "sent"} => modelSwitchSeq < i
  /\ modelSwitchSeq <= MaxPicks

ModelBounds == PicksInOrder /\ controller <= MaxControllers /\ shownModel \in Models \cup {NoModel}

LEMMA ModelBoundsStart == ModelInit => ModelBounds
<1> SUFFICES ASSUME ModelInit PROVE ModelBounds
  OBVIOUS
<1>1. \A i \in Picks : pick[i] = NoPick /\ pick[i].phase = "none"
  BY DEF ModelInit, NoPick
<1>2. modelSwitchSeq = 0 /\ controller = 1 /\ shownModel \in Models
  BY ModelSwitchAssumption DEF ModelInit
<1>3. \A i \in Picks : 0 < i
  BY DEF Picks
<1> QED BY <1>1, <1>2, <1>3, ModelSwitchAssumption DEF ModelBounds, PicksInOrder

\* A step that moves on one pick that was made.
LEMMA PickMoves ==
  ASSUME ModelTypes, PicksInOrder, NEW i \in Picks,
         pick[i].phase # "none", pick'[i].phase \notin {"none", "sent"},
         \A j \in Picks : j # i => pick'[j] = pick[j],
         modelSwitchSeq' = modelSwitchSeq
  PROVE  PicksInOrder'
<1>1. ASSUME NEW j \in Picks
      PROVE  /\ pick'[j].phase = "none" => pick'[j] = NoPick /\ pick[j].phase = "none"
             /\ pick'[j].phase \in {"none", "sent"} => modelSwitchSeq < j
             /\ pick[j].phase # "none" => pick'[j].phase # "none"
             /\ pick'[j].phase # "none" => pick[j].phase # "none"
  <2>1. CASE j = i
    BY <2>1
  <2>2. CASE j # i
    BY <2>2 DEF PicksInOrder
  <2> QED BY <2>1, <2>2
<1> QED BY <1>1 DEF PicksInOrder

LEMMA ModelBoundsKept ==
  ASSUME ModelInv, ModelBounds, [ModelNext]_modelVars
  PROVE  ModelBounds'
<1> USE ModelSwitchAssumption
<1>1. /\ pick \in [Picks -> PickRecords] /\ modelSwitchSeq \in Nat /\ controller \in Nat
      /\ currentModelId \in Models /\ agentModel \in Models /\ ModelTypes
  BY DEF ModelInv, ModelTypes
<1>2. \A i \in Picks : i \in Nat /\ i <= MaxPicks
  BY DEF Picks
<1>3. ASSUME pick' = pick, modelSwitchSeq' = modelSwitchSeq
      PROVE  PicksInOrder'
  BY <1>3 DEF ModelBounds, PicksInOrder
<1>4. CASE UNCHANGED modelVars
  BY <1>3, <1>4 DEF modelVars, ModelBounds
<1>5. CASE ClientGone \/ ControllerDisposed
  BY <1>3, <1>5 DEF ClientGone, ControllerDisposed, ModelBounds
<1>6. CASE TabHydrated
  BY <1>1, <1>3, <1>6 DEF TabHydrated, believed, ModelBounds
<1>7. CASE SessionRecovered
  <2>1. /\ pick' = pick /\ modelSwitchSeq' = 0 /\ controller' <= MaxControllers
        /\ shownModel' \in Models
    BY <1>1, <1>7 DEF SessionRecovered
  <2>2. \A i \in Picks : 0 < i
    BY DEF Picks
  <2> QED BY <2>1, <2>2 DEF ModelBounds, PicksInOrder
<1>8. CASE PickModel
  <2>1. PICK i \in Picks, m \in Models :
          /\ pick[i] = NoPick /\ \A j \in 1 .. i - 1 : pick[j] # NoPick
          /\ pick' = [pick EXCEPT ![i].phase = "sent", ![i].model = m]
          /\ shownModel' = m /\ modelSwitchSeq' = modelSwitchSeq /\ controller' = controller
    BY <1>8 DEF PickModel, believed
  <2>2. pick[i].phase = "none"
    BY <2>1 DEF NoPick
  <2>3. pick'[i].phase = "sent" /\ \A j \in Picks : j # i => pick'[j] = pick[j]
    BY <1>1, <2>1 DEF PickRecords
  <2>4. ASSUME NEW j \in Picks, j < i PROVE pick[j].phase # "none"
    <3>1. j \in 1 .. i - 1
      BY <2>4 DEF Picks
    <3> QED BY <2>1, <3>1 DEF ModelBounds, PicksInOrder
  <2>5. ASSUME NEW j \in Picks
        PROVE  /\ pick'[j].phase = "none" => pick'[j] = NoPick
               /\ pick'[j].phase \in {"none", "sent"} => modelSwitchSeq < j
    BY <2>2, <2>3 DEF ModelBounds, PicksInOrder
  <2>6. ASSUME NEW j \in Picks, NEW k \in Picks, k < j, pick'[j].phase # "none"
        PROVE  pick'[k].phase # "none"
    <3>1. CASE k = i
      BY <2>3, <3>1
    <3>2. CASE k # i /\ j = i
      BY <2>3, <2>4, <2>6, <3>2
    <3>3. CASE k # i /\ j # i
      BY <2>3, <2>6, <3>3 DEF ModelBounds, PicksInOrder
    <3> QED BY <3>1, <3>2, <3>3
  <2>7. PicksInOrder'
    BY <2>1, <2>5, <2>6 DEF ModelBounds, PicksInOrder
  <2> QED BY <2>1, <2>7 DEF ModelBounds
<1>9. ASSUME NEW i \in Picks, PickArrives(i)
      PROVE  ModelBounds'
  <2>1. controller' = controller /\ shownModel' \in Models \cup {NoModel}
    BY <1>1, <1>9 DEF PickArrives, ModelBounds
  <2>2. /\ pick[i].phase = "sent" /\ \A j \in 1 .. i - 1 : pick[j].phase # "sent"
        /\ \A j \in Picks : j # i => pick'[j] = pick[j]
    BY <1>1, <1>9 DEF PickArrives
  <2>3. pick'[i].phase \notin {"none", "sent"}
    BY <1>1, <1>9 DEF PickArrives, PickRecords
  <2>4. CASE detached
    BY <1>1, <1>9, <2>1, <2>2, <2>3, <2>4, PickMoves DEF PickArrives, ModelBounds
  <2>5. CASE ~ detached
    <3>1. modelSwitchSeq' = modelSwitchSeq + 1 /\ modelSwitchSeq < i
      BY <1>9, <2>2, <2>5 DEF PickArrives, ModelBounds, PicksInOrder
    <3>2. ASSUME NEW j \in Picks, pick'[j].phase \in {"none", "sent"}
          PROVE  i < j
      <4>1. j # i /\ pick[j].phase \in {"none", "sent"}
        BY <2>2, <2>3, <3>2
      <4>2. ~ j < i
        <5> SUFFICES ASSUME j < i PROVE FALSE
          OBVIOUS
        <5>1. j \in 1 .. i - 1
          BY DEF Picks
        <5>2. pick[j].phase # "none"
          BY <2>2 DEF ModelBounds, PicksInOrder
        <5> QED BY <2>2, <4>1, <5>1, <5>2
      <4> QED BY <1>2, <4>1, <4>2
    <3>3. ASSUME NEW j \in Picks
          PROVE  /\ pick'[j].phase = "none" => pick'[j] = NoPick
                 /\ pick[j].phase # "none" <=> pick'[j].phase # "none"
      <4>1. CASE j = i
        BY <2>2, <2>3, <4>1
      <4>2. CASE j # i
        BY <2>2, <4>2 DEF ModelBounds, PicksInOrder
      <4> QED BY <4>1, <4>2
    <3>4. \A j \in Picks : pick'[j].phase \in {"none", "sent"} => modelSwitchSeq' < j
      BY <1>1, <1>2, <3>1, <3>2
    <3>5. modelSwitchSeq' <= MaxPicks
      BY <1>1, <1>2, <3>1
    <3>6. \A j, k \in Picks : k < j /\ pick'[j].phase # "none" => pick'[k].phase # "none"
      BY <3>3 DEF ModelBounds, PicksInOrder
    <3> QED BY <2>1, <3>3, <3>4, <3>5, <3>6 DEF ModelBounds, PicksInOrder
  <2> QED BY <2>4, <2>5
<1>10. ASSUME NEW i \in Picks,
              AgentTakes(i) \/ AgentRefuses(i) \/ PickResolves(i) \/ PickRejected(i)
       PROVE  ModelBounds'
  <2>1. /\ pick[i].phase # "none" /\ pick'[i].phase \notin {"none", "sent"}
        /\ \A j \in Picks : j # i => pick'[j] = pick[j]
        /\ modelSwitchSeq' = modelSwitchSeq /\ controller' = controller
    <3>1. pick[i] \in PickRecords
      BY <1>1
    <3>2. CASE AgentTakes(i)
      BY <1>1, <3>1, <3>2 DEF AgentTakes, believed, PickRecords
    <3>3. CASE AgentRefuses(i)
      BY <1>1, <3>1, <3>3 DEF AgentRefuses, believed, PickRecords
    <3>4. CASE PickResolves(i)
      BY <1>1, <3>1, <3>4 DEF PickResolves, PickRecords
    <3>5. CASE PickRejected(i)
      BY <1>1, <3>1, <3>5 DEF PickRejected, CallRejected, believed, PickRecords
    <3> QED BY <1>10, <3>2, <3>3, <3>4, <3>5
  <2>2. pick[i].previous \in Models \cup {NoModel}
    BY <1>1 DEF PickRecords
  <2>3. pick[i].phase = "applied" => pick[i].model \in Models
    BY DEF ModelInv, PicksNumbered, UnderWay
  <2>4. shownModel' \in Models \cup {NoModel}
    BY <1>10, <2>2, <2>3
       DEF AgentTakes, AgentRefuses, PickResolves, PickRejected, believed, ModelBounds
  <2>5. PicksInOrder'
    BY <1>1, <2>1, PickMoves DEF ModelBounds
  <2> QED BY <2>1, <2>4, <2>5 DEF ModelBounds
<1> QED
  BY <1>4, <1>5, <1>6, <1>7, <1>8, <1>9, <1>10 DEF ModelNext

LEMMA ModelTyped == ModelInv /\ ModelBounds => ModelTypeOK
<1> SUFFICES ASSUME ModelInv, ModelBounds PROVE ModelTypeOK
  OBVIOUS
<1>1. /\ pick \in [Picks -> PickRecords] /\ modelSwitchSeq \in Nat /\ controller \in Nat \ {0}
      /\ currentModelId \in Models /\ agentModel \in Models /\ agentBy \in {0} \cup Picks
      /\ {detached, childUp} \subseteq BOOLEAN
  BY DEF ModelInv, ModelTypes
<1>2. \A i \in Picks : pick[i].phase \in
       {"none", "sent", "asked", "applied", "refused", "settled", "overtaken"}
  BY <1>1 DEF PickRecords, UnderWay
<1>3. modelSwitchSeq \in 0 .. MaxPicks /\ controller \in 1 .. MaxControllers
      /\ agentBy \in 0 .. MaxPicks
  BY <1>1, ModelSwitchAssumption DEF ModelBounds, PicksInOrder, Picks
<1> QED BY <1>1, <1>2, <1>3 DEF ModelTypeOK, ModelBounds

-------------------------------------------------------------------------------
\* The loads of the page, and the index.

LEMMA ReloadBoundsKept ==
  ASSUME loads \in 1 .. MaxLoads, outages \in 0 .. MaxOutages, [ViewReloadNext]_viewReloadVars
  PROVE  loads' \in 1 .. MaxLoads /\ outages' \in 0 .. MaxOutages
<1>1. MaxLoads \in Nat /\ MaxOutages \in Nat
  BY ViewReloadAssumption
<1>2. CASE UNCHANGED viewReloadVars
  BY <1>2 DEF viewReloadVars, reloadPageVars, reloadHostVars
<1>3. CASE OpenTab
  BY <1>3 DEF OpenTab, reloadHostVars
<1>4. CASE CloseTab
  BY <1>4 DEF CloseTab, reloadHostVars
<1>5. CASE TypeDraft
  BY <1>5 DEF TypeDraft, reloadHostVars
<1>6. CASE SendDraft
  BY <1>6 DEF SendDraft, reloadHostVars
<1>7. CASE LosePage
  BY <1>1, <1>7 DEF LosePage, reloadHostVars
<1>8. CASE PageMounts
  BY <1>8 DEF PageMounts, reloadHostVars
<1>9. CASE HandleMessage
  BY <1>9 DEF HandleMessage, HandleReady, HandleOpen, HandleClose, HandlePrompt, reloadHostVars,
              reloadPageVars
<1>10. CASE AgentDies
  BY <1>1, <1>10 DEF AgentDies
<1>11. ASSUME NEW s \in TabIds, OpenSettles(s) \/ TurnFinishes(s) \/ CloseRuns(s)
              \/ RecoveryBegins(s) \/ RecoveryEnds(s)
       PROVE  UNCHANGED <<loads, outages>>
  BY <1>11 DEF OpenSettles, TurnFinishes, CloseRuns, RecoveryBegins, RecoveryEnds, reloadPageVars
<1> QED
  BY <1>2, <1>3, <1>4, <1>5, <1>6, <1>7, <1>8, <1>9, <1>10, <1>11 DEF ViewReloadNext

LEMMA ReloadTyped ==
  ReloadInv /\ loads \in 1 .. MaxLoads /\ outages \in 0 .. MaxOutages => ViewReloadTypeOK
<1> SUFFICES ASSUME ReloadInv, loads \in 1 .. MaxLoads, outages \in 0 .. MaxOutages
             PROVE  ViewReloadTypeOK
  OBVIOUS
<1> USE DEF ReloadInv
<1>1. \A t \in TabIds : strip[t] \in TabRecords
  BY DEF ReloadTypes
<1>2. ASSUME NEW t \in TabIds
      PROVE  /\ strip[t].binding \in {"absent", "unbound", "pending", "bound"}
             /\ strip[t].sid \in TabIds \cup {NoSid} /\ strip[t].turn \in BOOLEAN
             /\ strip[t].draft \in {"none", "typed", "sent"}
  BY <1>1 DEF TabRecords
<1>3. liveTurns \subseteq {s \in TabIds : hosted[s] = "live"}
  BY DEF ReloadTypes, NumbersMinted
<1> QED BY <1>2, <1>3 DEF ReloadTypes, ViewReloadTypeOK

LEMMA IndexTyped == IxInv => IndexTypeOK
<1> SUFFICES ASSUME IxTypes PROVE IndexTypeOK
  BY DEF IxInv
<1>1. \A p \in IxPaths : rows[p] \subseteq Versions \X (1 .. Parts)
  BY DEF IxTypes
<1>2. \A i \in DOMAIN timers : timers[i] \in IxEvents
  BY DEF IxTypes
<1>3. \A i \in DOMAIN chain : chain[i] \in IxEvents
  BY DEF IxTypes
<1>4. job.phase \in {"none", "purge", "read", "embed", "upsert", "write"}
  BY DEF IxTypes, IxJobs, NoJob
<1> QED BY <1>1, <1>2, <1>3, <1>4 DEF IxTypes, IxEvents, IndexTypeOK

-------------------------------------------------------------------------------
\* The types of each component along the behaviours of Spec.

LEMMA LockSteps == Next => [LockNext]_lockVars
<1> SUFFICES ASSUME Next, ~ UNCHANGED lockVars PROVE LockNext
  OBVIOUS
<1> QED BY DEF Next, Only

LEMMA PolicySteps == Next => [EditPolicyNext]_editPolicyVars
<1> SUFFICES ASSUME Next, ~ UNCHANGED editPolicyVars PROVE EditPolicyNext
  OBVIOUS
<1> QED BY DEF Next, Only

LEMMA LockStep == LockInv /\ [LockNext]_lockVars => LockInv'
BY LockTypeStep, TokenStep, StealStep, FileStep DEF LockInv

LEMMA LockTypesHold == Spec => []LockTypeOK
<1>1. Init => LockInv
  BY LockStart DEF Init
<1>2. LockInv /\ [Next]_vars => LockInv'
  <2>1. UNCHANGED vars => UNCHANGED lockVars
    BY DEF vars
  <2> QED BY <2>1, LockSteps, LockStep
<1>3. LockInv => LockTypeOK
  BY DEF LockInv
<1> QED BY <1>1, <1>2, <1>3, PTL DEF Spec

LEMMA ChannelTypesHold == Spec => []ChannelTypeOK
<1>1. Init => ChannelInv
  BY ChannelStarts DEF Init
<1>2. ChannelInv /\ [Next]_vars => ChannelInv'
  <2>1. UNCHANGED vars => UNCHANGED channelVars
    BY DEF vars
  <2> QED BY <2>1, ChannelSteps, ChannelStep
<1>3. ChannelInv => ChannelTypeOK
  BY DEF ChannelInv
<1> QED BY <1>1, <1>2, <1>3, PTL DEF Spec

LEMMA DashboardTypesHold == Spec => []DashboardTypeOK
<1>1. Init => DashboardInv
  BY DashboardStarts DEF Init
<1>2. DashboardInv /\ [Next]_vars => DashboardInv'
  <2>1. UNCHANGED vars => UNCHANGED dashVars
    BY DEF vars
  <2> QED BY <2>1, DashboardSteps, DashboardStep
<1>3. DashboardInv => DashboardTypeOK
  BY DEF DashboardInv
<1> QED BY <1>1, <1>2, <1>3, PTL DEF Spec

LEMMA SetupTypesHold == Spec => []SetupTypeOK
<1>1. Init => SetupInv
  BY SetupStarts DEF Init
<1>2. SetupInv /\ [Next]_vars => SetupInv'
  <2>1. UNCHANGED vars => UNCHANGED setupVars
    BY DEF vars
  <2> QED BY <2>1, SetupSteps, SetupStep
<1>3. SetupInv => SetupTypeOK
  BY DEF SetupInv
<1> QED BY <1>1, <1>2, <1>3, PTL DEF Spec

LEMMA ProvisionTypesHold == Spec => []ProvisionTypeOK
<1>1. Init => ProvisionInv
  BY ProvisionStarts DEF Init
<1>2. ProvisionInv /\ [Next]_vars => ProvisionInv'
  <2>1. UNCHANGED vars => UNCHANGED provisionVars
    BY DEF vars
  <2> QED BY <2>1, ProvisionSteps, ProvisionStep
<1>3. ProvisionInv => ProvisionTypeOK
  BY DEF ProvisionInv
<1> QED BY <1>1, <1>2, <1>3, PTL DEF Spec

LEMMA PolicyTypesHold == Spec => []EditPolicyTypeOK
<1>1. Init => PolicyInv
  BY PolicyInit DEF Init
<1>2. PolicyInv /\ [Next]_vars => PolicyInv'
  <2>1. UNCHANGED vars => UNCHANGED editPolicyVars
    BY DEF vars
  <2> QED BY <2>1, PolicySteps, PolicyStep
<1>3. PolicyInv => EditPolicyTypeOK
  BY DEF PolicyInv
<1> QED BY <1>1, <1>2, <1>3, PTL DEF Spec

LEMMA LspHostTypesHold == Spec => []LspHostTypeOK
<1>1. Init => LspHostInv
  BY LspHostStarts DEF Init
<1>2. LspHostInv /\ [Next]_vars => LspHostInv'
  <2>1. UNCHANGED vars => UNCHANGED lspHostVars
    BY DEF vars
  <2> QED BY <2>1, LspHostSteps, LspHostStep
<1>3. LspHostInv => LspHostTypeOK
  BY DEF LspHostInv
<1> QED BY <1>1, <1>2, <1>3, PTL DEF Spec

LEMMA LspToolsTypesHold == Spec => []LspToolsTypeOK
<1>1. Init => LspToolsInv
  BY LspToolsStarts DEF Init
<1>2. LspToolsInv /\ [Next]_vars => LspToolsInv'
  <2>1. UNCHANGED vars => UNCHANGED lspToolsVars
    BY DEF vars
  <2> QED BY <2>1, LspToolsSteps, LspToolsStep
<1>3. LspToolsInv => LspToolsTypeOK
  BY DEF LspToolsInv
<1> QED BY <1>1, <1>2, <1>3, PTL DEF Spec

LEMMA KeyTypesHold == Spec => []ApiKeyTypeOK
<1>1. Init => ApiKeyTypeOK
  BY KeyTypeStart DEF Init
<1>2. ApiKeyTypeOK /\ [Next]_vars => ApiKeyTypeOK'
  <2>1. UNCHANGED vars => UNCHANGED keyVars
    BY DEF vars
  <2> QED BY <2>1, ApiKeySteps, KeyTypeKept
<1> QED BY <1>1, <1>2, PTL DEF Spec

LEMMA IndexTypesHold == Spec => []IndexTypeOK
<1>1. Init => IxInv
  BY IxStarts DEF Init
<1>2. IxInv /\ [Next]_vars => IxInv'
  <2>1. UNCHANGED vars => UNCHANGED ixVars
    BY DEF vars
  <2> QED BY <2>1, IndexSteps, IxStep
<1> QED BY <1>1, <1>2, IndexTyped, PTL DEF Spec

LEMMA TranscriptTypesHold == Spec => []TranscriptTypeOK
<1>1. Init => TranscriptInv
  BY TranscriptInitInv DEF Init
<1>2. TranscriptInv /\ [Next]_vars => TranscriptInv'
  <2>1. UNCHANGED vars => UNCHANGED transcriptVars
    BY DEF vars
  <2> QED BY <2>1, TranscriptSteps, TranscriptKeeps
<1> QED BY <1>1, <1>2, TranscriptInvTyped, PTL DEF Spec

LEMMA RegistryTypesHold == Spec => []RegistryTypeOK
<1>1. Init => RegistryInv /\ RegistryTypes
  BY RegistryStarts, RegistryTypesStart DEF Init
<1>2. RegistryInv /\ RegistryTypes /\ [Next]_vars => RegistryInv' /\ RegistryTypes'
  <2>1. UNCHANGED vars => UNCHANGED registryVars
    BY DEF vars
  <2> QED BY <2>1, RegistrySteps, RegistryStep, RegistryTypesKept
<1>3. RegistryInv /\ RegistryTypes => RegistryTypeOK
  BY RegistryTyped
<1> QED BY <1>1, <1>2, <1>3, PTL DEF Spec

LEMMA ControlTypesHold == Spec => []ControlOpsTypeOK
<1>1. Init => ControlInv /\ ControlBounds
  BY ControlStarts, ControlBoundsStart DEF Init
<1>2. ControlInv /\ ControlBounds /\ [Next]_vars => ControlInv' /\ ControlBounds'
  <2>1. UNCHANGED vars => UNCHANGED controlVars
    BY DEF vars
  <2> QED BY <2>1, ControlSteps, ControlStep, ControlBoundsKept
<1>3. ControlInv /\ ControlBounds => ControlOpsTypeOK
  BY ControlTyped
<1> QED BY <1>1, <1>2, <1>3, PTL DEF Spec

LEMMA PanelTypesHold == Spec => []PanelSyncTypeOK
<1>1. Init => PanelInv /\ PanelBounds
  BY PanelStarts, PanelBoundsStart DEF Init
<1>2. PanelInv /\ PanelBounds /\ [Next]_vars => PanelInv' /\ PanelBounds'
  <2>1. UNCHANGED vars => UNCHANGED panelSyncVars
    BY DEF vars
  <2> QED BY <2>1, PanelSyncSteps, PanelStep, PanelBoundsKept
<1>3. PanelInv /\ PanelBounds => PanelSyncTypeOK
  BY PanelTyped
<1> QED BY <1>1, <1>2, <1>3, PTL DEF Spec

LEMMA ModelTypesHold == Spec => []ModelTypeOK
<1>1. Init => ModelInv /\ ModelBounds
  BY ModelStarts, ModelBoundsStart DEF Init
<1>2. ModelInv /\ ModelBounds /\ [Next]_vars => ModelInv' /\ ModelBounds'
  <2>1. UNCHANGED vars => UNCHANGED modelVars
    BY DEF vars
  <2> QED BY <2>1, ModelSteps, ModelStep, ModelBoundsKept
<1>3. ModelInv /\ ModelBounds => ModelTypeOK
  BY ModelTyped
<1> QED BY <1>1, <1>2, <1>3, PTL DEF Spec

LEMMA CompletionTypesHold == Spec => []CompletionTypeOK
<1>1. Init => CompletionInv /\ CompletionBounds
  BY CompletionStarts, CompletionBoundsStart DEF Init
<1>2. CompletionInv /\ CompletionBounds /\ [Next]_vars => CompletionInv' /\ CompletionBounds'
  <2>1. UNCHANGED vars => UNCHANGED completionVars
    BY DEF vars
  <2> QED BY <2>1, CompletionSteps, CompletionStep, CompletionBoundsKept
<1>3. CompletionInv /\ CompletionBounds => CompletionTypeOK
  BY CompletionTyped
<1> QED BY <1>1, <1>2, <1>3, PTL DEF Spec

LEMMA NextEditTypesHold == Spec => []NextEditTypeOK
<1>1. Init => NextEditInv /\ LineBounds
  BY NextEditStarts, LineBoundsStart DEF Init
<1>2. NextEditInv /\ LineBounds /\ [Next]_vars => NextEditInv' /\ LineBounds'
  <2>1. UNCHANGED vars => UNCHANGED nextEditVars
    BY DEF vars
  <2> QED BY <2>1, NextEditSteps, NextEditStep, LineBoundsKept
<1>3. NextEditInv /\ LineBounds => NextEditTypeOK
  BY NextEditTyped
<1> QED BY <1>1, <1>2, <1>3, PTL DEF Spec

LEMMA OneShotTypesHold == Spec => []OneShotTypeOK
<1>1. Init => OneShotInv /\ ShotBounds
  BY OneShotStart, ShotBoundsStart DEF Init
<1>2. OneShotInv /\ ShotBounds /\ [Next]_vars => OneShotInv' /\ ShotBounds'
  <2>1. UNCHANGED vars => UNCHANGED oneShotVars
    BY DEF vars
  <2>2. OneShotInv => OneShotTypes
    BY DEF OneShotInv
  <2>3. OneShotInv' => OneShotTypes'
    BY DEF OneShotInv
  <2> QED BY <2>1, <2>2, <2>3, OneShotSteps, OneShotStep, ShotBoundsKept
<1> QED BY <1>1, <1>2, OneShotTyped, PTL DEF Spec

LEMMA ReloadTypesHold == Spec => []ViewReloadTypeOK
<1> DEFINE LoadBounds == loads \in 1 .. MaxLoads /\ outages \in 0 .. MaxOutages
<1>1. Init => ReloadInv /\ LoadBounds
  BY ReloadStarts, ViewReloadAssumption DEF Init, ViewReloadInit
<1>2. ReloadInv /\ LoadBounds /\ [Next]_vars => ReloadInv' /\ LoadBounds'
  <2>1. UNCHANGED vars => UNCHANGED viewReloadVars
    BY DEF vars
  <2> QED BY <2>1, ViewReloadSteps, ReloadStep, ReloadBoundsKept
<1>3. ReloadInv /\ LoadBounds => ViewReloadTypeOK
  BY ReloadTyped
<1> QED BY <1>1, <1>2, <1>3, PTL DEF Spec

OneRuns ==
  running \in {"lock", "registry", "channel", "control", "index", "dashboard", "nextEdit",
              "setup", "provision", "completion", "apiKey", "oneShot", "transcript",
              "policy", "lspHost", "lspTools", "panel", "model", "reload"}

\* Every component keeps its types, whichever of them takes the steps: what its
\* operations store is of the kind its record declares, its counters stay within
\* the bounds, and no request, call or cache outgrows its limit.
THEOREM ServicesTypeCorrect == Spec => []ServicesTypeOK
<1>1. Init => OneRuns
  BY DEF Init, OneRuns
<1>2. OneRuns /\ [Next]_vars => OneRuns'
  <2>1. Next => running' = running
    BY DEF Next, Only
  <2>2. UNCHANGED vars => running' = running
    BY DEF vars
  <2> QED BY <2>1, <2>2 DEF OneRuns
<1>3. Spec => []OneRuns
  BY <1>1, <1>2, PTL DEF Spec
<1>4. /\ OneRuns
      /\ LockTypeOK
      /\ RegistryTypeOK
      /\ ChannelTypeOK
      /\ ControlOpsTypeOK
      /\ IndexTypeOK
      /\ DashboardTypeOK
      /\ NextEditTypeOK
      /\ SetupTypeOK
      /\ ProvisionTypeOK
      /\ CompletionTypeOK
      /\ ApiKeyTypeOK
      /\ OneShotTypeOK
      /\ TranscriptTypeOK
      /\ EditPolicyTypeOK
      /\ LspHostTypeOK
      /\ LspToolsTypeOK
      /\ PanelSyncTypeOK
      /\ ModelTypeOK
      /\ ViewReloadTypeOK
      => ServicesTypeOK
  BY DEF ServicesTypeOK, OneRuns
<1> QED
  BY <1>3, <1>4,
     LockTypesHold, RegistryTypesHold, ChannelTypesHold, ControlTypesHold, IndexTypesHold,
     DashboardTypesHold, NextEditTypesHold, SetupTypesHold, ProvisionTypesHold,
     CompletionTypesHold, KeyTypesHold, OneShotTypesHold, TranscriptTypesHold,
     PolicyTypesHold, LspHostTypesHold, LspToolsTypesHold, PanelTypesHold, ModelTypesHold,
     ReloadTypesHold, PTL
================================================================================

------------------------------- MODULE NextEdit -------------------------------
(***************************************************************************)
(* autocomplete/nextedit: the next-edit proposal on one document.  The     *)
(* shell (shell.vscode.ts, nextEditShellWiring.ts) turns edits, keys and   *)
(* the activity of the inline completion (FIM) into events, reduceNextEdit *)
(* (fsm.ts) into effects, and the executor puts those on the screen.       *)
(*                                                                         *)
(* A document is a sequence of lines; a line is its original number, or 0  *)
(* once it was edited.  VS Code gives every change of the document to the  *)
(* listener as it happens, so trackedVersion is document.version and the   *)
(* branch for a skipped version is left out, as are the prompts, the scans *)
(* and the notes.                                                          *)
(***************************************************************************)
EXTENDS Naturals, Sequences, SequencesExt

CONSTANTS MaxLines,  \* bound: lines of the document
          Window,    \* lines of context around the cursor in a region
          MaxFim     \* bound: FIM requests in flight

ASSUME NextEditAssumption == /\ MaxLines \in Nat \ {0} /\ Window \in Nat
                             /\ MaxFim \in Nat \ {0}

VARIABLES text,       \* the document
          focused,    \* its editor is the active one
          sourceOn,   \* the Guard's mode is next or generic
          fimFlight,  \* fim.inFlightCount
          ghost,      \* fim.visible
          armed,      \* the debounce of armTrigger runs
          predicting, \* the prediction in flight
          proposal,   \* the state of the FSM and its proposal
          jumpVisible, jumpedKey,  \* the two context keys
          painted,    \* the decorations are on the screen
          applying,   \* the WorkspaceEdit that VS Code has not answered
          shellGone   \* disposed

nextEditVars == <<text, focused, sourceOn, fimFlight, ghost, armed, predicting, proposal,
                  jumpVisible, jumpedKey, painted, applying, shellGone>>

Lines == 1 .. MaxLines
NoRegion == [from |-> 0, to |-> 0, base |-> <<>>, cursor |-> 0]
Regions == [from : Nat, to : Nat, base : Seq(Nat), cursor : Nat]

NextEditTypeOK ==
  /\ text \in Seq(0 .. MaxLines) /\ Len(text) \in Lines
  /\ focused \in BOOLEAN /\ sourceOn \in BOOLEAN /\ ghost \in BOOLEAN
  /\ armed \in BOOLEAN /\ shellGone \in BOOLEAN /\ fimFlight \in 0 .. MaxFim
  /\ predicting \in [state : {"none", "fresh", "moved"}, region : Regions]
  /\ proposal \in [kind : {"idle", "proposed", "jumped"}, region : Regions]
  /\ jumpVisible \in BOOLEAN /\ jumpedKey \in BOOLEAN /\ painted \in BOOLEAN
  /\ applying \in [state : {"none", "fresh", "moved", "applied"}, region : Regions]

Idle == [kind |-> "idle", region |-> NoRegion]
Quiescent == [state |-> "none", region |-> NoRegion]

NextEditInit ==
  /\ \E k \in Lines : text = [n \in 1 .. k |-> n]
  /\ focused = TRUE /\ sourceOn = TRUE
  /\ fimFlight = 0 /\ ghost = FALSE
  /\ armed = FALSE /\ predicting = Quiescent
  /\ proposal = Idle /\ jumpVisible = FALSE /\ jumpedKey = FALSE /\ painted = FALSE
  /\ applying = Quiescent /\ shellGone = FALSE

FimBusy == ghost \/ fimFlight > 0

\* clearAll of the executor.
Cleared == jumpVisible' = FALSE /\ jumpedKey' = FALSE /\ painted' = FALSE

\* The FSM answers idle + clearAll.
Dismissed == proposal' = Idle /\ Cleared

\* showDecorations: declined when the editor is not active, and lineAt throws
\* when the cursor's line is gone; both end in clearAll.
Paint(r, on, visible, jumped) ==
  IF focused /\ r.cursor <= Len(on)
  THEN painted' = TRUE /\ jumpVisible' = visible /\ jumpedKey' = jumped
  ELSE Cleared

\* One change: the lines from .. to are replaced by so many edited ones.
Changes == [from : Lines, to : Lines, lines : 1 .. 2]

Changed(doc, c) ==
  SubSeq(doc, 1, c.from - 1) \o [n \in 1 .. c.lines |-> 0] \o SubSeq(doc, c.to + 1, Len(doc))

\* A batch is one change or two; each meets what the one before it left.
ChangedByBatch(doc, es) ==
  IF Len(es) = 1 THEN Changed(doc, es[1]) ELSE Changed(Changed(doc, es[1]), es[2])

\* The events of a document of n lines: one change, or two that are sorted from
\* the end of the document to its start.
Events == [n \in Lines |->
  LET one == {c \in Changes : c.from <= c.to /\ c.to <= n}
      two == {<<c, d>> : c, d \in one}
  IN {es \in {<<c>> : c \in one} \cup {es \in two : es[2].to < es[1].from} :
        Len(ChangedByBatch([k \in 1 .. n |-> k], es)) \in Lines}]

\* Mutant: a change that touches the first line of the region is let through.
RemapTouching(r, c) ==
  IF r.from = 0 \/ (c.from < r.to /\ c.to > r.from) THEN [r EXCEPT !.from = 0, !.to = 0]
  ELSE IF c.to < r.from
  THEN [r EXCEPT !.from = @ + c.lines - (c.to - c.from + 1),
                 !.to = @ + c.lines - (c.to - c.from + 1)]
  ELSE r

\* remapRange, one change: a region that is overlapped is lost (from = 0), a
\* change above it shifts it.
Remap(r, c) ==
  IF r.from = 0 \/ (c.from <= r.to /\ c.to >= r.from) THEN [r EXCEPT !.from = 0, !.to = 0]
  ELSE IF c.to < r.from
  THEN [r EXCEPT !.from = @ + c.lines - (c.to - c.from + 1),
                 !.to = @ + c.lines - (c.to - c.from + 1)]
  ELSE r

RemapByBatch(r, es) ==
  IF Len(es) = 1 THEN Remap(r, es[1]) ELSE Remap(Remap(r, es[1]), es[2])

Moved(flight) == [flight EXCEPT !.state = IF @ = "none" THEN @ ELSE "moved"]

\* onDidChangeTextDocument with content: arm, remap, dismiss or repaint.
TextChanges(es) ==
  LET remapped == RemapByBatch(proposal.region, es)
  IN /\ text' = ChangedByBatch(text, es)
     /\ armed' = TRUE
     /\ predicting' = Moved(predicting)
     /\ CASE proposal.kind = "idle" -> UNCHANGED <<proposal, jumpVisible, jumpedKey, painted>>
          [] proposal.kind # "idle" /\ remapped.from = 0 -> Dismissed
          [] proposal.kind # "idle" /\ remapped.from # 0 ->
               /\ proposal' = [proposal EXCEPT !.region = remapped]
               /\ Paint(remapped, text', jumpVisible, jumpedKey)

\* The user, the agent or a formatter edits the document.
EditText ==
  /\ \E es \in Events[Len(text)] : TextChanges(es)
  /\ applying' = Moved(applying)
  /\ UNCHANGED <<focused, sourceOn, fimFlight, ghost, shellGone>>

\* A change without content (save, dirty flag): only the version moves.
TouchText ==
  /\ armed' = TRUE
  /\ predicting' = Moved(predicting) /\ applying' = Moved(applying)
  /\ UNCHANGED <<text, focused, sourceOn, fimFlight, ghost, proposal, jumpVisible, jumpedKey,
                 painted, shellGone>>

\* onDidChangeActiveTextEditor.
SwitchEditor ==
  /\ focused' = ~ focused
  /\ ghost' = FALSE
  /\ Dismissed
  /\ UNCHANGED <<text, sourceOn, fimFlight, armed, predicting, applying, shellGone>>

\* The window loses the focus, or Escape.
DismissKey ==
  /\ Dismissed
  /\ UNCHANGED <<text, focused, sourceOn, fimFlight, ghost, armed, predicting, applying, shellGone>>

\* Tab: the jump.  The key can be on its way while the context keys change.
TabJump ==
  /\ IF proposal.kind = "proposed"
     THEN /\ proposal' = [proposal EXCEPT !.kind = "jumped"]
          /\ IF painted THEN Paint(proposal.region, text, jumpVisible, TRUE)
             ELSE jumpedKey' = TRUE /\ UNCHANGED <<jumpVisible, painted>>
     ELSE Dismissed
  /\ UNCHANGED <<text, focused, sourceOn, fimFlight, ghost, armed, predicting, applying, shellGone>>

BaseHolds(r) == /\ r.from # 0 /\ r.to <= Len(text)
                /\ SubSeq(text, r.from, r.to) = r.base

\* Tab: the accept; applyEdit compares the text with the base of the proposal.
TabAccept ==
  /\ applying.state = "none"  \* bound: one answer is awaited
  /\ applying' = IF proposal.kind # "jumped" THEN applying
                 ELSE IF focused /\ BaseHolds(proposal.region)
                      THEN [state |-> "fresh", region |-> proposal.region]
                      ELSE [state |-> "moved", region |-> NoRegion]
  /\ Dismissed
  /\ UNCHANGED <<text, focused, sourceOn, fimFlight, ghost, armed, predicting, shellGone>>

\* VS Code applies the edit to the version it was made for.
EditApplied ==
  /\ applying.state = "fresh"
  /\ \E n \in 1 .. 2 :
       LET es == <<[from |-> applying.region.from, to |-> applying.region.to, lines |-> n]>>
       IN Len(ChangedByBatch(text, es)) \in Lines /\ TextChanges(es)
  /\ applying' = [state |-> "applied", region |-> NoRegion]
  /\ UNCHANGED <<focused, sourceOn, fimFlight, ghost, shellGone>>

\* applyResult: true does nothing in idle; anything else dismisses.
ApplyAnswered ==
  /\ applying.state # "none"
  /\ applying' = Quiescent
  /\ IF applying.state = "applied" /\ proposal.kind = "idle"
     THEN UNCHANGED <<proposal, jumpVisible, jumpedKey, painted>>
     ELSE Dismissed
  /\ UNCHANGED <<text, focused, sourceOn, fimFlight, ghost, armed, predicting, shellGone>>

\* fimActivity.requestStarted.
FimStarts ==
  /\ fimFlight < MaxFim
  /\ fimFlight' = fimFlight + 1
  /\ predicting' = Quiescent
  /\ Dismissed
  /\ UNCHANGED <<text, focused, sourceOn, ghost, armed, applying, shellGone>>

\* fimActivity.resultShown: only the last request in flight reports what is
\* visible.
FimSettles ==
  /\ fimFlight > 0 /\ fimFlight' = fimFlight - 1
  /\ \E shown \in BOOLEAN :
       /\ ghost' = IF fimFlight = 1 THEN shown ELSE ghost
       /\ IF fimFlight = 1 /\ shown THEN Dismissed
          ELSE UNCHANGED <<proposal, jumpVisible, jumpedKey, painted>>
  /\ UNCHANGED <<text, focused, sourceOn, armed, predicting, applying, shellGone>>

\* The ghost text is accepted.
FimAccepted ==
  /\ ghost
  /\ ghost' = FALSE /\ armed' = TRUE
  /\ UNCHANGED <<text, focused, sourceOn, fimFlight, predicting, proposal, jumpVisible, jumpedKey,
                 painted, applying, shellGone>>

\* NextEditGuard.requestToggle or the settings page.
ToggleSource ==
  /\ sourceOn' = ~ sourceOn
  /\ UNCHANGED <<text, focused, fimFlight, ghost, armed, predicting, proposal, jumpVisible,
                 jumpedKey, painted, applying, shellGone>>

\* regionAroundCursor on the text of now.
RegionAround(cursor) ==
  LET first == IF cursor > Window THEN cursor - Window ELSE 1
      last  == IF cursor + Window < Len(text) THEN cursor + Window ELSE Len(text)
  IN [from |-> first, to |-> last, base |-> SubSeq(text, first, last), cursor |-> cursor]

\* Mutant: the gate for inline completions looks only at what is visible.
EligibleUnderFim == sourceOn /\ ~ ghost /\ proposal.kind = "idle" /\ focused

\* Gates 1, 2 and 2b of trigger().
Eligible == sourceOn /\ ~ FimBusy /\ proposal.kind = "idle" /\ focused

\* The debounce ends: trigger() and its gates, then runPrediction.
TriggerPredicts ==
  /\ armed /\ armed' = FALSE
  /\ Eligible
  /\ \E cursor \in 1 .. Len(text) :
       predicting' = [state |-> "fresh", region |-> RegionAround(cursor)]
  /\ UNCHANGED <<text, focused, sourceOn, fimFlight, ghost, proposal, jumpVisible, jumpedKey,
                 painted, applying, shellGone>>

\* A gate stops it (a secret path or an untrusted workspace always may).
TriggerStops ==
  /\ armed /\ armed' = FALSE
  /\ UNCHANGED <<text, focused, sourceOn, fimFlight, ghost, predicting, proposal, jumpVisible,
                 jumpedKey, painted, applying, shellGone>>

\* predict answers a rewrite that is still fresh: proposalReady.
Predicted ==
  /\ predicting.state = "fresh" /\ ~ FimBusy /\ focused
  /\ predicting' = Quiescent
  /\ IF proposal.kind = "idle"
     THEN /\ proposal' = [kind |-> "proposed", region |-> predicting.region]
          /\ Paint(predicting.region, text, TRUE, FALSE)
     ELSE Dismissed
  /\ UNCHANGED <<text, focused, sourceOn, fimFlight, ghost, armed, applying, shellGone>>

\* No rewrite, a failure, or an answer that came too late.
PredictionDropped ==
  /\ predicting.state # "none"
  /\ predicting' = Quiescent
  /\ UNCHANGED <<text, focused, sourceOn, fimFlight, ghost, armed, proposal, jumpVisible,
                 jumpedKey, painted, applying, shellGone>>

\* dispose(): nothing is dispatched any more, the decorations go with the shell.
ShellDispose ==
  /\ shellGone' = TRUE /\ painted' = FALSE /\ predicting' = Quiescent
  /\ UNCHANGED <<text, focused, sourceOn, fimFlight, ghost, armed, proposal, jumpVisible,
                 jumpedKey, applying>>

NextEditNext ==
  /\ ~ shellGone
  /\ \/ EditText \/ TouchText \/ SwitchEditor \/ DismissKey \/ TabJump \/ TabAccept
     \/ EditApplied \/ ApplyAnswered
     \/ FimStarts \/ FimSettles \/ FimAccepted \/ ToggleSource
     \/ TriggerPredicts \/ TriggerStops \/ Predicted \/ PredictionDropped
     \/ ShellDispose

NextEditSpec == NextEditInit /\ [][NextEditNext]_nextEditVars

-----------------------------------------------------------------------------
\* Nothing of next edit is displayed, and none of its requests is in flight,
\* while an inline completion is displayed or requested, however the requests
\* of both overlap (shell.vscode.ts:594-596, 707-709, 949; fsm.ts:73-76).
FimWins ==
  FimBusy => proposal.kind = "idle" /\ predicting.state = "none" /\ ~ jumpVisible /\ ~ painted

\* Tab is taken only for a proposal that is on the screen, and a proposal
\* stands on the lines it was made for, whatever was edited around it since
\* (anchors.ts:48-68, nextEditShellWiring.ts:189-194, nextEditExecutor.ts:96-106).
ProposalIsSound ==
  ~ shellGone =>
    /\ jumpVisible => painted /\ (jumpedKey <=> proposal.kind = "jumped")
    /\ proposal.kind # "idle" => BaseHolds(proposal.region)

\* "after every batch, talaria.nextEdit.jumpVisible is up if and only if
\* decorations are on screen" (nextEditExecutor.ts:96-98).
KeyIffPainted == ~ shellGone => (jumpVisible <=> painted)
=============================================================================

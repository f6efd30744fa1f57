------------------------------ MODULE Transcript ------------------------------
(***************************************************************************)
(* What one tab shows of its session: the messages a controller posts for  *)
(* a turn (turnTranslator.ts, sessionUpdate.ts and the posts of            *)
(* SessionController.ts, whose turns SessionTurn models), the reducer of   *)
(* the webview that folds them (transcript.ts), and the clicks on a card,  *)
(* which the webview shows at once and the host decides                    *)
(* (localReducer.ts, approvalOptions.ts, ApprovalCard.tsx, DiffCard.tsx).  *)
(*                                                                         *)
(* A text is the sequence of its chunks, which are counted within a turn.  *)
(* Tools and the cards that ask about them have one number.  Card n comes  *)
(* with the diff of a tool of its own if n is in Edits, and else asks      *)
(* about a tool that the agent names.  The agent streams while its turn is *)
(* live.  Outputs, titles, usage and replayed turns are left out.          *)
(*                                                                         *)
(* A post of the host is folded in the step that makes it: the host does   *)
(* not read what the webview shows and a click does not read the host, so  *)
(* a click that comes while posts travel has the effect it has before      *)
(* them.  A click travels, and finds the host where it is by then.         *)
(***************************************************************************)
EXTENDS Naturals, Sequences, SequencesExt, FiniteSets

CONSTANTS MaxEvents,   \* bound: prompts, what the agent sends in their turns, bubbles and clicks
          NumTools,    \* bound: tool calls of the agent, and approvals
          Edits,       \* those whose permission request has a diff
          Hunks,       \* how many hunks such a diff has; each is clicked once
          MaxItems     \* MAX_TRANSCRIPT_ITEMS

ASSUME TranscriptAssumption ==
  /\ {MaxEvents, NumTools} \subseteq Nat /\ MaxItems \in Nat \ {0}
  /\ Edits \subseteq 1 .. NumTools /\ Hunks \in Nat \ {0}

Tools == 1 .. NumTools

VARIABLES hostTurn,   \* the controller's turn: number, live, the stop, how it ended
          translator, \* its TurnTranslator: message buffer, open block, tool statuses
          thoughts,   \* reasoning blocks so far
          events,     \* what MaxEvents bounds
          verdict,    \* pendingApprovals, and how the host settled the others
          decided,    \* hunkState: how many hunks are accepted
          posts,      \* posted to the host, not handled yet
          items       \* TabState.transcript

hostVars == <<hostTurn, translator, thoughts, events, verdict, decided>>
transcriptVars == <<hostVars, posts, items>>

Settlements == {"allow", "deny", "cancelled", "expired", "superseded"}
NoTranslator == [buffer |-> <<>>, block |-> 0, status |-> [t \in Tools |-> "none"]]

TranscriptTypeOK ==
  /\ hostTurn \in [number : 0 .. MaxEvents, live : BOOLEAN, stopped : BOOLEAN,
                   end : {"none", "complete", "cancelled"}]
  /\ events \in 0 .. MaxEvents
  /\ translator.status \in [Tools -> {"none", "pending", "done", "interrupted"}]
  /\ translator.block \in 0 .. thoughts
  /\ verdict \in [Tools -> Settlements \cup {"none", "pending"}]
  /\ decided \in [Tools -> 0 .. Hunks]
  /\ \A i \in DOMAIN items : items[i].turn \in 1 .. hostTurn.number

TranscriptInit ==
  /\ hostTurn = [number |-> 0, live |-> FALSE, stopped |-> FALSE, end |-> "none"]
  /\ translator = NoTranslator /\ thoughts = 0 /\ events = 0
  /\ verdict = [t \in Tools |-> "none"] /\ decided = [t \in Tools |-> 0]
  /\ posts = <<>> /\ items = <<>>

-------------------------------------------------------------------------------
\* The reducer.

MessagesOf(list, turn) == {i \in DOMAIN list : list[i].kind = "message" /\ list[i].turn = turn}
NewMessage(list, turn, text, streaming) ==
  [kind |-> "message", turn |-> turn, text |-> text, streaming |-> streaming,
   id |-> Cardinality(MessagesOf(list, turn))]

\* list with every item that satisfies P replaced by F of it.
Mapped(list, P(_), F(_)) == [i \in DOMAIN list |-> IF P(list[i]) THEN F(list[i]) ELSE list[i]]

Streams(item) == item.kind \in {"message", "reasoning"} /\ item.streaming
Silenced(item) == [item EXCEPT !.streaming = FALSE]
CloseOpenMessages(list) ==
  Mapped(list, LAMBDA i : i.kind = "message" /\ i.streaming, Silenced)

\* settleOpenItems.
OpenItem(item) ==
  \/ Streams(item)
  \/ item.kind = "tool" /\ item.status = "pending"
  \/ item.kind = "approval" /\ item.settled = "none"
  \/ item.kind = "plan" /\ item.status = "active"
Interrupted(item) ==
  CASE Streams(item) -> Silenced(item)
    [] item.kind = "approval" -> [item EXCEPT !.settled = "cancelled"]
    [] OTHER -> [item EXCEPT !.status = "interrupted"]
SettleOpenItems(list) == Mapped(list, OpenItem, Interrupted)

\* capTranscript: the oldest items go, but none of the turn at the tail; the items of
\* a turn are together, as turns only grow.
Capped(list) ==
  LET over == Len(list) - MaxItems
      active == {i \in DOMAIN list : list[i].turn = Last(list).turn}
  IN IF over <= 0 THEN list
     ELSE SubSeq(list, Min({over} \cup {i - 1 : i \in active}) + 1, Len(list))

HasItem(list, P(_)) == \E i \in DOMAIN list : P(list[i])

Newest(indices) == CHOOSE i \in indices : \A k \in indices : k <= i

\* message.delta goes to the newest open message of its turn.
FoldDelta(list, m) ==
  LET open == {i \in MessagesOf(list, m.turn) : list[i].streaming}
  IN IF open # {} THEN [list EXCEPT ![Newest(open)].text = @ \o m.text]
     ELSE Append(list, NewMessage(list, m.turn, m.text, TRUE))

\* Mutant: message.end replaces the text of the last block, as if it were the only one.
FoldEndReplaces(list, m) ==
  LET last == Newest(MessagesOf(list, m.turn))
  IN [list EXCEPT ![last].streaming = FALSE, ![last].text = m.text]

\* message.end carries the text of the whole turn: it replaces that of the last
\* block only if it is the only one.
FoldEnd(list, m) ==
  LET blocks == MessagesOf(list, m.turn)
      last == Newest(blocks)
  IN IF blocks = {} THEN Append(list, NewMessage(list, m.turn, m.text, FALSE))
     ELSE [list EXCEPT ![last].streaming = FALSE,
                        ![last].text = IF Cardinality(blocks) = 1 THEN m.text ELSE @]

\* tool.start creates, once.
FoldToolStart(list, m) ==
  IF HasItem(list, LAMBDA i : i.kind = "tool" /\ i.tool = m.tool) THEN list
  ELSE Append(CloseOpenMessages(list), [kind |-> "tool", turn |-> m.turn, tool |-> m.tool,
                                  status |-> m.status, hunks |-> 0])

FoldToolUpdate(list, m) ==
  Mapped(list, LAMBDA i : i.kind = "tool" /\ i.tool = m.tool,
         LAMBDA i : [i EXCEPT !.status = m.status])

FoldRequest(list, m) ==
  Append(CloseOpenMessages(list), [kind |-> "approval", turn |-> m.turn, tool |-> m.tool,
                             settled |-> "none", resolved |-> "none"])

\* deriveSettledToolStatus.
ToolStatusOf(outcome) ==
  CASE outcome = "allow" -> "approved"
    [] outcome \in {"deny", "expired"} -> "denied"
    [] OTHER -> "interrupted"

\* approval.settle: the host's word replaces what a click showed, and a tool that
\* is still pending takes the status of the outcome.
FoldSettle(list, m) ==
  LET selected == m.status \in {"allow", "deny"}
  IN Mapped(list, LAMBDA i : i.kind \in {"approval", "tool"} /\ i.tool = m.tool,
            LAMBDA i : IF i.kind = "approval"
                       THEN [i EXCEPT !.settled = IF selected THEN "selected" ELSE m.status,
                                      !.resolved = IF selected THEN m.status ELSE "none"]
                       ELSE [i EXCEPT !.status = IF @ = "pending" THEN ToolStatusOf(m.status) ELSE @])

\* plan.update: one card for each turn.
FoldPlan(list, m) ==
  LET isCard(i) == i.kind = "plan" /\ i.turn = m.turn
  IN IF HasItem(list, isCard) THEN Mapped(list, isCard, LAMBDA i : [i EXCEPT !.status = m.status])
     ELSE Append(CloseOpenMessages(list), [kind |-> "plan", turn |-> m.turn, status |-> m.status])

\* foldTab.
Folded(list, m) ==
  CASE m.type = "user" -> Append(list, [kind |-> "user", turn |-> m.turn])
    [] m.type = "reasoning.start" ->
         Append(CloseOpenMessages(list), [kind |-> "reasoning", turn |-> m.turn, block |-> m.block, streaming |-> TRUE])
    [] m.type = "reasoning.end" ->
         Mapped(list, LAMBDA i : i.kind = "reasoning" /\ i.block = m.block, Silenced)
    [] m.type = "message.delta" -> FoldDelta(list, m)
    [] m.type = "message.end" -> FoldEnd(list, m)
    [] m.type = "tool.start" -> FoldToolStart(list, m)
    [] m.type = "tool.update" -> FoldToolUpdate(list, m)
    [] m.type = "approval.request" -> FoldRequest(list, m)
    [] m.type = "approval.settle" -> FoldSettle(list, m)
    [] m.type = "plan.update" -> FoldPlan(list, m)
    [] m.type = "result.summary" -> Append(CloseOpenMessages(list), [kind |-> "result", turn |-> m.turn])
    [] m.type = "turn.end" -> IF m.status = "complete" THEN CloseOpenMessages(list) ELSE SettleOpenItems(list)

-------------------------------------------------------------------------------
\* What the host posts.

Posted(type) == [type |-> type, turn |-> hostTurn.number]
OfTool(type, t, status) == [type |-> type, turn |-> hostTurn.number, tool |-> t, status |-> status]

\* A handler's posts, in their order.
Emits(batch) ==
  LET after[n \in 0 .. Len(batch)] ==
        IF n = 0 THEN items ELSE Capped(Folded(after[n - 1], batch[n]))
  IN items' = after[Len(batch)]

InOrder(tools) ==
  CHOOSE list \in [1 .. Cardinality(tools) -> tools] :
    \A i, k \in DOMAIN list : i < k => list[i] < list[k]

\* settlePendingApprovals: cards are asked in the order of their numbers.
PendingCards == {t \in Tools : verdict[t] = "pending"}
SettleMessages(cards, outcome) ==
  LET sorted == InOrder(cards)
  IN [i \in DOMAIN sorted |-> OfTool("approval.settle", sorted[i], outcome)]
SettleCards(cards, outcome) ==
  /\ verdict' = [t \in Tools |-> IF t \in cards THEN outcome ELSE verdict[t]]
  /\ decided' = [t \in Tools |-> IF t \in cards THEN 0 ELSE decided[t]]

\* closeReasoning: an update that is no thought closes the open block.
Closing == IF translator.block = 0 THEN <<>>
           ELSE <<[type |-> "reasoning.end", turn |-> hostTurn.number, block |-> translator.block]>>

-------------------------------------------------------------------------------
\* The controller and its agent.

Counted == events < MaxEvents /\ events' = events + 1

\* sendPrompt, once admitted.
StartTurn ==
  /\ ~ hostTurn.live /\ Counted
  /\ hostTurn' = [number |-> hostTurn.number + 1, live |-> TRUE, stopped |-> FALSE,
                  end |-> "none"]
  /\ translator' = NoTranslator
  /\ Emits(<<[type |-> "user", turn |-> hostTurn'.number]>>)
  /\ UNCHANGED <<thoughts, verdict, decided, posts>>

\* One session/update, which the translator of the turn maps.
AgentUpdate(mapped, translated) ==
  /\ hostTurn.live /\ Counted
  /\ translator' = translated
  /\ Emits(mapped)
  /\ UNCHANGED <<hostTurn, verdict, decided, posts>>

AgentText ==
  /\ LET chunk == Len(translator.buffer) + 1 IN
       AgentUpdate(Append(Closing, [type |-> "message.delta", turn |-> hostTurn.number, text |-> <<chunk>>]),
              [translator EXCEPT !.buffer = Append(@, chunk), !.block = 0])
  /\ UNCHANGED thoughts

AgentThinks ==
  LET block == IF translator.block = 0 THEN thoughts + 1 ELSE translator.block
      message(type) == [type |-> type, turn |-> hostTurn.number, block |-> block]
  IN /\ AgentUpdate(IF translator.block = 0 THEN <<message("reasoning.start")>> ELSE <<>>,
               [translator EXCEPT !.block = block])
     /\ thoughts' = IF translator.block = 0 THEN block ELSE thoughts

\* tool_call and tool_call_update.
AgentTool == \E t \in Tools \ Edits, status \in {"pending", "done"} :
  /\ AgentUpdate(Append(Closing, OfTool(IF translator.status[t] = "none" THEN "tool.start" ELSE "tool.update",
                                   t, status)),
            [translator EXCEPT !.status[t] = status, !.block = 0])
  /\ UNCHANGED thoughts

AgentPlans == \E status \in {"active", "done"} :
  /\ AgentUpdate(Append(Closing, [type |-> "plan.update", turn |-> hostTurn.number, status |-> status]),
            [translator EXCEPT !.block = 0])
  /\ UNCHANGED thoughts

\* A bubble within the turn: a queued prompt that the agent goes on with, or a
\* control utterance (runControlUtterance), which the translator does not see.
UserBubble == \E queued \in BOOLEAN :
  /\ hostTurn.live /\ Counted
  /\ Emits((IF queued THEN Closing ELSE <<>>) \o <<Posted("user")>>)
  /\ translator' = IF queued THEN [translator EXCEPT !.block = 0] ELSE translator
  /\ UNCHANGED <<hostTurn, thoughts, verdict, decided, posts>>

\* handlePermission that ends with a card (emitApprovalCard).
AskApproval(t) ==
  /\ hostTurn.live /\ ~ hostTurn.stopped /\ verdict[t] = "none" /\ Counted
  /\ verdict' = [verdict EXCEPT ![t] = "pending"]
  /\ Emits((IF t \in Edits THEN <<OfTool("tool.start", t, "pending")>> ELSE <<>>)
           \o <<OfTool("approval.request", t, "pending")>>)
  /\ UNCHANGED <<hostTurn, translator, thoughts, decided, posts>>

ApprovalExpires(t) ==
  /\ t \in PendingCards /\ SettleCards({t}, "expired")
  /\ Emits(SettleMessages({t}, "expired"))
  /\ UNCHANGED <<hostTurn, translator, thoughts, events, posts>>

\* markInFlightToolsInterrupted.
InFlight == {t \in Tools : translator.status[t] = "pending"}
Interrupts == LET sorted == InOrder(InFlight)
              IN [i \in DOMAIN sorted |-> OfTool("tool.update", sorted[i], "interrupted")]

\* cancel().
StopTurn ==
  /\ hostTurn.live /\ ~ hostTurn.stopped /\ hostTurn' = [hostTurn EXCEPT !.stopped = TRUE]
  /\ translator' = [translator EXCEPT !.status =
                      [t \in Tools |-> IF t \in InFlight THEN "interrupted" ELSE @[t]]]
  /\ SettleCards(PendingCards, "cancelled")
  /\ Emits(Interrupts \o SettleMessages(PendingCards, "cancelled"))
  /\ UNCHANGED <<thoughts, events, posts>>

\* finish(): the open block, and the whole text if there is any.
Finish == Closing \o IF translator.buffer = <<>> THEN <<>>
                     ELSE <<[type |-> "message.end", turn |-> hostTurn.number, text |-> translator.buffer]>>

\* emitTurnEnd, and endTurnBracket alike.
EndsTurn(before, status) ==
  LET outcome == IF status = "complete" THEN "superseded" ELSE "cancelled" IN
  /\ hostTurn.live /\ hostTurn' = [hostTurn EXCEPT !.live = FALSE, !.end = status]
  /\ SettleCards(PendingCards, outcome)
  /\ Emits(before \o SettleMessages(PendingCards, outcome)
           \o <<[type |-> "turn.end", turn |-> hostTurn.number, status |-> status]>>)
  /\ UNCHANGED <<thoughts, events, posts>>

\* session/prompt answered: finish, the summary, the end.
PromptAnswered == \E status \in {"complete", "cancelled"} :
  /\ EndsTurn(Append(Finish, Posted("result.summary")), status)
  /\ translator' = [translator EXCEPT !.block = 0]

\* It failed, the agent died or restarts, or the fallback of a Stop fired.
TurnBreaks == EndsTurn(<<>>, "cancelled") /\ UNCHANGED translator

-------------------------------------------------------------------------------
\* The clicks reach the host: respondApproval and resolveDiff.  A card that is
\* settled takes none.
HostHandles ==
  /\ posts # <<>> /\ posts' = Tail(posts)
  /\ LET click == Head(posts)
         all == decided[click.tool] + 1
         choice == IF click.pick # "accept" THEN click.pick
                   ELSE IF all = Hunks THEN "allow" ELSE "none"
     IN IF click.tool \notin PendingCards THEN UNCHANGED <<verdict, decided, items>>
        ELSE IF choice = "none"
        THEN /\ decided' = [decided EXCEPT ![click.tool] = all]
             /\ UNCHANGED <<verdict, items>>
        ELSE /\ SettleCards({click.tool}, choice)
             /\ Emits(SettleMessages({click.tool}, choice))
  /\ UNCHANGED <<hostTurn, translator, thoughts, events>>

-------------------------------------------------------------------------------
\* The clicks of the user, on what the webview shows.

\* pendingDiffToolIds and isLive: a card takes a click while nothing is chosen.
LiveCard(item) == item.kind = "approval" /\ item.settled = "none" /\ item.resolved = "none"

\* respondApproval of useHostActions, and local.approvalResolved.
PickOption == \E i \in DOMAIN items, option \in {"allow", "deny"} :
  /\ LiveCard(items[i]) /\ Counted
  /\ items' = [items EXCEPT ![i].resolved = option]
  /\ posts' = Append(posts, [tool |-> items[i].tool, pick |-> option])
  /\ UNCHANGED <<hostTurn, translator, thoughts, verdict, decided>>

\* resolveDiff of useHostActions, and local.diffResolved: a rejected hunk denies
\* the whole edit.
PickHunk == \E i \in DOMAIN items, action \in {"accept", "deny"} :
  /\ items[i].kind = "tool" /\ items[i].tool \in Edits /\ items[i].hunks < Hunks /\ Counted
  /\ HasItem(items, LAMBDA a : LiveCard(a) /\ a.tool = items[i].tool)
  /\ items' = [k \in DOMAIN items |->
       IF k = i THEN [items[k] EXCEPT !.hunks = @ + 1]
       ELSE IF action = "deny" /\ items[k].kind = "approval" /\ items[k].tool = items[i].tool
       THEN [items[k] EXCEPT !.resolved = "deny", !.settled = "selected"]
       ELSE items[k]]
  /\ posts' = Append(posts, [tool |-> items[i].tool, pick |-> action])
  /\ UNCHANGED <<hostTurn, translator, thoughts, verdict, decided>>

TranscriptNext ==
  \/ StartTurn \/ AgentText \/ AgentThinks \/ AgentTool \/ AgentPlans \/ UserBubble
  \/ StopTurn \/ PromptAnswered \/ TurnBreaks
  \/ \E t \in Tools : AskApproval(t) \/ ApprovalExpires(t)
  \/ HostHandles \/ PickOption \/ PickHunk

-------------------------------------------------------------------------------
\* The text of the newest turn is shown once and in full: its blocks, whatever
\* came between them and wherever they were cut off, are the text its translator
\* streamed, and no two of them have one id (CA-09, message.end).
TextIsWhole ==
  LET blocks == MessagesOf(items, hostTurn.number)
  IN /\ FlattenSeq([i \in DOMAIN items |-> IF i \in blocks THEN items[i].text ELSE <<>>])
          = translator.buffer
     /\ \A i, k \in blocks : items[i].id = items[k].id => i = k

\* Once the end of a turn is folded nothing claims to go on: no block streams and
\* no card waits, and after an abnormal end no tool and no plan step runs either
\* (settleOpenItems; a tool left open by a complete turn is shown as it is).
NothingLiveAfterEnd ==
  ~ hostTurn.live => \A i \in DOMAIN items :
    /\ ~ Streams(items[i])
    /\ items[i].kind = "approval" => items[i].settled # "none"
    /\ hostTurn.end # "complete" => ~ OpenItem(items[i])

\* Once the clicks are handled and the answers folded, a card and the tool of its
\* diff say what the agent was told, whatever was clicked meanwhile: `approved`
\* exactly if the host allowed it.  A tool of the agent that is done stays done.
CardsTellVerdict ==
  posts = <<>> => \A i \in DOMAIN items :
    LET t == items[i].tool IN
    /\ items[i].kind = "approval" =>
         /\ items[i].resolved = IF verdict[t] \in {"allow", "deny"} THEN verdict[t] ELSE "none"
         /\ items[i].settled = IF verdict[t] \in {"allow", "deny"} THEN "selected"
                               ELSE IF verdict[t] = "pending" THEN "none" ELSE verdict[t]
    /\ items[i].kind = "tool" /\ items[i].tool \in Edits =>
         items[i].status = IF verdict[t] = "pending" THEN "pending" ELSE ToolStatusOf(verdict[t])
    /\ items[i].kind = "tool" /\ items[i].turn = hostTurn.number /\ translator.status[t] = "done" =>
         items[i].status = "done"

\* A tab shows what its session said and decided.
TranscriptIsTrue == TextIsWhole /\ NothingLiveAfterEnd /\ CardsTellVerdict
===============================================================================

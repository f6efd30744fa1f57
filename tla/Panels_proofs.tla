----------------------------- MODULE Panels_proofs -----------------------------
(***************************************************************************)
(* Theorems about the components of MCServices that show something to the  *)
(* user: the operations on the configuration and their panel, the cards of *)
(* the setup and of the downloads, the model picker, a panel with its      *)
(* switch, and the tabs of a page that is lost and made again.  As in      *)
(* Services_proofs each component has an inductive invariant of its own.   *)
(***************************************************************************)
EXTENDS MCServices, SequenceTheorems, TLAPS

-------------------------------------------------------------------------------
\* The operations on the configuration, and their panel.

\* An operation steps alone, and so does a fetch.
LEMMA ControlSteps == Next => [ControlOpsNext]_controlVars
<1> SUFFICES ASSUME Next, ~ UNCHANGED controlVars PROVE ControlOpsNext
  OBVIOUS
<1> QED BY DEF Next, Only

OpPhases == Settled \cup
  {"new", "queued", "running", "writing", "secret", "verify", "undoEnv",
   "undoConfig", "polling", "reload", "push", "diverged"}
Fetches == [phase : {"none", "started", "read"}, seq : Nat, data : SUBSET ConfigOps]

\* The types the argument needs.  How many fetches there are is not among them.
ControlTypes ==
  /\ opPc \in [ConfigOps -> OpPhases]
  /\ config \subseteq ConfigOps /\ installed \subseteq ConfigOps
  /\ installing \subseteq ConfigOps
  /\ writeTail \in Seq(ConfigOps)
  /\ readConfig \in [ConfigOps -> SUBSET ConfigOps]
  /\ fetch \in [Fetchers -> Fetches] /\ fetchSeq \in Nat
  /\ pushed \in [shown : SUBSET ConfigOps, failed : BOOLEAN]

\* What is queued is on the tail.
QueuedOnTail ==
  \A op \in ConfigOps :
    opPc[op] = "queued" => \E i \in 1 .. Len(writeTail) : writeTail[i] = op

\* Between the read of its file and the last call that takes it back, a short
\* operation is the one the tail runs.
Exclusive == {"running", "writing", "secret", "verify", "undoEnv", "undoConfig"}
TailExcludes ==
  \A op \in ConfigOps :
    /\ OnTail(op) /\ opPc[op] \in Exclusive => writeTail # << >> /\ Head(writeTail) = op
    /\ opPc[op] \in Exclusive \ {"running"} => OnTail(op)

\* What a short write has read is still what the file holds.
ReadIsFresh == \A op \in ConfigOps : opPc[op] = "writing" => readConfig[op] = config

\* What was acknowledged is in the configuration until it is taken back.
Landed ==
  \A op \in ConfigOps :
    opPc[op] \in {"secret", "verify", "reload", "push", "ok"} => op \in config \cup installed

\* An operation fetches the panel at its end only, and fetches are numbered.
FetchesNumbered ==
  /\ \A op \in ConfigOps : fetch[op].phase # "none" => opPc[op] \in {"push", "diverged"}
  /\ \A f \in Fetchers : fetch[f].seq <= fetchSeq /\ (fetch[f].phase = "none" => fetch[f] = NoFetch)

\* The operations that an answer with this number must list: those that are
\* done, or whose own fetch is not newer.
Due(op, seq) ==
  \/ opPc[op] = "ok" /\ seq = fetchSeq
  \/ opPc[op] = "push" /\ fetch[op].phase # "none" /\ fetch[op].seq <= seq

\* Every answer that was read lists them, and so does the panel once the newest
\* fetch has ended.
AnswersList ==
  \A f \in Fetchers, op \in ConfigOps :
    fetch[f].phase = "read" /\ Due(op, fetch[f].seq) => op \in fetch[f].data
PanelLists ==
  (~ pushed.failed /\ \A f \in Fetchers : fetch[f].phase = "none" \/ fetch[f].seq # fetchSeq)
    => \A op \in ConfigOps : Due(op, fetchSeq) => op \in pushed.shown

\* No secret was acknowledged before its write, and what the rollback of an add
\* has not removed is named.
Disclosed ==
  \A op \in ConfigOps :
    /\ op \in written => opPc[op] \notin {"new", "queued", "running", "writing", "secret"}
    /\ opPc[op] \in {"undoConfig", "undone"} /\ op \in env \cap written
         => <<op, "secret">> \in disclosed
    /\ opPc[op] = "undone" /\ op \in config => <<op, "entry">> \in disclosed

ControlInv ==
  /\ ControlTypes /\ QueuedOnTail /\ TailExcludes /\ ReadIsFresh /\ Landed
  /\ FetchesNumbered /\ AnswersList /\ PanelLists /\ Disclosed

\* What is on a tail stays on it when something joins, and when something else
\* leaves at its head.
LEMMA AppendStays ==
  ASSUME NEW S, NEW s \in Seq(S), NEW e \in S
  PROVE  /\ \E j \in 1 .. Len(Append(s, e)) : Append(s, e)[j] = e
         /\ \A x : (\E i \in 1 .. Len(s) : s[i] = x)
              => \E j \in 1 .. Len(Append(s, e)) : Append(s, e)[j] = x
<1>1. Len(s) + 1 \in 1 .. Len(Append(s, e)) /\ Append(s, e)[Len(s) + 1] = e
  OBVIOUS
<1>2. ASSUME NEW i \in 1 .. Len(s)
      PROVE  i \in 1 .. Len(Append(s, e)) /\ Append(s, e)[i] = s[i]
  OBVIOUS
<1> QED BY <1>1, <1>2

LEMMA TailStays ==
  ASSUME NEW S, NEW s \in Seq(S), s # << >>
  PROVE  \A x : x # Head(s) /\ (\E i \in 1 .. Len(s) : s[i] = x)
           => \E j \in 1 .. Len(Tail(s)) : Tail(s)[j] = x
<1> SUFFICES ASSUME NEW x, x # Head(s), NEW i \in 1 .. Len(s), s[i] = x
             PROVE  \E j \in 1 .. Len(Tail(s)) : Tail(s)[j] = x
  OBVIOUS
<1>1. i # 1
  OBVIOUS
<1>2. i - 1 \in 1 .. Len(Tail(s)) /\ Tail(s)[i - 1] = s[i]
  BY <1>1
<1> QED BY <1>2

LEMMA ControlStarts == ControlOpsInit => ControlInv
<1> SUFFICES ASSUME ControlOpsInit PROVE ControlInv
  OBVIOUS
<1> USE DEF ControlOpsInit, NoFetch
<1>1. ControlTypes
  BY DEF ControlTypes, OpPhases, Fetches, Fetchers
<1>2. QueuedOnTail /\ TailExcludes /\ ReadIsFresh /\ Landed /\ Disclosed
  BY DEF QueuedOnTail, TailExcludes, ReadIsFresh, Landed, Disclosed, Exclusive
<1>3. FetchesNumbered /\ AnswersList
  BY DEF FetchesNumbered, AnswersList, Fetchers
<1>4. PanelLists
  <2>1. ASSUME NEW op \in ConfigOps PROVE ~ Due(op, fetchSeq)
    BY DEF Due, Fetchers
  <2> QED BY <2>1 DEF PanelLists
<1> QED BY <1>1, <1>2, <1>3, <1>4 DEF ControlInv

\* An operation that moves without a fetch of its own, to anything but its good
\* end, owes the panel nothing new.
LEMMA OpMoves ==
  ASSUME ControlInv, NEW op \in ConfigOps, NEW x,
         opPc[op] \notin {"push", "diverged"}, x # "ok",
         opPc' = [opPc EXCEPT ![op] = x], UNCHANGED panelVars
  PROVE  FetchesNumbered' /\ AnswersList' /\ PanelLists'
<1> USE DEF ControlInv, ControlTypes, panelVars
<1>1. FetchesNumbered'
  BY DEF FetchesNumbered
<1>2. ASSUME NEW o \in ConfigOps, NEW seq, Due(o, seq)' PROVE Due(o, seq)
  <2>1. CASE o = op
    BY <1>2, <2>1 DEF Due, FetchesNumbered
  <2>2. CASE o # op
    BY <1>2, <2>2 DEF Due
  <2> QED BY <2>1, <2>2
<1>3. AnswersList'
  BY <1>2 DEF AnswersList
<1>4. PanelLists'
  BY <1>2 DEF PanelLists
<1> QED BY <1>1, <1>3, <1>4

\* At most one operation is between its read and its last call.
LEMMA OneExclusive ==
  ASSUME ControlInv, NEW op \in ConfigOps, NEW o \in ConfigOps,
         opPc[op] \in Exclusive \ {"running"}, opPc[o] \in Exclusive \ {"running"}
  PROVE  o = op
BY DEF ControlInv, TailExcludes

\* An operation that moves, and whose place at the head of the tail may go,
\* leaves the others queued.
LEMMA QueueMoves ==
  ASSUME ControlInv, NEW op \in ConfigOps, NEW x, x # "queued",
         opPc' = [opPc EXCEPT ![op] = x],
         \/ writeTail' = writeTail
         \/ writeTail # << >> /\ Head(writeTail) = op /\ writeTail' = Tail(writeTail)
  PROVE  QueuedOnTail'
<1> SUFFICES ASSUME NEW o \in ConfigOps, opPc'[o] = "queued"
             PROVE  \E i \in 1 .. Len(writeTail') : writeTail'[i] = o
  BY DEF QueuedOnTail
<1>1. o # op /\ \E i \in 1 .. Len(writeTail) : writeTail[i] = o
  BY DEF ControlInv, ControlTypes, QueuedOnTail
<1>2. CASE writeTail' = writeTail
  BY <1>1, <1>2
<1>3. CASE writeTail # << >> /\ Head(writeTail) = op /\ writeTail' = Tail(writeTail)
  <2>1. \A y : y # Head(writeTail) /\ (\E i \in 1 .. Len(writeTail) : writeTail[i] = y)
          => \E j \in 1 .. Len(Tail(writeTail)) : Tail(writeTail)[j] = y
    BY <1>3, TailStays DEF ControlInv, ControlTypes
  <2> QED BY <1>1, <1>3, <2>1
<1> QED BY <1>2, <1>3

\* Every step of an operation, but the end of a background action, keeps the
\* invariant.
LEMMA OperationSteps ==
  ASSUME ControlInv, NEW op \in ConfigOps,
         \/ Request(op)
         \/ TailRuns(op)
         \/ Refuse(op)
         \/ ServerReads(op)
         \/ ServerWrites(op)
         \/ WriteRejected(op)
         \/ SecretWritten(op)
         \/ SecretRejected(op)
         \/ SecretVerified(op)
         \/ SecretMissing(op)
         \/ UndoEnv(op)
         \/ UndoConfig(op)
         \/ InstallStarts(op)
         \/ PollVerified(op)
         \/ PollGivesUp(op)
         \/ Reload(op)
  PROVE  ControlInv'
<1> USE DEF ControlInv, ControlTypes
<1>1. CASE Request(op)
  <2> USE <1>1 DEF Request, Locks, OnTail
  <2>1. ControlTypes'
    <3>1. opPc' \in [ConfigOps -> OpPhases]
      BY DEF OpPhases, Settled
    <3>2. writeTail' \in Seq(ConfigOps)
      OBVIOUS
    <3> QED BY <3>1, <3>2 DEF panelVars
  <2>2. QueuedOnTail' /\ TailExcludes'
    <3>1. QueuedOnTail'
      <4>1. CASE opPc' = [opPc EXCEPT ![op] = "refused"] /\ UNCHANGED writeTail
        BY <4>1, QueueMoves
      <4>2. CASE opPc' = [opPc EXCEPT ![op] = "running"] /\ UNCHANGED writeTail
        BY <4>2, QueueMoves
      <4>3. CASE opPc' = [opPc EXCEPT ![op] = "queued"] /\ writeTail' = Append(writeTail, op)
        <5> SUFFICES ASSUME NEW o \in ConfigOps, opPc'[o] = "queued"
                     PROVE  \E i \in 1 .. Len(writeTail') : writeTail'[i] = o
          BY DEF QueuedOnTail
        <5>1. o = op \/ \E i \in 1 .. Len(writeTail) : writeTail[i] = o
          BY <4>3 DEF QueuedOnTail
        <5> QED BY <4>3, <5>1, AppendStays
      <4> QED BY <4>1, <4>2, <4>3
    <3>2. TailExcludes'
      BY DEF TailExcludes, Exclusive
    <3> QED BY <3>1, <3>2
  <2>3. ReadIsFresh'
    BY DEF ReadIsFresh
  <2>4. Landed'
    BY DEF Landed
  <2>5. Disclosed'
    BY DEF Disclosed
  <2>6. FetchesNumbered' /\ AnswersList' /\ PanelLists'
    BY OpMoves
  <2> QED BY <2>1, <2>2, <2>3, <2>4, <2>5, <2>6
<1>2. CASE TailRuns(op)
  <2> USE <1>2 DEF TailRuns, Goes
  <2>1. ControlTypes'
    BY DEF OpPhases, Settled, panelVars
  <2>2. QueuedOnTail' /\ TailExcludes'
    <3>1. QueuedOnTail'
      BY DEF QueuedOnTail
    <3>2. TailExcludes'
      BY DEF QueuedOnTail, TailExcludes, Exclusive
    <3> QED BY <3>1, <3>2
  <2>3. ReadIsFresh'
    BY DEF ReadIsFresh
  <2>4. Landed'
    BY DEF Landed
  <2>5. Disclosed'
    BY DEF Disclosed
  <2>6. FetchesNumbered' /\ AnswersList' /\ PanelLists'
    BY OpMoves
  <2> QED BY <2>1, <2>2, <2>3, <2>4, <2>5, <2>6
<1>3. CASE Refuse(op)
  <2> USE <1>3 DEF Refuse, OpSettles, Settled
  <2>1. ControlTypes'
    BY DEF OpPhases, Settled, panelVars
  <2>2. QueuedOnTail' /\ TailExcludes'
    <3>1. QueuedOnTail'
      BY QueueMoves
    <3>2. TailExcludes'
      BY DEF TailExcludes, Exclusive
    <3> QED BY <3>1, <3>2
  <2>3. ReadIsFresh'
    BY DEF ReadIsFresh
  <2>4. Landed'
    BY DEF Landed
  <2>5. Disclosed'
    BY DEF Disclosed
  <2>6. FetchesNumbered' /\ AnswersList' /\ PanelLists'
    BY OpMoves
  <2> QED BY <2>1, <2>2, <2>3, <2>4, <2>5, <2>6
<1>4. CASE ServerReads(op)
  <2> USE <1>4 DEF ServerReads, Goes
  <2>1. ControlTypes'
    BY DEF OpPhases, Settled, panelVars
  <2>2. QueuedOnTail' /\ TailExcludes'
    <3>1. QueuedOnTail'
      BY DEF QueuedOnTail
    <3>2. TailExcludes'
      BY DEF TailExcludes, Exclusive
    <3> QED BY <3>1, <3>2
  <2>3. ReadIsFresh'
    BY DEF ReadIsFresh
  <2>4. Landed'
    BY DEF Landed
  <2>5. Disclosed'
    BY DEF Disclosed
  <2>6. FetchesNumbered' /\ AnswersList' /\ PanelLists'
    BY OpMoves
  <2> QED BY <2>1, <2>2, <2>3, <2>4, <2>5, <2>6
<1>5. CASE ServerWrites(op)
  <2> USE <1>5 DEF ServerWrites
  <2>1. ControlTypes'
    <3>1. opPc' \in [ConfigOps -> OpPhases]
      BY DEF OpPhases, Settled
    <3>2. writeTail' \in Seq(ConfigOps)
      BY DEF TailExcludes, Exclusive
    <3> QED BY <3>1, <3>2 DEF panelVars
  <2>2. QueuedOnTail' /\ TailExcludes'
    <3>1. QueuedOnTail'
      BY QueueMoves DEF TailExcludes, Exclusive
    <3>2. TailExcludes'
      BY DEF TailExcludes, Exclusive
    <3> QED BY <3>1, <3>2
  <2>3. ReadIsFresh'
    BY OneExclusive DEF Exclusive, ReadIsFresh
  <2>4. Landed'
    BY OneExclusive DEF Exclusive, ReadIsFresh, Landed
  <2>5. Disclosed'
    BY OneExclusive DEF Exclusive, ReadIsFresh, Disclosed
  <2>6. FetchesNumbered' /\ AnswersList' /\ PanelLists'
    BY OpMoves
  <2> QED BY <2>1, <2>2, <2>3, <2>4, <2>5, <2>6
<1>6. CASE WriteRejected(op)
  <2> USE <1>6 DEF WriteRejected, OpSettles
  <2>1. ControlTypes'
    BY DEF OpPhases, Settled, panelVars
  <2>2. QueuedOnTail' /\ TailExcludes'
    <3>1. QueuedOnTail'
      BY QueueMoves
    <3>2. TailExcludes'
      BY DEF TailExcludes, Exclusive
    <3> QED BY <3>1, <3>2
  <2>3. ReadIsFresh'
    BY OneExclusive DEF Exclusive, ReadIsFresh
  <2>4. Landed'
    BY OneExclusive DEF Exclusive, ReadIsFresh, Landed
  <2>5. Disclosed'
    <3>1. config' \subseteq config \cup {op}
      BY DEF ReadIsFresh
    <3>2. op \in written => FALSE
      BY DEF Disclosed
    <3> QED BY <3>1, <3>2 DEF Disclosed
  <2>6. FetchesNumbered' /\ AnswersList' /\ PanelLists'
    BY OpMoves
  <2> QED BY <2>1, <2>2, <2>3, <2>4, <2>5, <2>6
<1>7. CASE SecretWritten(op)
  <2> USE <1>7 DEF SecretWritten, Goes
  <2>1. ControlTypes'
    BY DEF OpPhases, Settled, panelVars
  <2>2. QueuedOnTail' /\ TailExcludes'
    <3>1. QueuedOnTail'
      BY DEF QueuedOnTail
    <3>2. TailExcludes'
      BY DEF TailExcludes, Exclusive
    <3> QED BY <3>1, <3>2
  <2>3. ReadIsFresh'
    BY DEF ReadIsFresh
  <2>4. Landed'
    BY DEF Landed
  <2>5. Disclosed'
    BY DEF Disclosed
  <2>6. FetchesNumbered' /\ AnswersList' /\ PanelLists'
    BY OpMoves
  <2> QED BY <2>1, <2>2, <2>3, <2>4, <2>5, <2>6
<1>8. CASE SecretRejected(op)
  <2> USE <1>8 DEF SecretRejected, Goes
  <2>1. ControlTypes'
    BY DEF OpPhases, Settled, panelVars
  <2>2. QueuedOnTail' /\ TailExcludes'
    <3>1. QueuedOnTail'
      BY DEF QueuedOnTail
    <3>2. TailExcludes'
      BY DEF TailExcludes, Exclusive
    <3> QED BY <3>1, <3>2
  <2>3. ReadIsFresh'
    BY DEF ReadIsFresh
  <2>4. Landed'
    BY DEF Landed
  <2>5. Disclosed'
    BY DEF Disclosed
  <2>6. FetchesNumbered' /\ AnswersList' /\ PanelLists'
    BY OpMoves
  <2> QED BY <2>1, <2>2, <2>3, <2>4, <2>5, <2>6
<1>9. CASE SecretVerified(op)
  <2> USE <1>9 DEF SecretVerified, Goes
  <2>1. ControlTypes'
    BY DEF OpPhases, Settled, panelVars
  <2>2. QueuedOnTail' /\ TailExcludes'
    <3>1. QueuedOnTail'
      BY DEF QueuedOnTail
    <3>2. TailExcludes'
      BY DEF TailExcludes, Exclusive
    <3> QED BY <3>1, <3>2
  <2>3. ReadIsFresh'
    BY DEF ReadIsFresh
  <2>4. Landed'
    BY DEF Landed
  <2>5. Disclosed'
    BY DEF Disclosed
  <2>6. FetchesNumbered' /\ AnswersList' /\ PanelLists'
    BY OpMoves
  <2> QED BY <2>1, <2>2, <2>3, <2>4, <2>5, <2>6
<1>10. CASE SecretMissing(op)
  <2> USE <1>10 DEF SecretMissing, Goes
  <2>1. ControlTypes'
    BY DEF OpPhases, Settled, panelVars
  <2>2. QueuedOnTail' /\ TailExcludes'
    <3>1. QueuedOnTail'
      BY DEF QueuedOnTail
    <3>2. TailExcludes'
      BY DEF TailExcludes, Exclusive
    <3> QED BY <3>1, <3>2
  <2>3. ReadIsFresh'
    BY DEF ReadIsFresh
  <2>4. Landed'
    BY DEF Landed
  <2>5. Disclosed'
    BY DEF Disclosed
  <2>6. FetchesNumbered' /\ AnswersList' /\ PanelLists'
    BY OpMoves
  <2> QED BY <2>1, <2>2, <2>3, <2>4, <2>5, <2>6
<1>11. CASE UndoEnv(op)
  <2> USE <1>11 DEF UndoEnv, Goes
  <2>1. ControlTypes'
    BY DEF OpPhases, Settled, panelVars
  <2>2. QueuedOnTail' /\ TailExcludes'
    <3>1. QueuedOnTail'
      BY DEF QueuedOnTail
    <3>2. TailExcludes'
      BY DEF TailExcludes, Exclusive
    <3> QED BY <3>1, <3>2
  <2>3. ReadIsFresh'
    BY DEF ReadIsFresh
  <2>4. Landed'
    BY DEF Landed
  <2>5. Disclosed'
    BY DEF Disclosed
  <2>6. FetchesNumbered' /\ AnswersList' /\ PanelLists'
    BY OpMoves
  <2> QED BY <2>1, <2>2, <2>3, <2>4, <2>5, <2>6
<1>12. CASE UndoConfig(op)
  <2> USE <1>12 DEF UndoConfig, OpSettles
  <2>1. ControlTypes'
    BY DEF OpPhases, Settled, panelVars
  <2>2. QueuedOnTail' /\ TailExcludes'
    <3>1. QueuedOnTail'
      BY QueueMoves
    <3>2. TailExcludes'
      BY DEF TailExcludes, Exclusive
    <3> QED BY <3>1, <3>2
  <2>3. ReadIsFresh'
    BY OneExclusive DEF Exclusive, ReadIsFresh
  <2>4. Landed'
    BY OneExclusive DEF Exclusive, ReadIsFresh, Landed
  <2>5. Disclosed'
    BY OneExclusive DEF Exclusive, ReadIsFresh, Disclosed
  <2>6. FetchesNumbered' /\ AnswersList' /\ PanelLists'
    BY OpMoves
  <2> QED BY <2>1, <2>2, <2>3, <2>4, <2>5, <2>6
<1>13. CASE InstallStarts(op)
  <2> USE <1>13 DEF InstallStarts, Goes
  <2>1. ControlTypes'
    BY DEF OpPhases, Settled, panelVars
  <2>2. QueuedOnTail' /\ TailExcludes'
    <3>1. QueuedOnTail'
      BY DEF QueuedOnTail
    <3>2. TailExcludes'
      BY DEF TailExcludes, Exclusive
    <3> QED BY <3>1, <3>2
  <2>3. ReadIsFresh'
    BY DEF ReadIsFresh
  <2>4. Landed'
    BY DEF Landed
  <2>5. Disclosed'
    BY DEF Disclosed
  <2>6. FetchesNumbered' /\ AnswersList' /\ PanelLists'
    BY OpMoves
  <2> QED BY <2>1, <2>2, <2>3, <2>4, <2>5, <2>6
<1>14. CASE PollVerified(op)
  <2> USE <1>14 DEF PollVerified, Goes
  <2>1. ControlTypes'
    BY DEF OpPhases, Settled, panelVars
  <2>2. QueuedOnTail' /\ TailExcludes'
    <3>1. QueuedOnTail'
      BY DEF QueuedOnTail
    <3>2. TailExcludes'
      BY DEF TailExcludes, Exclusive
    <3> QED BY <3>1, <3>2
  <2>3. ReadIsFresh'
    BY DEF ReadIsFresh
  <2>4. Landed'
    BY DEF Landed
  <2>5. Disclosed'
    BY DEF Disclosed
  <2>6. FetchesNumbered' /\ AnswersList' /\ PanelLists'
    BY OpMoves
  <2> QED BY <2>1, <2>2, <2>3, <2>4, <2>5, <2>6
<1>15. CASE PollGivesUp(op)
  <2> USE <1>15 DEF PollGivesUp, OpSettles
  <2>1. ControlTypes'
    BY DEF OpPhases, Settled, panelVars
  <2>2. QueuedOnTail' /\ TailExcludes'
    <3>1. QueuedOnTail'
      BY QueueMoves
    <3>2. TailExcludes'
      BY DEF TailExcludes, Exclusive
    <3> QED BY <3>1, <3>2
  <2>3. ReadIsFresh'
    BY DEF ReadIsFresh
  <2>4. Landed'
    BY DEF Landed
  <2>5. Disclosed'
    BY DEF Disclosed
  <2>6. FetchesNumbered' /\ AnswersList' /\ PanelLists'
    BY OpMoves
  <2> QED BY <2>1, <2>2, <2>3, <2>4, <2>5, <2>6
<1>16. CASE Reload(op)
  <2> USE <1>16 DEF Reload
  <2>1. ControlTypes'
    BY DEF OpPhases, Settled, panelVars
  <2>2. QueuedOnTail' /\ TailExcludes'
    <3>1. QueuedOnTail'
      BY DEF QueuedOnTail
    <3>2. TailExcludes'
      BY DEF TailExcludes, Exclusive
    <3> QED BY <3>1, <3>2
  <2>3. ReadIsFresh'
    BY DEF ReadIsFresh
  <2>4. Landed'
    BY DEF Landed
  <2>5. Disclosed'
    BY DEF Disclosed
  <2>6. FetchesNumbered' /\ AnswersList' /\ PanelLists'
    BY OpMoves
  <2> QED BY <2>1, <2>2, <2>3, <2>4, <2>5, <2>6
<1> QED BY <1>1, <1>2, <1>3, <1>4, <1>5, <1>6, <1>7, <1>8, <1>9, <1>10, <1>11, <1>12, <1>13, <1>14, <1>15, <1>16

\* A background action that ends can only add to what is installed.
LEMMA InstallSteps ==
  ASSUME ControlInv, NEW op \in ConfigOps, InstallEnds(op) PROVE ControlInv'
<1> USE DEF ControlInv, ControlTypes, InstallEnds, panelVars
<1>1. ControlTypes'
  OBVIOUS
<1>2. QueuedOnTail' /\ TailExcludes' /\ ReadIsFresh'
  BY DEF QueuedOnTail, TailExcludes, ReadIsFresh
<1>3. Landed' /\ Disclosed'
  BY DEF Landed, Disclosed
<1>4. FetchesNumbered' /\ AnswersList' /\ PanelLists'
  BY DEF FetchesNumbered, AnswersList, PanelLists, Due
<1> QED BY <1>1, <1>2, <1>3, <1>4

\* A step that leaves the operations alone keeps what is said of them alone.
LEMMA OpsKept ==
  ASSUME ControlInv, UNCHANGED opVars
  PROVE  QueuedOnTail' /\ TailExcludes' /\ ReadIsFresh' /\ Landed' /\ Disclosed'
<1> USE DEF ControlInv, opVars
<1>1. QueuedOnTail' /\ TailExcludes' /\ ReadIsFresh'
  BY DEF QueuedOnTail, TailExcludes, ReadIsFresh
<1>2. Landed' /\ Disclosed'
  BY DEF Landed, Disclosed
<1> QED BY <1>1, <1>2

\* A fetch that starts is the newest, and is owed by nobody but later ones.
LEMMA FetchStartSteps ==
  ASSUME ControlInv, NEW f \in Fetchers, FetchStarts(f) PROVE ControlInv'
<1> USE DEF ControlInv, ControlTypes, FetchStarts, NoFetch
<1>1. ControlTypes'
  <2>1. [phase |-> "started", seq |-> fetchSeq + 1, data |-> {}] \in Fetches
    BY DEF Fetches
  <2>2. fetch' \in [Fetchers -> Fetches] /\ fetchSeq' \in Nat
    BY <2>1
  <2>3. pushed' \in [shown : SUBSET ConfigOps, failed : BOOLEAN]
    OBVIOUS
  <2> QED BY <2>2, <2>3 DEF opVars
<1>2. QueuedOnTail' /\ TailExcludes' /\ ReadIsFresh' /\ Landed' /\ Disclosed'
  BY OpsKept
<1>3. FetchesNumbered'
  <2>1. ASSUME NEW op \in ConfigOps PROVE (fetch[op].phase # "none" => opPc[op] \in {"push", "diverged"})'
    <3>1. CASE op = f
      BY <3>1, ControlOpsAssumption DEF opVars, Fetchers
    <3>2. CASE op # f
      BY <3>2 DEF opVars, FetchesNumbered, Fetchers
    <3> QED BY <3>1, <3>2
  <2>2. ASSUME NEW g \in Fetchers
        PROVE (fetch[g].seq <= fetchSeq /\ (fetch[g].phase = "none" => fetch[g] = NoFetch))'
    <3>1. fetch[g].seq \in Nat
      BY DEF Fetches
    <3> QED BY <3>1 DEF FetchesNumbered
  <2> QED BY <2>1, <2>2 DEF FetchesNumbered
<1>4. AnswersList'
  <2> SUFFICES ASSUME NEW g \in Fetchers, NEW op \in ConfigOps,
                      fetch'[g].phase = "read", Due(op, fetch[g].seq)'
               PROVE  op \in fetch'[g].data
    BY DEF AnswersList
  <2>1. g # f /\ fetch'[g] = fetch[g]
    OBVIOUS
  <2>2. fetch[g].seq \in Nat /\ fetch[g].seq <= fetchSeq
    BY DEF Fetches, FetchesNumbered
  <2>3. opPc[op] = "push" /\ fetch'[op].phase # "none" /\ fetch'[op].seq <= fetch[g].seq
    BY <2>1, <2>2 DEF Due, opVars
  <2>4. op # f
    BY <2>2, <2>3
  <2>5. Due(op, fetch[g].seq)
    BY <2>3, <2>4 DEF Due, Fetchers
  <2> QED BY <2>1, <2>5 DEF AnswersList
<1>5. PanelLists'
  BY DEF PanelLists
<1> QED BY <1>1, <1>2, <1>3, <1>4, <1>5

\* What an answer reads holds every operation that is owed.
LEMMA FetchReadSteps ==
  ASSUME ControlInv, NEW f \in Fetchers, FetchReads(f) PROVE ControlInv'
<1> USE DEF ControlInv, ControlTypes, FetchReads
<1>0. fetch[f] \in Fetches
  OBVIOUS
<1>1. fetch' = [fetch EXCEPT ![f] = [phase |-> "read", seq |-> fetch[f].seq,
                                    data |-> config \cup installed]]
  OBVIOUS
<1>2. ControlTypes'
  <2>1. [phase |-> "read", seq |-> fetch[f].seq, data |-> config \cup installed] \in Fetches
    BY <1>0 DEF Fetches
  <2> QED BY <1>1, <2>1 DEF opVars
<1>3. QueuedOnTail' /\ TailExcludes' /\ ReadIsFresh' /\ Landed' /\ Disclosed'
  BY OpsKept
<1>4. FetchesNumbered'
  BY <1>1 DEF FetchesNumbered, opVars, Fetchers, NoFetch
<1>5. ASSUME NEW op \in ConfigOps, NEW s, Due(op, s)' PROVE Due(op, s)
  BY <1>1, <1>5 DEF Due, opVars, Fetchers
<1>6. AnswersList'
  <2> SUFFICES ASSUME NEW g \in Fetchers, NEW op \in ConfigOps,
                      fetch'[g].phase = "read", Due(op, fetch[g].seq)'
               PROVE  op \in fetch'[g].data
    BY DEF AnswersList
  <2>1. Due(op, fetch'[g].seq)
    BY <1>5
  <2>2. CASE g = f
    BY <1>1, <2>1, <2>2 DEF Due, Landed
  <2>3. CASE g # f
    BY <1>1, <2>1, <2>3 DEF AnswersList
  <2> QED BY <2>2, <2>3
<1>7. PanelLists'
  <2> SUFFICES ASSUME ~ pushed'.failed,
                      \A g \in Fetchers : fetch'[g].phase = "none" \/ fetch'[g].seq # fetchSeq',
                      NEW op \in ConfigOps, Due(op, fetchSeq)'
               PROVE  op \in pushed'.shown
    BY DEF PanelLists
  <2>1. \A g \in Fetchers : fetch[g].phase = "none" \/ fetch[g].seq # fetchSeq
    <3> TAKE g \in Fetchers
    <3>1. CASE g = f
      BY <1>1, <3>1
    <3>2. CASE g # f
      BY <1>1, <3>2
    <3> QED BY <3>1, <3>2
  <2>2. Due(op, fetchSeq)
    BY <1>5
  <2> QED BY <2>1, <2>2 DEF PanelLists
<1> QED BY <1>2, <1>3, <1>4, <1>6, <1>7

\* A fetch that has ended, well or badly: the operation that pushed settles with
\* it.  What it then owes, it owed by its fetch before.
LEMMA EndedOwes ==
  ASSUME ControlInv, NEW f \in Fetchers, NEW ok \in BOOLEAN, Pushes(f, ok),
         fetch[f].phase # "none", fetch' = [fetch EXCEPT ![f] = NoFetch],
         NEW op \in ConfigOps
  PROVE  /\ opPc'[op] = "ok" =>
              \/ opPc[op] = "ok"
              \/ opPc[op] = "push" /\ fetch[op].phase # "none" /\ fetch[op].seq <= fetchSeq
         /\ opPc'[op] = "push" /\ fetch'[op].phase # "none" =>
              opPc[op] = "push" /\ fetch'[op] = fetch[op]
<1> USE DEF ControlInv, ControlTypes, Pushes, NoFetch
<1>1. CASE op = f
  <2>1. fetch'[op].phase = "none"
    BY <1>1 DEF Fetchers
  <2>2. opPc'[op] = "ok" => opPc[op] = "push"
    BY <1>1 DEF OpSettles
  <2>3. fetch[op].seq <= fetchSeq
    BY DEF FetchesNumbered, Fetchers
  <2> QED BY <1>1, <2>1, <2>2, <2>3
<1>2. CASE op # f
  BY <1>2 DEF OpSettles, opVars, Fetchers
<1> QED BY <1>1, <1>2

LEMMA FetchEndSteps ==
  ASSUME ControlInv, NEW f \in Fetchers, FetchEnds(f) \/ FetchFails(f) PROVE ControlInv'
<1> USE DEF ControlInv, ControlTypes
<1>0. PICK ok \in BOOLEAN :
        /\ fetch[f].phase # "none" /\ Pushes(f, ok) /\ UNCHANGED fetchSeq
        /\ fetch' = [fetch EXCEPT ![f] = NoFetch]
        /\ \/ /\ ok = TRUE /\ fetch[f].phase = "read"
              /\ pushed' = IF fetch[f].seq = fetchSeq
                           THEN [pushed EXCEPT !.shown = fetch[f].data] ELSE pushed
           \/ /\ ok = FALSE
              /\ pushed' = IF fetch[f].seq = fetchSeq
                           THEN [pushed EXCEPT !.failed = TRUE] ELSE pushed
  <2>1. CASE FetchEnds(f)
    BY <2>1 DEF FetchEnds
  <2>2. CASE FetchFails(f)
    BY <2>2 DEF FetchFails
  <2> QED BY <2>1, <2>2
<1>1. fetch[f] \in Fetches /\ NoFetch \in Fetches
  BY DEF Fetches, NoFetch
<1>2. f \in ConfigOps => opPc[f] \in {"push", "diverged"}
  BY <1>0 DEF FetchesNumbered
<1>3. ControlTypes'
  <2>1. fetch' \in [Fetchers -> Fetches] /\ fetchSeq' \in Nat
    BY <1>0, <1>1
  <2>2. pushed' \in [shown : SUBSET ConfigOps, failed : BOOLEAN]
    BY <1>0, <1>1 DEF Fetches
  <2>3. CASE f \in ConfigOps
    BY <1>0, <2>1, <2>2, <2>3 DEF Pushes, OpSettles, OpPhases, Settled
  <2>4. CASE f \notin ConfigOps
    BY <1>0, <2>1, <2>2, <2>4 DEF Pushes, opVars
  <2> QED BY <2>3, <2>4
<1>4. QueuedOnTail' /\ TailExcludes' /\ ReadIsFresh' /\ Landed' /\ Disclosed'
  <2>1. CASE f \in ConfigOps
    <3> USE <2>1, <1>0, <1>2 DEF Pushes, OpSettles
    <3>1. QueuedOnTail'
      <4> DEFINE x == IF opPc[f] = "push" /\ (ok \/ OpKind[f] = "toggle") THEN "ok" ELSE "failed"
      <4>1. x # "queued" /\ opPc' = [opPc EXCEPT ![f] = x]
        OBVIOUS
      <4> QED BY <4>1, QueueMoves
    <3>2. TailExcludes'
      BY DEF TailExcludes, Exclusive
    <3>3. ReadIsFresh' /\ Landed' /\ Disclosed'
      BY DEF ReadIsFresh, Landed, Disclosed
    <3> QED BY <3>1, <3>2, <3>3
  <2>2. CASE f \notin ConfigOps
    BY <2>2, <1>0, OpsKept DEF Pushes
  <2> QED BY <2>1, <2>2
<1>5. FetchesNumbered'
  <2>1. ASSUME NEW op \in ConfigOps, fetch'[op].phase # "none"
        PROVE opPc'[op] \in {"push", "diverged"}
    <3>1. op # f /\ fetch'[op] = fetch[op]
      BY <1>0, <2>1 DEF Fetchers, NoFetch
    <3>2. opPc'[op] = opPc[op]
      BY <1>0, <3>1 DEF Pushes, OpSettles, opVars
    <3> QED BY <2>1, <3>1, <3>2 DEF FetchesNumbered
  <2>2. ASSUME NEW g \in Fetchers
        PROVE (fetch[g].seq <= fetchSeq /\ (fetch[g].phase = "none" => fetch[g] = NoFetch))'
    BY <1>0 DEF FetchesNumbered, NoFetch
  <2> QED BY <2>1, <2>2 DEF FetchesNumbered
<1>6. AnswersList'
  <2> SUFFICES ASSUME NEW g \in Fetchers, NEW op \in ConfigOps,
                      fetch'[g].phase = "read", Due(op, fetch[g].seq)'
               PROVE  op \in fetch'[g].data
    BY DEF AnswersList
  <2>1. g # f /\ fetch'[g] = fetch[g]
    BY <1>0 DEF NoFetch
  <2>2. fetch[g].seq \in Nat /\ fetch[g].seq <= fetchSeq
    BY DEF Fetches, FetchesNumbered
  <2>3. Due(op, fetch[g].seq)
    BY <1>0, <2>1, <2>2, EndedOwes DEF Due
  <2> QED BY <2>1, <2>3 DEF AnswersList
<1>7. PanelLists'
  <2> SUFFICES ASSUME ~ pushed'.failed,
                      \A g \in Fetchers : fetch'[g].phase = "none" \/ fetch'[g].seq # fetchSeq',
                      NEW op \in ConfigOps, Due(op, fetchSeq)'
               PROVE  op \in pushed'.shown
    BY DEF PanelLists
  <2>1. Due(op, fetchSeq)
    BY <1>0, EndedOwes DEF Due
  <2>2. CASE fetch[f].seq = fetchSeq
    <3>1. fetch[f].phase = "read" /\ pushed' = [pushed EXCEPT !.shown = fetch[f].data]
      BY <1>0, <2>2
    <3> QED BY <2>1, <2>2, <3>1 DEF AnswersList
  <2>3. CASE fetch[f].seq # fetchSeq
    <3>1. pushed' = pushed
      BY <1>0, <2>3
    <3>2. \A g \in Fetchers : fetch[g].phase = "none" \/ fetch[g].seq # fetchSeq
      BY <1>0, <2>3
    <3> QED BY <2>1, <3>1, <3>2 DEF PanelLists
  <2> QED BY <2>2, <2>3
<1> QED BY <1>3, <1>4, <1>5, <1>6, <1>7

LEMMA ControlStep == ControlInv /\ [ControlOpsNext]_controlVars => ControlInv'
<1> SUFFICES ASSUME ControlInv, [ControlOpsNext]_controlVars PROVE ControlInv'
  OBVIOUS
<1>1. CASE ControlOpsNext
  BY <1>1, OperationSteps, InstallSteps, FetchStartSteps, FetchReadSteps, FetchEndSteps
     DEF ControlOpsNext
<1>2. CASE UNCHANGED controlVars
  <2> USE <1>2 DEF controlVars, opVars, panelVars, ControlInv
  <2>1. QueuedOnTail' /\ TailExcludes' /\ ReadIsFresh' /\ Landed' /\ Disclosed'
    BY OpsKept
  <2>2. ControlTypes' /\ FetchesNumbered'
    BY DEF ControlTypes, FetchesNumbered
  <2>3. AnswersList' /\ PanelLists'
    BY DEF AnswersList, PanelLists, Due
  <2> QED BY <2>1, <2>2, <2>3
<1> QED BY <1>1, <1>2

\* The panel shows every write that was reported as done once its newest fetch
\* has ended well, and an add that was rolled back left nothing that it did not
\* name (configWriteTail.ts:1-23, panelDataCoordinator.ts:30-40,
\* mcpAdminHandler.ts:333-379).
THEOREM WritesAreShown == Spec => []WritesShown
<1>1. Init => ControlInv
  BY ControlStarts DEF Init
<1>2. ControlInv /\ [Next]_vars => ControlInv'
  <2> SUFFICES ASSUME ControlInv, [Next]_vars PROVE ControlInv'
    OBVIOUS
  <2>1. [ControlOpsNext]_controlVars
    BY ControlSteps DEF vars
  <2> QED BY <2>1, ControlStep
<1>3. ControlInv => WritesShown
  <2> SUFFICES ASSUME ControlInv PROVE PanelReflectsWrites /\ AddUndoneOrDisclosed
    BY DEF WritesShown
  <2>1. PanelReflectsWrites
    BY DEF ControlInv, PanelLists, PanelReflectsWrites, Due, NoFetch
  <2>2. AddUndoneOrDisclosed
    BY DEF ControlInv, Disclosed, AddUndoneOrDisclosed
  <2> QED BY <2>1, <2>2
<1> QED BY <1>1, <1>2, <1>3, PTL DEF Spec
-------------------------------------------------------------------------------
\* The downloads.

LEMMA ProvisionSteps == Next => [ProvisionNext]_provisionVars
<1> SUFFICES ASSUME Next, ~ UNCHANGED provisionVars PROVE ProvisionNext
  OBVIOUS
<1> QED BY DEF Next, Only

\* While the gate is open a handler that runs holds the latch, and no two run.
PullsLatched ==
  /\ \A r \in Routes : provisionOpen /\ pullAt[r] # "idle" => PullKey(r) \in pullLatches
  /\ \A q, r \in Routes : pullAt[q] # "idle" /\ pullAt[r] # "idle" => q = r

\* Of a route that is idle the webview shows no progress, or will be told so by
\* the timer.
DoneIsLast ==
  provisionOpen => \A r \in Routes : pullAt[r] = "idle" =>
    IF throttle[r].timer THEN throttle[r].pending = "done" ELSE ~ bar[r]

ProvisionInv == ProvisionTypeOK /\ PullsLatched /\ DoneIsLast

LEMMA ProvisionStarts == ProvisionInit => ProvisionInv
<1> SUFFICES ASSUME ProvisionInit PROVE ProvisionInv
  OBVIOUS
<1> USE DEF ProvisionInit, NoThrottle
<1>1. ProvisionTypeOK
  BY DEF ProvisionTypeOK
<1>2. PullsLatched /\ DoneIsLast
  BY DEF PullsLatched, DoneIsLast
<1> QED BY <1>1, <1>2 DEF ProvisionInv

\* What pushProgress does to the route it is about, and that it does nothing to
\* the other.
LEMMA ProgressPushed ==
  ASSUME ProvisionTypeOK, NEW r \in Routes, NEW p \in {"tick", "done"}, PushProgress(r, p)
  PROVE  /\ throttle' \in [Routes -> [recent : BOOLEAN, timer : BOOLEAN,
                                      pending : {"none", "tick", "done"}]]
         /\ bar' \in [Routes -> BOOLEAN]
         /\ \A q \in Routes : q # r => throttle'[q] = throttle[q] /\ bar'[q] = bar[q]
         /\ provisionOpen => IF throttle'[r].timer THEN throttle'[r].pending = p
                                                   ELSE bar'[r] = (p = "tick")
<1> USE DEF ProvisionTypeOK, PushProgress, Fired
<1>1. CASE ~ provisionOpen
  BY <1>1
<1>2. CASE provisionOpen /\ throttle[r].recent
  <2>1. throttle' = [throttle EXCEPT ![r] = [recent |-> throttle[r].recent, timer |-> TRUE, pending |-> p]]
    BY <1>2
  <2> QED BY <1>2, <2>1
<1>3. CASE provisionOpen /\ ~ throttle[r].recent
  <2>1. throttle' = [throttle EXCEPT ![r] = [recent |-> TRUE, timer |-> FALSE, pending |-> "none"]]
    BY <1>3
  <2> QED BY <1>3, <2>1
<1> QED BY <1>1, <1>2, <1>3

\* A handler that moves on, and one that is released.
LEMMA PullMovesOn ==
  ASSUME ProvisionInv, NEW r \in Routes, NEW from, from # "idle",
         NEW to \in {"modal", "reassert", "download", "placing", "recording"},
         PullMoves(r, from, to),
         toStore' \in BOOLEAN, placed' \in BOOLEAN, attested' \in BOOLEAN
  PROVE  ProvisionInv'
<1> USE DEF ProvisionInv, PullMoves
<1>1. ProvisionTypeOK'
  BY DEF ProvisionTypeOK, PullKey
<1>2. PullsLatched' /\ DoneIsLast'
  BY DEF PullsLatched, DoneIsLast, ProvisionTypeOK
<1> QED BY <1>1, <1>2

LEMMA PullEnds ==
  ASSUME ProvisionInv, NEW r \in Routes, pullAt[r] # "idle", PullReleased(r),
         placed' \in BOOLEAN, attested' \in BOOLEAN
  PROVE  ProvisionInv'
<1> USE DEF ProvisionInv, PullReleased
<1>1. /\ throttle' \in [Routes -> [recent : BOOLEAN, timer : BOOLEAN,
                                   pending : {"none", "tick", "done"}]]
      /\ bar' \in [Routes -> BOOLEAN]
      /\ \A q \in Routes : q # r => throttle'[q] = throttle[q] /\ bar'[q] = bar[q]
      /\ provisionOpen => IF throttle'[r].timer THEN throttle'[r].pending = "done" ELSE ~ bar'[r]
  BY ProgressPushed
<1>2. \A q \in Routes : pullAt'[q] = "idle"
  BY DEF PullsLatched, ProvisionTypeOK
<1>3. ProvisionTypeOK'
  <2>1. pullLatches' = {}
    BY DEF ProvisionTypeOK, PullKey
  <2> QED BY <1>1, <2>1 DEF ProvisionTypeOK
<1>4. PullsLatched'
  BY <1>2 DEF PullsLatched
<1>5. DoneIsLast'
  <2> SUFFICES ASSUME provisionOpen, NEW q \in Routes
               PROVE  IF throttle'[q].timer THEN throttle'[q].pending = "done" ELSE ~ bar'[q]
    BY DEF DoneIsLast
  <2>1. CASE q = r
    BY <1>1, <2>1
  <2>2. CASE q # r
    BY <1>1, <2>2 DEF DoneIsLast, PullsLatched
  <2> QED BY <2>1, <2>2
<1> QED BY <1>3, <1>4, <1>5

LEMMA ProvisionStep == ProvisionInv /\ [ProvisionNext]_provisionVars => ProvisionInv'
<1> SUFFICES ASSUME ProvisionInv, [ProvisionNext]_provisionVars PROVE ProvisionInv'
  OBVIOUS
<1>0. toStore \in BOOLEAN /\ placed \in BOOLEAN /\ attested \in BOOLEAN
  BY DEF ProvisionInv, ProvisionTypeOK
<1>1. ASSUME NEW r \in Routes, PullRequested(r) PROVE ProvisionInv'
  <2> USE <1>1 DEF PullRequested, ProvisionInv
  <2>1. toStore' \in BOOLEAN
    BY <1>0
  <2>2. ProvisionTypeOK'
    BY <2>1 DEF ProvisionTypeOK, PullKey
  <2>3. PullsLatched' /\ DoneIsLast'
    BY DEF PullsLatched, DoneIsLast, ProvisionTypeOK, PullKey
  <2> QED BY <2>2, <2>3
<1>2. ASSUME NEW r \in Routes, PullAsks(r) \/ DestinationHolds(r) \/ FileVerified(r)
      PROVE  ProvisionInv'
  BY <1>0, <1>2, PullMovesOn DEF PullAsks, DestinationHolds, FileVerified, storeVars
<1>3. ASSUME NEW r \in Routes, PullConfirmed(r) PROVE ProvisionInv'
  <2>1. PICK to \in {"reassert", "download"} : PullMoves(r, "modal", to)
    BY <1>3 DEF PullConfirmed
  <2> QED BY <1>0, <1>3, <2>1, PullMovesOn DEF PullConfirmed, storeVars
<1>4. ASSUME NEW r \in Routes, Placed(r) PROVE ProvisionInv'
  BY <1>0, <1>4, PullMovesOn DEF Placed
<1>5. ASSUME NEW r \in Routes, PullFails(r) \/ OllamaPulled(r) \/ Recorded(r)
      PROVE  ProvisionInv'
  BY <1>0, <1>5, PullEnds DEF PullFails, OllamaPulled, Recorded
<1>6. ASSUME NEW r \in Routes, PullTicks(r) PROVE ProvisionInv'
  <2> USE <1>6 DEF PullTicks, pullVars, storeVars, ProvisionInv
  <2>1. /\ throttle' \in [Routes -> [recent : BOOLEAN, timer : BOOLEAN,
                                     pending : {"none", "tick", "done"}]]
        /\ bar' \in [Routes -> BOOLEAN]
        /\ \A q \in Routes : q # r => throttle'[q] = throttle[q] /\ bar'[q] = bar[q]
    BY ProgressPushed
  <2>2. ProvisionTypeOK' /\ PullsLatched'
    BY <2>1 DEF ProvisionTypeOK, PullsLatched
  <2>3. DoneIsLast'
    BY <2>1 DEF DoneIsLast
  <2> QED BY <2>2, <2>3
<1>7. ASSUME NEW r \in Routes, CancelPull(r) PROVE ProvisionInv'
  BY <1>7 DEF CancelPull, storeVars, ProvisionInv, ProvisionTypeOK, PullsLatched, DoneIsLast
<1>8. ASSUME NEW r \in Routes, WindowPasses(r) PROVE ProvisionInv'
  <2> USE <1>8 DEF WindowPasses, pullVars, storeVars, ProvisionInv
  <2>1. \A q \in Routes : throttle'[q].timer = throttle[q].timer
                            /\ throttle'[q].pending = throttle[q].pending
    BY DEF ProvisionTypeOK
  <2>2. throttle' \in [Routes -> [recent : BOOLEAN, timer : BOOLEAN,
                                 pending : {"none", "tick", "done"}]]
    BY DEF ProvisionTypeOK
  <2>3. ProvisionTypeOK' /\ PullsLatched'
    BY <2>2 DEF ProvisionTypeOK, PullsLatched
  <2>4. DoneIsLast'
    BY <2>1 DEF DoneIsLast, ProvisionTypeOK
  <2> QED BY <2>3, <2>4
<1>9. ASSUME NEW r \in Routes, ThrottleFires(r) PROVE ProvisionInv'
  <2> USE <1>9 DEF ThrottleFires, Fired, pullVars, storeVars, ProvisionInv
  <2>1. throttle' = [throttle EXCEPT ![r] = [recent |-> TRUE, timer |-> FALSE, pending |-> "none"]]
    OBVIOUS
  <2>2. ProvisionTypeOK' /\ PullsLatched'
    <3>1. throttle' \in [Routes -> [recent : BOOLEAN, timer : BOOLEAN,
                                   pending : {"none", "tick", "done"}]]
      BY <2>1 DEF ProvisionTypeOK
    <3>2. bar' \in [Routes -> BOOLEAN]
      BY DEF ProvisionTypeOK
    <3> QED BY <3>1, <3>2 DEF ProvisionTypeOK, PullsLatched
  <2>3. DoneIsLast'
    BY <2>1 DEF DoneIsLast, ProvisionTypeOK
  <2> QED BY <2>2, <2>3
<1>10. CASE ProvisionDispose
  BY <1>10 DEF ProvisionDispose, NoThrottle, storeVars, ProvisionInv, ProvisionTypeOK,
               PullsLatched, DoneIsLast
<1>11. CASE UNCHANGED provisionVars
  BY <1>11 DEF provisionVars, ProvisionInv, ProvisionTypeOK, PullsLatched, DoneIsLast
<1> QED BY <1>1, <1>2, <1>3, <1>4, <1>5, <1>6, <1>7, <1>8, <1>9, <1>10, <1>11
        DEF ProvisionNext
-------------------------------------------------------------------------------
\* The card of the agent.

LEMMA SetupSteps == Next => [SetupNext]_setupVars
<1> SUFFICES ASSUME Next, ~ UNCHANGED setupVars PROVE SetupNext
  OBVIOUS
<1> QED BY DEF Next, Only

\* A push that nothing has overtaken.
Coming == \E s \in StatusSlots \ {0} : fetches[s].on /\ fetches[s].newest

\* It carries the path as it is, and there is one.
ReadsThePath ==
  \A s \in StatusSlots \ {0} :
    fetches[s].on /\ fetches[s].newest => fetches[s].path = agent.path

\* When no handler runs and no push is coming, the card that a push painted is
\* what status() would say.
PaintedIsSo ==
  setupOpen /\ setupHeld = {} /\ ~ Coming /\ panel.by = "push"
    => panel.phase = AgentPhase(agent.path)

\* While the gate is open a search in flight is the one of the current epoch.
SearchLives ==
  setupOpen => /\ memo.inFlight <=> memo.live
               /\ memo.live => memo.value = "unsettled"

\* A push of an agent without a path has the search under way or settled; only a
\* recheck takes its result back, and pushes at its end.
SearchIsDue ==
  setupOpen /\ "recheck" \notin setupHeld /\ ~ agent.path /\ memo.value = "unsettled" /\ ~ memo.live
    => panel.by # "push" /\ ~ Coming

SetupInv == SetupTypeOK /\ ReadsThePath /\ PaintedIsSo /\ SearchLives /\ SearchIsDue

Statuses == [newest : BOOLEAN, path : BOOLEAN, on : BOOLEAN]
Memos == [value : {"unsettled", "found", "missing"}, inFlight : BOOLEAN, live : BOOLEAN]

\* A memo whose search in flight is the one of the current epoch.
Live(m) == (m.inFlight <=> m.live) /\ (m.live => m.value = "unsettled")

LEMMA SetupStarts == SetupInit => SetupInv
<1> SUFFICES ASSUME SetupInit PROVE SetupInv
  OBVIOUS
<1> USE SetupAssumption DEF SetupInit, NoMemo, NoStatus, StatusSlots
<1>1. SetupTypeOK
  <2>1. memo \in Memos
    BY DEF Memos
  <2>2. fetches \in [StatusSlots -> Statuses]
    BY DEF Statuses
  <2>3. agent \in [path : BOOLEAN, issue : BOOLEAN, reload : BOOLEAN]
    OBVIOUS
  <2>4. panel \in [by : {"none", "push", "fetch", "failed"}, phase : AgentPhases]
    BY DEF AgentPhases
  <2> QED BY <2>1, <2>2, <2>3, <2>4 DEF SetupTypeOK, Memos, Statuses
<1>2. ~ Coming
  BY DEF Coming
<1>3. ReadsThePath /\ PaintedIsSo /\ SearchLives /\ SearchIsDue
  BY <1>2 DEF ReadsThePath, PaintedIsSo, SearchLives, SearchIsDue
<1> QED BY <1>1, <1>3 DEF SetupInv

\* The search is kicked where it is needed, and only there.
LEMMA Kicked ==
  ASSUME NEW m \in Memos, NEW path \in BOOLEAN
  PROVE  /\ KickOn(m, path) \in Memos /\ KickOn(m, path).value = m.value
         /\ Live(m) => Live(KickOn(m, path))
         /\ Live(m) /\ ~ path /\ m.value = "unsettled" => KickOn(m, path).live
         /\ m.live => KickOn(m, path).live
<1> USE DEF KickOn, Kick, Live, Memos
<1>1. CASE path \/ m.value # "unsettled" \/ m.inFlight
  <2>1. KickOn(m, path) = m
    BY <1>1
  <2> QED BY <1>1, <2>1
<1>2. CASE ~ path /\ m.value = "unsettled" /\ ~ m.inFlight
  <2>1. KickOn(m, path) = [m EXCEPT !.inFlight = TRUE, !.live = TRUE]
    BY <1>2
  <2>2. /\ KickOn(m, path).inFlight = TRUE /\ KickOn(m, path).live = TRUE
        /\ KickOn(m, path).value = m.value
    BY <2>1
  <2>3. KickOn(m, path) \in Memos
    BY <2>1
  <2> QED BY <1>2, <2>2, <2>3
<1> QED BY <1>1, <1>2

\* A push is the newest, reads the path at its head, and kicks the search.
LEMMA Pushed ==
  ASSUME fetches \in [StatusSlots -> Statuses], NEW m, NEW path \in BOOLEAN, SetupPush(m, path)
  PROVE  /\ fetches' \in [StatusSlots -> Statuses] /\ Coming'
         /\ \A s \in StatusSlots \ {0} :
              fetches'[s].on /\ fetches'[s].newest => fetches'[s].path = path
         /\ memo' = KickOn(m, path)
<1>1. PICK s \in StatusSlots \ {0} :
        /\ ~ fetches[s].on /\ memo' = KickOn(m, path)
        /\ fetches' = [t \in StatusSlots |->
                        IF t = s THEN [newest |-> TRUE, path |-> path, on |-> TRUE]
                        ELSE IF t = 0 THEN fetches[t]
                        ELSE [NoStatus EXCEPT !.on = fetches[t].on]]
  BY DEF SetupPush
<1>2. ASSUME NEW t \in StatusSlots
      PROVE  /\ [NoStatus EXCEPT !.on = fetches[t].on] \in Statuses
             /\ ~ [NoStatus EXCEPT !.on = fetches[t].on].newest
  <2>1. fetches[t].on \in BOOLEAN
    BY DEF Statuses
  <2> QED BY <2>1 DEF Statuses, NoStatus
<1>3. [newest |-> TRUE, path |-> path, on |-> TRUE] \in Statuses
  BY DEF Statuses
<1>4. fetches' \in [StatusSlots -> Statuses]
  BY <1>1, <1>2, <1>3
<1>5. fetches'[s] = [newest |-> TRUE, path |-> path, on |-> TRUE]
  BY <1>1
<1>6. ASSUME NEW t \in StatusSlots \ {0}, t # s PROVE ~ fetches'[t].newest
  BY <1>1, <1>2, <1>6
<1>7. Coming'
  BY <1>5 DEF Coming
<1> QED BY <1>1, <1>4, <1>5, <1>6, <1>7

\* What a push settles: nothing of the card is owed but the push itself.
LEMMA AfterPush ==
  ASSUME SetupTypeOK, SearchLives, NEW m \in Memos, NEW path \in BOOLEAN,
         SetupPush(m, path), agent'.path = path, setupOpen' = setupOpen,
         setupOpen => Live(m)
  PROVE  /\ ReadsThePath' /\ PaintedIsSo' /\ SearchLives' /\ SearchIsDue'
         /\ fetches' \in [StatusSlots -> Statuses] /\ memo' \in Memos
<1>1. /\ fetches' \in [StatusSlots -> Statuses] /\ Coming'
      /\ \A s \in StatusSlots \ {0} :
           fetches'[s].on /\ fetches'[s].newest => fetches'[s].path = path
      /\ memo' = KickOn(m, path)
  BY Pushed DEF SetupTypeOK, Statuses
<1>2. ReadsThePath' /\ PaintedIsSo'
  BY <1>1 DEF ReadsThePath, PaintedIsSo
<1>3. memo' \in Memos
  BY <1>1, Kicked
<1>4. SearchLives'
  BY <1>1, Kicked DEF SearchLives, Live
<1>5. SearchIsDue'
  BY <1>1, Kicked DEF SearchIsDue
<1> QED BY <1>1, <1>2, <1>3, <1>4, <1>5
Agents == [path : BOOLEAN, issue : BOOLEAN, reload : BOOLEAN]

\* A bump is a push while the gate is open, and nothing afterwards.
LEMMA AfterBump ==
  ASSUME SetupTypeOK, SearchLives, ReadsThePath, NEW m \in Memos,
         Bump(m, agent.path), agent'.path = agent.path, setupOpen' = setupOpen,
         setupOpen => Live(m)
  PROVE  /\ ReadsThePath' /\ PaintedIsSo' /\ SearchLives' /\ SearchIsDue'
         /\ fetches' \in [StatusSlots -> Statuses] /\ memo' \in Memos
<1>1. CASE setupOpen
  <2>1. SetupPush(m, agent.path) /\ agent.path \in BOOLEAN
    BY <1>1 DEF Bump, SetupTypeOK
  <2> QED BY <2>1, AfterPush
<1>2. CASE ~ setupOpen
  <2>1. UNCHANGED fetches /\ memo' = m
    BY <1>2 DEF Bump
  <2>2. ReadsThePath'
    BY <2>1 DEF ReadsThePath
  <2>3. PaintedIsSo' /\ SearchLives' /\ SearchIsDue'
    BY <1>2 DEF PaintedIsSo, SearchLives, SearchIsDue
  <2> QED BY <2>1, <2>2, <2>3 DEF SetupTypeOK, Statuses
<1> QED BY <1>1, <1>2

\* The types, taken apart.
LEMMA SetupParts ==
  ASSUME SetupTypeOK
  PROVE  /\ setupOpen \in BOOLEAN /\ rechecking \in BOOLEAN
         /\ setupHeld \subseteq {"install", "recheck"}
         /\ setupAborted \subseteq {"install", "recheck"}
         /\ installAt \in {"idle", "modal", "locating", "installing", "writing"}
         /\ agent \in Agents /\ memo \in Memos /\ fetches \in [StatusSlots -> Statuses]
         /\ panel \in [by : {"none", "push", "fetch", "failed"}, phase : AgentPhases]
         /\ setupOpen => (("install" \in setupHeld) <=> (installAt # "idle"))
         /\ setupOpen => (("recheck" \in setupHeld) <=> rechecking)
         /\ setupOpen \/ setupHeld = {}
         /\ agent.path \in BOOLEAN
BY DEF SetupTypeOK, Agents, Memos, Statuses

\* The install.
LEMMA InstallKeeps ==
  ASSUME SetupInv,
         \/ InstallRequested \/ InstallConfirmed \/ InstallDeclined \/ PipxLocated
         \/ HermesInstalled \/ FailedEvent \/ InstallFails \/ SettingsWritten
  PROVE  SetupInv'
<1> USE DEF SetupInv
<1>0. memo \in Memos /\ (setupOpen => Live(memo)) /\ agent.path \in BOOLEAN /\ agent \in Agents
  BY SetupParts DEF SearchLives, Live
<1>1. CASE InstallRequested
  <2> USE <1>1 DEF InstallRequested, Armed
  <2>1. agent' \in Agents /\ agent'.path = agent.path
    BY <1>0 DEF Agents
  <2>2. SetupTypeOK'
    BY <1>0, <2>1, SetupParts DEF SetupTypeOK, Agents, Memos, Statuses
  <2>3. ReadsThePath' /\ PaintedIsSo' /\ SearchLives'
    BY <2>1 DEF ReadsThePath, PaintedIsSo, SearchLives, AgentPhase, Coming
  <2>4. SearchIsDue'
    BY <2>1 DEF SearchIsDue, Coming
  <2> QED BY <2>2, <2>3, <2>4
<1>2. CASE InstallConfirmed
  <2> USE <1>2 DEF InstallConfirmed, InstallMoves
  <2>1. agent' \in Agents /\ agent'.path = agent.path
    BY <1>0 DEF Agents
  <2>2. /\ ReadsThePath' /\ PaintedIsSo' /\ SearchLives' /\ SearchIsDue'
        /\ fetches' \in [StatusSlots -> Statuses] /\ memo' \in Memos
    BY <1>0, <2>1, AfterBump
  <2>3. SetupTypeOK'
    BY <2>1, <2>2, SetupParts DEF SetupTypeOK, Agents, Memos, Statuses
  <2> QED BY <2>2, <2>3
<1>3. CASE InstallDeclined
  <2> USE <1>3 DEF InstallDeclined, Released
  <2>1. agent' \in Agents /\ agent'.path = agent.path
    BY <1>0 DEF Agents
  <2>2. /\ ReadsThePath' /\ PaintedIsSo' /\ SearchLives' /\ SearchIsDue'
        /\ fetches' \in [StatusSlots -> Statuses] /\ memo' \in Memos
    BY <1>0, <2>1, AfterPush
  <2>3. SetupTypeOK'
    BY <2>1, <2>2, SetupParts DEF SetupTypeOK, Agents, Memos, Statuses
  <2> QED BY <2>2, <2>3
<1>4. CASE PipxLocated \/ HermesInstalled
  <2> USE <1>4 DEF PipxLocated, HermesInstalled, InstallMoves
  <2>1. agent' \in Agents /\ agent'.path = agent.path
    BY <1>0 DEF Agents
  <2>2. SetupTypeOK'
    <3>1. /\ UNCHANGED <<setupOpen, setupHeld, setupAborted, rechecking, memo, fetches, agent, panel>>
          /\ installAt # "idle" /\ installAt' \in {"installing", "writing"}
      OBVIOUS
    <3> QED BY <3>1, SetupParts DEF SetupTypeOK
  <2>3. ReadsThePath' /\ PaintedIsSo' /\ SearchLives'
    BY <2>1 DEF ReadsThePath, PaintedIsSo, SearchLives, AgentPhase, Coming
  <2>4. SearchIsDue'
    BY <2>1 DEF SearchIsDue, Coming
  <2> QED BY <2>2, <2>3, <2>4
<1>5. CASE FailedEvent
  <2> USE <1>5 DEF FailedEvent, handlers
  <2>1. agent' \in Agents /\ agent'.path = agent.path
    BY <1>0 DEF Agents
  <2>2. /\ ReadsThePath' /\ PaintedIsSo' /\ SearchLives' /\ SearchIsDue'
        /\ fetches' \in [StatusSlots -> Statuses] /\ memo' \in Memos
    BY <1>0, <2>1, AfterBump
  <2>3. SetupTypeOK'
    BY <2>1, <2>2, SetupParts DEF SetupTypeOK, Agents, Memos, Statuses
  <2> QED BY <2>2, <2>3
<1>6. CASE InstallFails
  <2> USE DEF Released
  <2>0. PICK path \in BOOLEAN :
          /\ installAt \in {"locating", "installing", "writing"} /\ installAt' = "idle"
          /\ agent' = [agent EXCEPT !.issue = TRUE, !.path = path]
          /\ Released("install", path) /\ UNCHANGED rechecking
    BY <1>0, <1>6 DEF InstallFails
  <2>1. agent' \in Agents /\ agent'.path = path
    BY <1>0, <2>0 DEF Agents
  <2>2. /\ ReadsThePath' /\ PaintedIsSo' /\ SearchLives' /\ SearchIsDue'
        /\ fetches' \in [StatusSlots -> Statuses] /\ memo' \in Memos
    BY <1>0, <2>0, <2>1, AfterPush
  <2>3. SetupTypeOK'
    BY <2>0, <2>1, <2>2, SetupParts DEF SetupTypeOK, Agents, Memos, Statuses
  <2> QED BY <2>2, <2>3
<1>7. CASE SettingsWritten
  <2> USE <1>7 DEF SettingsWritten, Released
  <2>1. agent' \in Agents /\ agent'.path = TRUE
    BY <1>0 DEF Agents
  <2>2. /\ ReadsThePath' /\ PaintedIsSo' /\ SearchLives' /\ SearchIsDue'
        /\ fetches' \in [StatusSlots -> Statuses] /\ memo' \in Memos
    BY <1>0, <2>1, AfterPush
  <2>3. SetupTypeOK'
    BY <2>1, <2>2, SetupParts DEF SetupTypeOK, Agents, Memos, Statuses
  <2> QED BY <2>2, <2>3
<1> QED BY <1>1, <1>2, <1>3, <1>4, <1>5, <1>6, <1>7

\* The recheck, the search, the pushes and the gate.
LEMMA CardKeeps ==
  ASSUME SetupInv,
         \/ RecheckStarts \/ RecheckJoins \/ RecheckEnds \/ CancelInstall
         \/ DiscoverySettles \/ ViewFetches \/ SetupDispose
         \/ \E s \in StatusSlots : StatusPosts(s) \/ StatusFails(s)
  PROVE  SetupInv'
<1> USE DEF SetupInv
<1>0. memo \in Memos /\ (setupOpen => Live(memo)) /\ agent.path \in BOOLEAN /\ agent \in Agents
  BY SetupParts DEF SearchLives, Live
<1>a. NoMemo \in Memos /\ Live(NoMemo)
  BY DEF NoMemo, Memos, Live
<1>1. CASE RecheckStarts
  <2> USE <1>1 DEF RecheckStarts, Armed, Invalidate
  <2>1. SetupTypeOK'
    BY <1>0, <1>a, SetupParts DEF SetupTypeOK, Agents, Memos, Statuses
  <2>2. ReadsThePath' /\ PaintedIsSo'
    BY DEF ReadsThePath, PaintedIsSo
  <2>3. SearchLives' /\ SearchIsDue'
    BY <1>a DEF SearchLives, SearchIsDue, Live
  <2> QED BY <2>1, <2>2, <2>3
<1>2. CASE RecheckJoins
  <2> USE <1>2 DEF RecheckJoins, Invalidate, handlers
  <2>1. /\ ReadsThePath' /\ PaintedIsSo' /\ SearchLives' /\ SearchIsDue'
        /\ fetches' \in [StatusSlots -> Statuses] /\ memo' \in Memos
    BY <1>0, <1>a, AfterPush
  <2>2. SetupTypeOK'
    BY <1>0, <2>1, SetupParts DEF SetupTypeOK, Agents, Memos, Statuses
  <2> QED BY <2>1, <2>2
<1>3. CASE RecheckEnds
  <2> USE DEF Released
  <2>0. PICK issue \in BOOLEAN : agent' = [agent EXCEPT !.issue = issue]
    BY <1>3 DEF RecheckEnds
  <2>1. agent' \in Agents /\ agent'.path = agent.path
    BY <1>0, <2>0 DEF Agents
  <2>2. /\ ReadsThePath' /\ PaintedIsSo' /\ SearchLives' /\ SearchIsDue'
        /\ fetches' \in [StatusSlots -> Statuses] /\ memo' \in Memos
    BY <1>0, <1>3, <2>1, AfterPush DEF RecheckEnds
  <2>3. SetupTypeOK'
    BY <1>3, <2>1, <2>2, SetupParts DEF RecheckEnds, SetupTypeOK, Agents, Memos, Statuses
  <2> QED BY <2>2, <2>3
<1>4. CASE CancelInstall
  <2> USE <1>4 DEF CancelInstall
  <2>1. /\ ReadsThePath' /\ PaintedIsSo' /\ SearchLives' /\ SearchIsDue'
        /\ fetches' \in [StatusSlots -> Statuses] /\ memo' \in Memos
    BY <1>0, AfterPush
  <2>2. SetupTypeOK'
    BY <1>0, <2>1, SetupParts DEF SetupTypeOK, Agents, Memos, Statuses
  <2> QED BY <2>1, <2>2
<1>5. CASE DiscoverySettles
  <2> USE DEF handlers
  <2>0. PICK v \in {"found", "missing"} :
          Bump([value |-> v, inFlight |-> FALSE, live |-> FALSE], agent.path)
    BY <1>5 DEF DiscoverySettles
  <2>1. /\ [value |-> v, inFlight |-> FALSE, live |-> FALSE] \in Memos
        /\ Live([value |-> v, inFlight |-> FALSE, live |-> FALSE])
    BY DEF Memos, Live
  <2>2. /\ ReadsThePath' /\ PaintedIsSo' /\ SearchLives' /\ SearchIsDue'
        /\ fetches' \in [StatusSlots -> Statuses] /\ memo' \in Memos
    BY <1>0, <1>5, <2>0, <2>1, AfterBump DEF DiscoverySettles
  <2>3. SetupTypeOK'
    BY <1>0, <1>5, <2>2, SetupParts DEF DiscoverySettles, SetupTypeOK, Agents, Memos, Statuses
  <2> QED BY <2>2, <2>3
<1>6. CASE ViewFetches
  <2> USE <1>6 DEF ViewFetches, handlers
  <2>1. [newest |-> TRUE, path |-> agent.path, on |-> TRUE] \in Statuses
    BY <1>0 DEF Statuses
  <2>2. fetches' \in [StatusSlots -> Statuses]
    BY <2>1, SetupParts
  <2>3. \A s \in StatusSlots \ {0} : fetches'[s] = fetches[s]
    BY SetupParts
  <2>4. memo' \in Memos /\ memo'.value = memo.value /\ (memo.live => memo'.live)
        /\ (Live(memo) => Live(memo'))
    BY <1>0, Kicked
  <2>5. SetupTypeOK'
    BY <1>0, <2>2, <2>4, SetupParts DEF SetupTypeOK, Agents, Memos, Statuses
  <2>6. Coming' <=> Coming
    BY <2>3 DEF Coming
  <2>7. ReadsThePath' /\ PaintedIsSo'
    BY <2>3, <2>4, <2>6 DEF ReadsThePath, PaintedIsSo, AgentPhase
  <2>8. SearchLives'
    BY <1>0, <2>4 DEF SearchLives, Live
  <2>9. SearchIsDue'
    BY <2>4, <2>6 DEF SearchIsDue
  <2> QED BY <2>5, <2>7, <2>8, <2>9
<1>7. CASE SetupDispose
  <2> USE <1>7 DEF SetupDispose
  <2>1. memo' \in Memos
    BY <1>0 DEF Memos
  <2>2. SetupTypeOK'
    BY <1>0, <2>1, SetupParts DEF SetupTypeOK, Agents, Memos, Statuses
  <2>3. ReadsThePath' /\ PaintedIsSo' /\ SearchLives' /\ SearchIsDue'
    BY DEF ReadsThePath, PaintedIsSo, SearchLives, SearchIsDue
  <2> QED BY <2>2, <2>3
<1>8. ASSUME NEW s \in StatusSlots, StatusPosts(s) \/ StatusFails(s) PROVE SetupInv'
  <2>0. /\ fetches[s].on /\ fetches' = [fetches EXCEPT ![s] = NoStatus]
        /\ UNCHANGED <<handlers, agent, memo>>
    BY <1>8 DEF StatusPosts, StatusFails
  <2> USE DEF handlers
  <2>1. NoStatus \in Statuses /\ ~ NoStatus.on
    BY DEF NoStatus, Statuses
  <2>2. fetches' \in [StatusSlots -> Statuses]
    BY <2>0, <2>1, SetupParts
  <2>3. AgentPhase(fetches[s].path) \in AgentPhases
    BY DEF AgentPhase, AgentPhases
  <2>4. panel' \in [by : {"none", "push", "fetch", "failed"}, phase : AgentPhases]
    BY <1>8, <2>3, SetupParts DEF StatusPosts, StatusFails
  <2>5. SetupTypeOK'
    BY <1>0, <2>0, <2>2, <2>4, SetupParts DEF SetupTypeOK, Agents, Memos, Statuses
  <2>6. ReadsThePath'
    BY <2>0, <2>1, SetupParts DEF ReadsThePath
  <2>7. CASE panel' = panel /\ (s = 0 \/ ~ fetches[s].newest)
    <3>1. Coming' <=> Coming
      BY <2>0, <2>1, <2>7, SetupParts DEF Coming
    <3> QED BY <2>0, <2>5, <2>6, <2>7, <3>1
            DEF PaintedIsSo, SearchLives, SearchIsDue, AgentPhase
  <2>8. CASE panel'.by \in {"fetch", "failed"}
    <3>1. Coming' => Coming
      BY <2>0, <2>1, SetupParts DEF Coming
    <3> QED BY <2>0, <2>5, <2>6, <2>8, <3>1 DEF PaintedIsSo, SearchLives, SearchIsDue
  <2>9. CASE s # 0 /\ fetches[s].newest /\ panel' = [by |-> "push", phase |-> AgentPhase(fetches[s].path)]
    <3>1. fetches[s].path = agent.path /\ Coming
      BY <2>0, <2>9 DEF ReadsThePath, Coming
    <3>2. PaintedIsSo'
      BY <2>0, <2>9, <3>1 DEF PaintedIsSo, AgentPhase
    <3>3. SearchLives' /\ SearchIsDue'
      BY <2>0, <3>1 DEF SearchLives, SearchIsDue
    <3> QED BY <2>5, <2>6, <3>2, <3>3
  <2> QED BY <1>8, <2>7, <2>8, <2>9, SetupParts DEF StatusPosts, StatusFails
<1> QED BY <1>1, <1>2, <1>3, <1>4, <1>5, <1>6, <1>7, <1>8

LEMMA SetupStep == SetupInv /\ [SetupNext]_setupVars => SetupInv'
<1> SUFFICES ASSUME SetupInv, [SetupNext]_setupVars PROVE SetupInv'
  OBVIOUS
<1>1. CASE SetupNext
  BY <1>1, InstallKeeps, CardKeeps DEF SetupNext
<1>2. CASE UNCHANGED setupVars
  BY <1>2 DEF setupVars, SetupInv, SetupTypeOK, ReadsThePath, PaintedIsSo, SearchLives,
              SearchIsDue, Coming, AgentPhase
<1> QED BY <1>1, <1>2

\* Every card ends in what is so: the one of the agent shows what status() would
\* say once nothing runs and no push is coming, and its search has settled
\* (SetupController.ts:1608-1667, settledProbeMemo.ts:72-79); one download runs
\* at a time, and its bar goes when it has ended (SetupController.ts:2050-2086).
THEOREM EveryCardSettles == Spec => []CardsSettle
<1>1. Init => SetupInv /\ ProvisionInv
  BY SetupStarts, ProvisionStarts DEF Init
<1>2. SetupInv /\ ProvisionInv /\ [Next]_vars => SetupInv' /\ ProvisionInv'
  <2> SUFFICES ASSUME SetupInv, ProvisionInv, [Next]_vars PROVE SetupInv' /\ ProvisionInv'
    OBVIOUS
  <2>1. [SetupNext]_setupVars /\ [ProvisionNext]_provisionVars
    BY SetupSteps, ProvisionSteps DEF vars
  <2> QED BY <2>1, SetupStep, ProvisionStep
<1>3. SetupInv /\ ProvisionInv => CardsSettle
  <2> SUFFICES ASSUME SetupInv, ProvisionInv PROVE SetupSettles /\ PullsSettle
    BY DEF CardsSettle
  <2>1. SetupSettles
    BY DEF SetupInv, PaintedIsSo, SearchIsDue, SetupSettles, Coming
  <2>2. PullsSettle
    BY DEF ProvisionInv, PullsLatched, DoneIsLast, PullsSettle
  <2> QED BY <2>1, <2>2
<1> QED BY <1>1, <1>2, <1>3, PTL DEF Spec

-------------------------------------------------------------------------------
\* The model that is picked for a session.

\* The picker steps alone, and so does the panel with its page.
LEMMA ModelSteps == Next => [ModelNext]_modelVars
<1> SUFFICES ASSUME Next, ~ UNCHANGED modelVars PROVE ModelNext
  OBVIOUS
<1> QED BY DEF Next, Only

LEMMA PanelSyncSteps == Next => [PanelSyncNext]_panelSyncVars
<1> SUFFICES ASSUME Next, ~ UNCHANGED panelSyncVars PROVE PanelSyncNext
  OBVIOUS
<1> QED BY DEF Next, Only

\* The phases of a pick that the host or the agent still works on.
UnderWay == {"asked", "applied", "refused"}
PickRecords == [phase : {"none", "sent", "settled", "overtaken"} \cup UnderWay,
                model : Models \cup {NoModel}, of : Nat, seq : Nat, previous : Models \cup {NoModel}]

ModelTypes ==
  /\ pick \in [Picks -> PickRecords]
  /\ controller \in Nat \ {0} /\ detached \in BOOLEAN /\ childUp \in BOOLEAN
  /\ modelSwitchSeq \in Nat /\ agentBy \in {0} \cup Picks
  /\ currentModelId \in Models /\ agentModel \in Models
  /\ detached => ~ childUp

\* The picks of a controller are numbered; earlier controllers have lower numbers.
PicksNumbered ==
  /\ \A i \in Picks :
       /\ pick[i].of <= controller
       /\ pick[i].phase # "none" => pick[i].model \in Models
       /\ pick[i].phase \in {"none", "sent"} => pick[i].of = 0
       /\ pick[i].phase \in UnderWay => pick[i].of # 0
       /\ pick[i].of = controller => pick[i].seq <= modelSwitchSeq
  /\ \A i, j \in Picks :
       pick[i].of = controller /\ pick[j].of = controller /\ i # j => pick[i].seq # pick[j].seq

\* The newest pick the controller has got, if it is under way.
NewestPick(i) ==
  /\ pick[i].of = controller /\ pick[i].seq = modelSwitchSeq
  /\ pick[i].phase \in UnderWay

\* Until it is answered, what it would snap back to is what the controller believes.
SnapsBack == \A i \in Picks : NewestPick(i) => pick[i].previous = currentModelId

\* Unless a pick is on its way or the newest one is under way, the tab shows what
\* the controller believes.
ShowsBelieved ==
  childUp /\ (\A i \in Picks : pick[i].phase # "sent" /\ ~ NewestPick(i))
    => shownModel = currentModelId

\* The agent uses the pick it took last: the controller will hear of it, believes
\* it, with no older answer that could still be taken for newer, or had overtaken it.
AgentHeard ==
  /\ agentBy = 0 =>
       /\ currentModelId = agentModel
       /\ \A i \in Picks : pick[i].of = controller => pick[i].phase # "applied"
  /\ agentBy # 0 =>
       /\ pick[agentBy].of = controller /\ pick[agentBy].model = agentModel
       /\ childUp =>
            \/ pick[agentBy].phase \in {"applied", "overtaken"}
            \/ /\ pick[agentBy].phase = "settled" /\ currentModelId = agentModel
               /\ \A i \in Picks : pick[i].of = controller /\ pick[i].phase = "applied"
                    => pick[i].seq < pick[agentBy].seq

ModelInv == ModelTypes /\ PicksNumbered /\ SnapsBack /\ ShowsBelieved /\ AgentHeard

LEMMA ModelStarts == ModelInit => ModelInv
<1> SUFFICES ASSUME ModelInit PROVE ModelInv
  OBVIOUS
<1> USE DEF ModelInit, NoPick
<1>0. NoPick \in PickRecords /\ DefaultModel \in Models
  BY ModelSwitchAssumption DEF PickRecords
<1>6. controller \in Nat \ {0} /\ modelSwitchSeq \in Nat
  OBVIOUS
<1>1. ModelTypes
  BY <1>0, <1>6, Zenon DEF ModelTypes
<1>2. \A i \in Picks : pick[i].phase = "none" /\ pick[i].of = 0
  OBVIOUS
<1>3. controller = 1 /\ agentBy = 0 /\ currentModelId = agentModel /\ shownModel = currentModelId
  OBVIOUS
<1>4. PicksNumbered /\ SnapsBack /\ ShowsBelieved
  BY <1>2, <1>3 DEF PicksNumbered, SnapsBack, ShowsBelieved, NewestPick, UnderWay
<1>5. AgentHeard
  BY <1>2, <1>3 DEF AgentHeard
<1> QED BY <1>1, <1>4, <1>5 DEF ModelInv

\* One step of each action, part by part.
LEMMA ModelKeeps ==
  ASSUME ModelInv, ModelNext
  PROVE  ModelInv'
<1> USE ModelSwitchAssumption DEF ModelInv
<1>0. ModelTypes /\ PicksNumbered /\ SnapsBack /\ ShowsBelieved /\ AgentHeard
  OBVIOUS
<1> DEFINE Kept(i) == \A j \in Picks \ {i} : pick'[j] = pick[j]
<1>1. CASE PickModel
  <2>1. PICK i \in Picks, m \in Models \ {shownModel} :
          /\ pick[i] = NoPick
          /\ pick' = [pick EXCEPT ![i].phase = "sent", ![i].model = m]
          /\ shownModel' = m /\ UNCHANGED <<believed, agentModel, agentBy>>
    BY <1>1 DEF PickModel
  <2>2. /\ pick[i].phase = "none" /\ pick[i].of = 0
        /\ pick' \in [Picks -> PickRecords] /\ Kept(i)
        /\ pick'[i].phase = "sent" /\ pick'[i].of = 0 /\ pick'[i].model \in Models
    BY <2>1, <1>0 DEF ModelTypes, NoPick, PickRecords
  <2>3. ModelTypes'
    BY <2>1, <2>2, <1>0 DEF ModelTypes, believed
  <2>4. PicksNumbered' /\ SnapsBack' /\ ShowsBelieved'
    BY <2>1, <2>2, <1>0 DEF PicksNumbered, SnapsBack, ShowsBelieved, NewestPick, UnderWay, believed, ModelTypes
  <2>5. AgentHeard'
    BY <2>1, <2>2, <1>0 DEF AgentHeard, believed, ModelTypes
  <2> QED BY <2>3, <2>4, <2>5
<1>2. ASSUME NEW i \in Picks, PickArrives(i), detached PROVE ModelInv'
  <2>1. ~ childUp /\ UNCHANGED <<controller, detached, childUp, modelSwitchSeq, currentModelId,
                                 agentModel, agentBy>>
    BY <1>2, <1>0 DEF PickArrives, ModelTypes
  <2>2. /\ pick[i].phase = "sent" /\ pick[i].of = 0
        /\ pick' \in [Picks -> PickRecords] /\ Kept(i)
        /\ pick'[i].phase = "settled" /\ pick'[i].of = 0 /\ pick'[i].model \in Models
    BY <1>2, <1>0 DEF ModelTypes, PicksNumbered, PickRecords, PickArrives
  <2>3. ModelTypes'
    BY <2>1, <2>2, <1>0 DEF ModelTypes
  <2>4. PicksNumbered' /\ SnapsBack' /\ ShowsBelieved'
    BY <2>1, <2>2, <1>0 DEF PicksNumbered, SnapsBack, ShowsBelieved, NewestPick, UnderWay, ModelTypes
  <2>5. AgentHeard'
    BY <2>1, <2>2, <1>0 DEF AgentHeard, ModelTypes
  <2> QED BY <2>3, <2>4, <2>5
<1>3. ASSUME NEW i \in Picks, PickArrives(i), ~ detached PROVE ModelInv'
  <2>1. /\ modelSwitchSeq' = modelSwitchSeq + 1
        /\ UNCHANGED <<controller, detached, childUp, currentModelId, agentModel, agentBy>>
        /\ ~ childUp => shownModel' = currentModelId
    BY <1>3 DEF PickArrives
  <2>2. pick' = [pick EXCEPT ![i] =
               [@ EXCEPT !.phase = IF childUp THEN "asked" ELSE "settled", !.of = controller,
                         !.seq = modelSwitchSeq + 1, !.previous = currentModelId]]
    BY <1>3 DEF PickArrives
  <2> DEFINE n == modelSwitchSeq + 1
  <2>3. n \in Nat
    BY <1>0 DEF ModelTypes
  <2>4. modelSwitchSeq' = n
    BY <2>1
  <2>5. pick' = [pick EXCEPT ![i] =
               [@ EXCEPT !.phase = IF childUp THEN "asked" ELSE "settled", !.of = controller,
                         !.seq = n, !.previous = currentModelId]]
    BY <2>2
  <2> HIDE DEF n
  <2>6. /\ pick[i].phase = "sent" /\ pick[i].of = 0
        /\ pick' \in [Picks -> PickRecords] /\ Kept(i)
        /\ pick'[i].phase \in {"asked", "settled"} /\ pick'[i].of = controller
        /\ pick'[i].model \in Models
        /\ pick'[i].phase = "asked" <=> childUp
        /\ pick'[i].seq = n /\ pick'[i].previous = currentModelId
    <3>1. pick[i].phase = "sent" /\ pick[i].of = 0 /\ pick[i].model \in Models
      BY <1>3, <1>0 DEF PicksNumbered, PickArrives
    <3>2. [pick[i] EXCEPT !.phase = IF childUp THEN "asked" ELSE "settled", !.of = controller,
                         !.seq = n, !.previous = currentModelId] \in PickRecords
      BY <2>3, <1>0 DEF ModelTypes, PickRecords, UnderWay
    <3> QED BY <2>5, <3>1, <3>2, <1>0 DEF ModelTypes, PickRecords
  <2>7. ModelTypes'
    BY <2>1, <2>3, <2>4, <2>6, <1>0 DEF ModelTypes
  <2>8. \A j \in Picks : pick[j].of = controller => pick[j].seq < n
    BY <1>0 DEF PicksNumbered, ModelTypes, PickRecords, n
  <2>9. PicksNumbered' /\ SnapsBack' /\ ShowsBelieved'
    BY <2>1, <2>3, <2>4, <2>6, <2>8, <1>0
    DEF PicksNumbered, SnapsBack, ShowsBelieved, NewestPick, UnderWay, ModelTypes, PickRecords
  <2>10. AgentHeard'
    BY <2>1, <2>6, <1>0 DEF AgentHeard, ModelTypes
  <2> QED BY <2>7, <2>9, <2>10
<1>4. ASSUME NEW i \in Picks, AgentTakes(i) \/ AgentRefuses(i) PROVE ModelInv'
  <2>1. /\ pick[i].phase = "asked" /\ childUp /\ pick[i].of = controller
        /\ UNCHANGED <<believed, shownModel>>
    BY <1>4 DEF AgentTakes, AgentRefuses
  <2>2. /\ pick' \in [Picks -> PickRecords] /\ Kept(i)
        /\ pick'[i].phase \in {"applied", "refused"}
        /\ pick'[i].of = pick[i].of /\ pick'[i].seq = pick[i].seq
        /\ pick'[i].model = pick[i].model /\ pick'[i].previous = pick[i].previous
    BY <1>4, <1>0 DEF AgentTakes, AgentRefuses, ModelTypes, PickRecords, UnderWay
  <2>3. PicksNumbered' /\ SnapsBack' /\ ShowsBelieved'
    BY <2>1, <2>2, <1>0
    DEF PicksNumbered, SnapsBack, ShowsBelieved, NewestPick, UnderWay, ModelTypes, PickRecords, believed
  <2>4. CASE AgentTakes(i)
    <3>1. pick[i].model \in Models
      BY <2>1, <1>0 DEF PicksNumbered
    <3>2. ModelTypes'
      BY <2>1, <2>2, <2>4, <3>1, <1>0 DEF ModelTypes, AgentTakes, believed
    <3>3. pick'[i].phase = "applied" /\ agentBy' = i /\ agentModel' = pick[i].model /\ i # 0
      BY <2>4, <1>0 DEF AgentTakes, ModelTypes, PickRecords, Picks
    <3>4. AgentHeard'
      BY <2>1, <2>2, <3>3 DEF AgentHeard, believed
    <3> QED BY <2>3, <3>2, <3>4
  <2>5. CASE AgentRefuses(i)
    <3>1. ModelTypes'
      BY <2>1, <2>2, <2>5, <1>0 DEF ModelTypes, AgentRefuses, believed
    <3>2. pick'[i].phase = "refused" /\ UNCHANGED <<agentBy, agentModel>>
      BY <2>5, <1>0 DEF AgentRefuses, ModelTypes, PickRecords
    <3>3. AgentHeard'
      BY <2>1, <2>2, <3>2, <1>0 DEF AgentHeard, believed, ModelTypes
    <3> QED BY <2>3, <3>1, <3>3
  <2> QED BY <1>4, <2>4, <2>5
<1>5. ASSUME NEW i \in Picks, PickResolves(i) PROVE ModelInv'
  <2>1. /\ pick[i].phase = "applied" /\ pick[i].of # 0
        /\ UNCHANGED <<controller, detached, childUp, modelSwitchSeq, agentModel, agentBy>>
    BY <1>5, <1>0 DEF PickResolves, PicksNumbered, UnderWay
  <2>2. /\ pick' \in [Picks -> PickRecords] /\ Kept(i)
        /\ pick'[i].phase = (IF Superseded(i) THEN "overtaken" ELSE "settled")
        /\ pick'[i].of = pick[i].of /\ pick'[i].seq = pick[i].seq
        /\ pick'[i].model = pick[i].model
    BY <1>5, <1>0 DEF PickResolves, ModelTypes, PickRecords
  <2>3. CASE Superseded(i) \/ OfDetached(i)
    <3>1. UNCHANGED <<currentModelId, shownModel>>
      BY <1>5, <2>3 DEF PickResolves
    <3>2. ModelTypes'
      BY <2>1, <2>2, <3>1, <1>0 DEF ModelTypes
    <3>0. pick'[i].phase \in {"overtaken", "settled"}
      BY <2>2
    <3>3. PicksNumbered'
      BY <2>1, <2>2, <3>0, <1>0 DEF PicksNumbered, UnderWay, ModelTypes
    <3>7. SnapsBack'
      BY <2>1, <2>2, <3>0, <3>1, <1>0 DEF SnapsBack, NewestPick, UnderWay, ModelTypes
    <3>4. childUp => ~ NewestPick(i) /\ (pick[i].of = controller => pick'[i].phase = "overtaken")
      BY <2>2, <2>3, <1>0 DEF NewestPick, Superseded, OfDetached, ModelTypes
    <3>5. ShowsBelieved'
      BY <2>1, <2>2, <3>0, <3>1, <3>4, <1>0 DEF ShowsBelieved, NewestPick, UnderWay
    <3>6. AgentHeard'
      BY <2>1, <2>2, <3>0, <3>1, <3>4, <1>0 DEF AgentHeard, ModelTypes
    <3> QED BY <3>2, <3>3, <3>5, <3>6, <3>7
  <2>4. CASE ~ (Superseded(i) \/ OfDetached(i)) /\ ~ childUp
    <3>1. UNCHANGED currentModelId
      BY <1>5, <2>4 DEF PickResolves
    <3>2. ModelTypes'
      BY <2>1, <2>2, <3>1, <1>0 DEF ModelTypes
    <3>0. pick'[i].phase \in {"overtaken", "settled"}
      BY <2>2
    <3>5. PicksNumbered'
      BY <2>1, <2>2, <3>0, <1>0 DEF PicksNumbered, UnderWay, ModelTypes
    <3>3. SnapsBack' /\ ShowsBelieved'
      BY <2>1, <2>2, <2>4, <3>0, <3>1, <1>0
      DEF SnapsBack, ShowsBelieved, NewestPick, UnderWay, ModelTypes
    <3>4. AgentHeard'
      BY <2>1, <2>2, <2>4, <3>1, <1>0 DEF AgentHeard, ModelTypes
    <3> QED BY <3>2, <3>3, <3>4, <3>5
  <2>5. CASE ~ (Superseded(i) \/ OfDetached(i)) /\ childUp
    <3>1. currentModelId' = pick[i].model /\ shownModel' = pick[i].model
      BY <1>5, <2>5 DEF PickResolves
    <3>2. pick[i].of = controller /\ pick[i].seq = modelSwitchSeq /\ pick'[i].phase = "settled"
      BY <2>2, <2>5 DEF Superseded, OfDetached
    <3>3. \A j \in Picks \ {i} : pick[j].of = controller => pick[j].seq < modelSwitchSeq
      BY <3>2, <1>0 DEF PicksNumbered, ModelTypes, PickRecords
    <3>0. pick[i].model \in Models
      BY <2>1, <1>0 DEF PicksNumbered
    <3>4. ModelTypes'
      BY <2>1, <2>2, <3>1, <3>0, <1>0 DEF ModelTypes
    <3>5. PicksNumbered'
      BY <2>1, <2>2, <1>0 DEF PicksNumbered, UnderWay
    <3>6. SnapsBack' /\ ShowsBelieved'
      BY <2>1, <2>2, <3>1, <3>2, <3>3, <1>0
      DEF SnapsBack, ShowsBelieved, NewestPick, UnderWay, ModelTypes, PickRecords
    <3>7. ASSUME agentBy = i PROVE AgentHeard'
      <4>1. \A j \in Picks : pick'[j].of = controller /\ pick'[j].phase = "applied"
              => pick'[j].seq < pick'[i].seq
        BY <2>2, <3>2, <3>3
      <4> QED BY <2>1, <2>2, <3>1, <3>2, <3>7, <4>1, <1>0 DEF AgentHeard
    <3>8. ASSUME agentBy # i PROVE AgentHeard'
      <4>1. agentBy # 0 /\ agentBy \in Picks \ {i} /\ pick'[agentBy] = pick[agentBy]
        BY <2>1, <2>2, <3>2, <3>8, <1>0 DEF AgentHeard, ModelTypes
      <4>2. pick[agentBy].phase # "settled"
        BY <2>1, <2>5, <3>2, <3>3, <4>1, <1>0 DEF AgentHeard, ModelTypes, PickRecords
      <4> QED BY <2>1, <2>5, <3>1, <4>1, <4>2, <1>0 DEF AgentHeard
    <3>9. AgentHeard'
      BY <3>7, <3>8
    <3> QED BY <3>4, <3>5, <3>6, <3>9
  <2> QED BY <2>3, <2>4, <2>5
<1>6. ASSUME NEW i \in Picks, PickRejected(i) PROVE ModelInv'
  <2>1. UNCHANGED <<controller, detached, childUp, modelSwitchSeq, currentModelId, agentModel, agentBy>>
    BY <1>6 DEF PickRejected, believed
  <2>2. /\ pick' \in [Picks -> PickRecords] /\ Kept(i)
        /\ pick'[i].phase = "settled"
        /\ pick'[i].of = pick[i].of /\ pick'[i].seq = pick[i].seq
        /\ pick'[i].model = pick[i].model
    BY <1>6, <1>0 DEF PickRejected, ModelTypes, PickRecords
  <2>3. /\ pick[i].phase \in UnderWay /\ pick[i].of # 0
        /\ childUp /\ pick[i].of = controller => pick[i].phase = "refused"
    BY <1>6, <1>0 DEF PickRejected, CallRejected, PicksNumbered, UnderWay
  <2>4. ModelTypes'
    BY <2>1, <2>2, <1>0 DEF ModelTypes
  <2>9. PicksNumbered'
    BY <2>1, <2>2, <2>3, <1>0 DEF PicksNumbered, UnderWay, ModelTypes
  <2>5. SnapsBack'
    BY <2>1, <2>2, <1>0 DEF SnapsBack, NewestPick, UnderWay
  <2>6. childUp => shownModel' = (IF NewestPick(i) THEN pick[i].previous ELSE shownModel)
    BY <1>6, <2>3, <1>0 DEF PickRejected, NewestPick, Superseded, OfDetached, ModelTypes
  <2>8. AgentHeard'
    BY <2>1, <2>2, <2>3, <1>0 DEF AgentHeard, ModelTypes
  <2>10. pick[i].phase # "sent"
    BY <2>3 DEF UnderWay
  <2>7. SUFFICES ASSUME childUp, \A j \in Picks : pick'[j].phase # "sent" /\ ~ NewestPick(j)'
                 PROVE  shownModel' = currentModelId
    BY <2>1, <2>4, <2>5, <2>8, <2>9 DEF ShowsBelieved
  <2>11. \A j \in Picks \ {i} : pick[j].phase # "sent" /\ ~ NewestPick(j)
    BY <2>1, <2>2, <2>7 DEF NewestPick
  <2>12. CASE NewestPick(i)
    BY <2>6, <2>7, <2>12, <1>0 DEF SnapsBack
  <2>13. CASE ~ NewestPick(i)
    BY <2>6, <2>7, <2>10, <2>11, <2>13, <1>0 DEF ShowsBelieved
  <2> QED BY <2>12, <2>13
<1>7. CASE ClientGone \/ ControllerDisposed
  <2>1. /\ pick' = pick /\ controller' = controller /\ modelSwitchSeq' = modelSwitchSeq
        /\ currentModelId' = currentModelId /\ agentModel' = agentModel /\ agentBy' = agentBy
        /\ ~ childUp'
    BY <1>7, <1>0 DEF ClientGone, ControllerDisposed, ModelTypes
  <2>6. detached' \in BOOLEAN /\ childUp' \in BOOLEAN /\ (detached' => ~ childUp')
    <3>1. ClientGone => detached' = detached /\ childUp' = FALSE
      BY DEF ClientGone
    <3>3. ControllerDisposed => detached' = TRUE /\ childUp' = childUp
      BY DEF ControllerDisposed
    <3>2. detached \in BOOLEAN /\ childUp \in BOOLEAN
      BY <1>0, Zenon DEF ModelTypes
    <3> QED BY <1>7, <2>1, <3>1, <3>2, <3>3, Zenon
  <2>2. ModelTypes'
    <3>1. pick' \in [Picks -> PickRecords] /\ agentBy' \in {0} \cup Picks
      BY <2>1, <1>0, Zenon DEF ModelTypes
    <3>2. controller' \in Nat \ {0} /\ modelSwitchSeq' \in Nat
      BY <2>1, <1>0 DEF ModelTypes
    <3>3. currentModelId' \in Models /\ agentModel' \in Models
      BY <2>1, <1>0 DEF ModelTypes
    <3> QED BY <2>6, <3>1, <3>2, <3>3, Zenon DEF ModelTypes
  <2>3. PicksNumbered' /\ SnapsBack'
    BY <2>1, <1>0 DEF PicksNumbered, SnapsBack, NewestPick
  <2>4. ShowsBelieved'
    BY <2>1 DEF ShowsBelieved
  <2>5. AgentHeard'
    BY <2>1, <1>0, Zenon DEF AgentHeard
  <2> QED BY <2>2, <2>3, <2>4, <2>5
<1>8. CASE SessionRecovered
  <2>1. /\ ~ childUp /\ UNCHANGED pick /\ controller' = controller + 1 /\ modelSwitchSeq' = 0
        /\ detached' = FALSE /\ childUp' = TRUE /\ agentBy' = 0
        /\ agentModel' \in Models /\ currentModelId' = agentModel' /\ shownModel' = agentModel'
    BY <1>8, <1>0 DEF SessionRecovered, ModelTypes
  <2>2. \A j \in Picks : pick[j].of # controller'
    BY <2>1, <1>0 DEF PicksNumbered, ModelTypes, PickRecords
  <2>6. controller' \in Nat \ {0} /\ modelSwitchSeq' \in Nat
    BY <2>1, <1>0 DEF ModelTypes
  <2>3. ModelTypes'
    BY <2>1, <2>6, <1>0, Zenon DEF ModelTypes
  <2>4. PicksNumbered'
    BY <2>1, <2>2, <1>0 DEF PicksNumbered, ModelTypes, PickRecords
  <2>5. SnapsBack' /\ ShowsBelieved' /\ AgentHeard'
    BY <2>1, <2>2 DEF SnapsBack, ShowsBelieved, AgentHeard, NewestPick
  <2> QED BY <2>3, <2>4, <2>5
<1>9. CASE TabHydrated
  <2>1. UNCHANGED <<pick, believed, agentModel, agentBy>> /\ (childUp => shownModel' = currentModelId)
    BY <1>9, <1>0 DEF TabHydrated, ModelTypes
  <2> QED
    BY <2>1, <1>0 DEF believed, ModelTypes, PicksNumbered, SnapsBack, ShowsBelieved, AgentHeard, NewestPick
<1> QED BY <1>1, <1>2, <1>3, <1>4, <1>5, <1>6, <1>7, <1>8, <1>9 DEF ModelNext

LEMMA ModelStep == ModelInv /\ [ModelNext]_modelVars => ModelInv'
<1> SUFFICES ASSUME ModelInv, [ModelNext]_modelVars PROVE ModelInv'
  OBVIOUS
<1>1. CASE UNCHANGED modelVars
  BY <1>1 DEF modelVars, ModelInv, ModelTypes, PicksNumbered, SnapsBack, ShowsBelieved, AgentHeard, NewestPick
<1> QED BY <1>1, ModelKeeps

\* When no pick is under way the last two parts say what the tab shows.
LEMMA ModelIsHonest == ModelInv => ModelIsTrue
BY DEF ModelInv, ModelTypes, ShowsBelieved, AgentHeard, ModelIsTrue, NewestPick, UnderWay

-------------------------------------------------------------------------------
\* A panel with its page, its switch and its requests.

\* The types of a toggle, a request, the data of the panel and the switch.
Toggles == [mount : Nat, seq : Nat, want : BOOLEAN]
Jobs == [phase : {"none", "sent", "tail", "fetching", "read"}, toggle : Toggles, seq : Nat,
         data : BOOLEAN]
Slots == [status : {"idle", "loading", "success", "error"}, on : BOOLEAN, refreshError : BOOLEAN]
Switches == [override : SUBSET BOOLEAN, confirmed : SUBSET BOOLEAN, latest : Nat, settled : Nat,
             error : BOOLEAN]

PanelTypes ==
  /\ page \in 1 .. MaxPages /\ mount \in Nat \ {0} /\ rpcSeq \in 0 .. MaxAsked[page]
  /\ pending \subseteq 1 .. rpcSeq
  /\ slot \in Slots /\ switch \in Switches /\ queued \in Seq(Toggles)
  /\ jobs \in [Requests -> Jobs] /\ configTail \in Seq(Requests)
  /\ panelFetchSeq \in Nat /\ saved \in BOOLEAN /\ lapsed \in BOOLEAN

\* The page waits for an answer to this request.
Waits(r) == r[1] = page /\ r[2] \in pending

\* A toggle of the component that is mounted.
Mine(t) == t.mount = mount

\* Requests are numbered, an answer clears its request, and the page waits for
\* what has not arrived.
RequestsNumbered ==
  /\ \A r \in Requests :
       /\ jobs[r].phase = "none" => jobs[r] = NotAsked
       /\ jobs[r].phase # "none" => r[1] <= page /\ (r[1] = page => r[2] <= rpcSeq)
       /\ r[1] = page /\ jobs[r].phase = "sent" => r[2] \in pending
       /\ Waits(r) => jobs[r].phase # "none"
       /\ jobs[r].phase = "tail" => IsToggle(r)
  /\ \A r, q \in Requests :
       /\ r[1] = page /\ q[1] = page
       /\ jobs[r].phase = "sent" /\ jobs[q].phase \notin {"none", "sent"}
       => q[2] < r[2]

\* The tail holds the toggles that have arrived, those of a page in their order.
TailHolds ==
  /\ \A i \in 1 .. Len(configTail) : jobs[configTail[i]].phase = "tail"
  /\ \A r \in Requests : jobs[r].phase = "tail" => \E i \in 1 .. Len(configTail) : configTail[i] = r
  /\ \A i, j \in 1 .. Len(configTail) : i # j => configTail[i] # configTail[j]
  /\ \A i, j \in 1 .. Len(configTail) :
       i < j /\ configTail[i][1] = page /\ configTail[j][1] = page
         => configTail[i][2] < configTail[j][2]

\* The toggles of a component are numbered in the order in which they are queued,
\* sent and arrive, and one at a time is waited for.
TogglesNumbered ==
  /\ \A r \in Requests :
       /\ jobs[r].toggle.mount <= mount
       /\ Mine(jobs[r].toggle) => r[1] = page /\ jobs[r].toggle.seq <= switch.latest
       /\ Mine(jobs[r].toggle) /\ Waits(r) => switch.settled < jobs[r].toggle.seq
  /\ \A i \in 1 .. Len(queued) :
       /\ queued[i].mount <= mount /\ queued[i].mount # 0
       /\ Mine(queued[i]) => switch.settled < queued[i].seq /\ queued[i].seq <= switch.latest
  /\ \A r, q \in Requests :
       Mine(jobs[r].toggle) /\ Mine(jobs[q].toggle)
         => /\ r[2] < q[2] => jobs[r].toggle.seq < jobs[q].toggle.seq
            /\ Waits(r) /\ Waits(q) => r = q
  /\ \A i, j \in 1 .. Len(queued) :
       i < j /\ Mine(queued[i]) /\ Mine(queued[j]) => queued[i].seq < queued[j].seq
  /\ \A r \in Requests, i \in 1 .. Len(queued) :
       Mine(jobs[r].toggle) /\ Mine(queued[i]) => jobs[r].toggle.seq < queued[i].seq

\* The newest toggle of the component, waiting for its turn or for its answer.
NewestQueued(i) == Mine(queued[i]) /\ queued[i].seq = switch.latest
NewestWaits(r) ==
  Waits(r) /\ Mine(jobs[r].toggle) /\ jobs[r].toggle.seq = switch.latest

\* The switch shows the wish of the newest toggle until that settles.
WishKept ==
  /\ switch.settled <= switch.latest
  /\ switch.latest = switch.settled => switch.override = Absent
  /\ switch.latest # switch.settled =>
       \/ \E i \in 1 .. Len(queued) : NewestQueued(i)
       \/ \E r \in Requests : NewestWaits(r)
  /\ \A i \in 1 .. Len(queued) : NewestQueued(i) => switch.override = {queued[i].want}
  /\ \A r \in Requests : NewestWaits(r) => switch.override = {jobs[r].toggle.want}

\* The newest toggle has not been written.
NotWritten ==
  \/ \E i \in 1 .. Len(queued) : NewestQueued(i)
  \/ \E r \in Requests : NewestWaits(r) /\ jobs[r].phase \in {"sent", "tail"}

\* A toggle the page has given up but the host has not is no surprise.
GivenUpIsSaid ==
  \A r \in Requests :
    jobs[r].phase = "tail" /\ Mine(jobs[r].toggle) /\ ~ Waits(r) => switch.error \/ NotWritten

\* PanelFetches are numbered.
PanelFetches == {r \in Requests : jobs[r].phase \in {"fetching", "read"}}
FetchesAreNumbered ==
  /\ \A r \in PanelFetches : jobs[r].seq <= panelFetchSeq
  /\ \A r, q \in PanelFetches : jobs[r].seq = jobs[q].seq => r = q

\* The newest fetch is under way, and if it fails the page knows or lapsed says so.
NewestComes ==
  \E r \in PanelFetches : jobs[r].seq = panelFetchSeq /\ (IsToggle(r) \/ r[1] # page \/ r[2] \in pending)

SpinsForAnAnswer ==
  slot.status = "loading" /\ ~ lapsed =>
    \/ \E r \in Requests : Waits(r) /\ jobs[r].phase = "sent" /\ ~ IsToggle(r)
    \/ NewestComes

\* Unless the page says that it was not saved, or the newest toggle is still to be
\* written, what is shown or will be is what is saved.
ShownIsSaved ==
  ~ lapsed =>
    \/ switch.error
    \/ NotWritten
    \/ /\ \A r \in PanelFetches : jobs[r].phase = "read" /\ jobs[r].seq = panelFetchSeq => jobs[r].data = saved
       /\ slot.status = "success" => slot.on = saved \/ slot.refreshError \/ NewestComes

PanelInv ==
  /\ PanelTypes /\ RequestsNumbered /\ TailHolds /\ TogglesNumbered /\ WishKept
  /\ GivenUpIsSaid /\ FetchesAreNumbered /\ SpinsForAnAnswer /\ ShownIsSaved

-----------------------------------------------------------------------------
LEMMA RequestsArePairs ==
  /\ \A r \in Requests : /\ r = <<r[1], r[2]>> /\ r[1] \in 1 .. MaxPages /\ r[2] \in Nat
                         /\ r[2] \in 1 .. MaxAsked[r[1]]
  /\ \A r, q \in Requests : r[1] = q[1] /\ r[2] = q[2] => r = q
  /\ \A p \in 1 .. MaxPages : \A id \in 1 .. MaxAsked[p] : <<p, id>> \in Requests
<1>1. ASSUME NEW r \in Requests
      PROVE  /\ r = <<r[1], r[2]>> /\ r[1] \in 1 .. MaxPages /\ r[2] \in Nat
             /\ r[2] \in 1 .. MaxAsked[r[1]]
  <2>1. \E p \in 1 .. MaxPages : r \in {p} \X (1 .. MaxAsked[p])
    BY DEF Requests
  <2> QED BY <2>1, PanelSyncAssumption
<1>2. \A p \in 1 .. MaxPages : \A id \in 1 .. MaxAsked[p] : <<p, id>> \in Requests
  BY DEF Requests
<1>3. \A r, q \in Requests : r[1] = q[1] /\ r[2] = q[2] => r = q
  BY <1>1, Zenon
<1> QED BY <1>1, <1>2, <1>3

\* The toggle of a request, by its fields.
LEMMA TogglesAre ==
  ASSUME PanelTypes
  PROVE  /\ \A i \in 1 .. Len(queued) : queued[i].mount \in Nat /\ queued[i].seq \in Nat
         /\ \A r \in Requests : jobs[r].toggle.mount \in Nat /\ jobs[r].toggle.seq \in Nat
         /\ mount \in Nat /\ mount # 0 /\ switch.latest \in Nat /\ switch.settled \in Nat
<1>1. \A t \in Toggles : t.mount \in Nat /\ t.seq \in Nat
  BY DEF Toggles
<1>2. queued \in Seq(Toggles)
  BY DEF PanelTypes
<1>3. \A i \in 1 .. Len(queued) : queued[i] \in Toggles
  BY <1>2
<1>4. \A r \in Requests : jobs[r].toggle \in Toggles
  BY DEF PanelTypes, Jobs
<1>5. mount \in Nat /\ mount # 0 /\ switch.latest \in Nat /\ switch.settled \in Nat
  BY DEF PanelTypes, Switches
<1> QED BY <1>1, <1>3, <1>4, <1>5

LEMMA PanelStarts == PanelSyncInit => PanelInv
<1> SUFFICES ASSUME PanelSyncInit PROVE PanelInv
  OBVIOUS
<1>1. /\ slot.status = "idle" /\ slot \in Slots /\ queued = << >> /\ configTail = << >> /\ pending = {}
      /\ mount = 1 /\ page = 1 /\ ~ slot.refreshError /\ saved = FALSE /\ slot.on = FALSE
  BY DEF PanelSyncInit, FreshSlot, Slots
<1>2. /\ switch \in Switches /\ switch.latest = 0 /\ switch.settled = 0 /\ switch.override = Absent
  BY DEF PanelSyncInit, FreshSwitch, Switches, Absent
<1>3. \A r \in Requests : jobs[r] = NotAsked /\ jobs[r].phase = "none" /\ jobs[r].toggle.mount = 0
  BY DEF PanelSyncInit, NotAsked, NoToggle
<1>4. NotAsked \in Jobs
  BY DEF NotAsked, NoToggle, Jobs, Toggles
<1>5. PanelTypes
  <2>1. page \in 1 .. MaxPages /\ rpcSeq \in 0 .. MaxAsked[page] /\ pending \subseteq 1 .. rpcSeq
    BY <1>1, PanelSyncAssumption DEF PanelSyncInit
  <2>2. jobs \in [Requests -> Jobs]
    BY <1>4 DEF PanelSyncInit
  <2>3. mount \in Nat \ {0} /\ panelFetchSeq \in Nat
    BY <1>1 DEF PanelSyncInit
  <2>4. saved \in BOOLEAN /\ lapsed \in BOOLEAN
    BY DEF PanelSyncInit
  <2>5. queued \in Seq(Toggles) /\ configTail \in Seq(Requests)
    BY <1>1
  <2> QED BY <1>1, <1>2, <2>1, <2>2, <2>3, <2>4, <2>5, Zenon DEF PanelTypes
<1>6. RequestsNumbered /\ TailHolds /\ TogglesNumbered /\ FetchesAreNumbered
  BY <1>1, <1>2, <1>3
  DEF RequestsNumbered, TailHolds, TogglesNumbered, FetchesAreNumbered, Waits, Mine, PanelFetches
<1>7. WishKept /\ GivenUpIsSaid /\ SpinsForAnAnswer
  BY <1>1, <1>2, <1>3
  DEF WishKept, GivenUpIsSaid, SpinsForAnAnswer, NewestQueued, NewestWaits, Waits, Mine, PanelFetches
<1>8. ShownIsSaved
  BY <1>1, <1>2, <1>3 DEF ShownIsSaved, PanelFetches
<1> QED BY <1>5, <1>6, <1>7, <1>8 DEF PanelInv

\* With nothing under way, the last two parts of the invariant say what the panel shows.
LEMMA PanelIsFaithful == PanelInv => NoDeadSpinner /\ SwitchIsHonest /\ WishIsShown
<1> SUFFICES ASSUME PanelInv PROVE NoDeadSpinner /\ SwitchIsHonest /\ WishIsShown
  OBVIOUS
<1> USE DEF PanelInv
<1>1. ASSUME PanelQuiet
      PROVE  /\ \A r \in Requests : jobs[r].phase = "none" /\ ~ Waits(r)
             /\ ~ NewestComes /\ ~ NotWritten /\ switch.latest = switch.settled
  <2>1. \A r \in Requests : jobs[r].phase = "none" /\ ~ Waits(r)
    BY <1>1 DEF PanelQuiet, NotAsked, Waits
  <2>2. queued = << >>
    BY <1>1 DEF PanelQuiet
  <2> QED BY <2>1, <2>2 DEF NewestComes, NotWritten, WishKept, PanelFetches, NewestWaits
<1>2. NoDeadSpinner
  BY <1>1 DEF NoDeadSpinner, SpinsForAnAnswer
<1>3. SwitchIsHonest
  <2> SUFFICES ASSUME PanelQuiet, ~ lapsed, slot.status = "success"
               PROVE  ShownOn = saved \/ switch.error \/ slot.refreshError
    BY DEF SwitchIsHonest
  <2>1. ShownOn = slot.on
    BY <1>1 DEF ShownOn, WishKept
  <2> QED BY <1>1, <2>1, Zenon DEF ShownIsSaved
<1>4. WishIsShown
  <2>1. \A i \in 1 .. Len(queued) : Mine(queued[i]) /\ queued[i].seq = switch.latest
          => switch.override = {queued[i].want}
    BY DEF WishKept, NewestQueued
  <2>2. DOMAIN queued = 1 .. Len(queued)
    BY DEF PanelTypes
  <2>3. ASSUME NEW id \in pending PROVE <<page, id>> \in Requests /\ Waits(<<page, id>>)
    BY RequestsArePairs, <2>3, PanelSyncAssumption DEF PanelTypes, Waits
  <2>4. \A id \in pending : LET t == jobs[<<page, id>>].toggle IN
          Mine(t) /\ t.seq = switch.latest => switch.override = {t.want}
    BY <2>3 DEF WishKept, NewestWaits
  <2> QED BY <2>1, <2>2, <2>4 DEF WishIsShown, Mine
<1> QED BY <1>2, <1>3, <1>4

-----------------------------------------------------------------------------
\* What SendRequest does to the requests, for a new one.
Sent(r, t) ==
  /\ r \in Requests /\ r[1] = page /\ r[2] = rpcSeq + 1
  /\ jobs[r] = NotAsked
  /\ rpcSeq' = rpcSeq + 1 /\ rpcSeq' \in 0 .. MaxAsked[page]
  /\ pending' = pending \cup {r[2]} /\ r[2] \notin pending /\ pending' \subseteq 1 .. rpcSeq'
  /\ jobs' \in [Requests -> Jobs]
  /\ \A q \in Requests \ {r} : jobs'[q] = jobs[q]
  /\ jobs'[r].phase = "sent" /\ jobs'[r].toggle = t

\* A request that the page sends, and what it leaves alone.
LEMMA Sending ==
  ASSUME PanelInv, NEW t \in Toggles, SendRequest(t)
  PROVE  \E r \in Requests : Sent(r, t)
<1> DEFINE r == <<page, rpcSeq + 1>>
           j == [NotAsked EXCEPT !.phase = "sent", !.toggle = t]
<1>1. /\ page \in 1 .. MaxPages /\ rpcSeq \in Nat /\ MaxAsked[page] \in Nat /\ pending \subseteq 1 .. rpcSeq
      /\ rpcSeq < MaxAsked[page] /\ jobs \in [Requests -> Jobs]
  BY PanelSyncAssumption DEF PanelInv, PanelTypes, SendRequest
<1>2. r \in Requests /\ r[1] = page /\ r[2] = rpcSeq + 1
  BY <1>1, RequestsArePairs
<1>3. /\ rpcSeq' = rpcSeq + 1 /\ pending' = pending \cup {rpcSeq + 1}
      /\ jobs' = [jobs EXCEPT ![r] = j]
  BY DEF SendRequest
<1>4. j \in Jobs /\ j.phase = "sent" /\ j.toggle = t
  BY DEF NotAsked, NoToggle, Jobs, Toggles
<1>5. jobs[r] = NotAsked
  <2>1. jobs[r].phase # "none" => r[2] <= rpcSeq
    BY <1>2 DEF PanelInv, RequestsNumbered
  <2>2. jobs[r].phase = "none"
    BY <2>1, <1>1, <1>2
  <2> QED BY <1>2, <2>2 DEF PanelInv, RequestsNumbered
<1>6. rpcSeq' \in 0 .. MaxAsked[page] /\ rpcSeq + 1 \notin pending /\ pending' \subseteq 1 .. rpcSeq'
  BY <1>1, <1>3
<1> HIDE DEF r, j
<1>7. jobs' \in [Requests -> Jobs] /\ jobs'[r] = j /\ \A q \in Requests \ {r} : jobs'[q] = jobs[q]
  BY <1>1, <1>2, <1>3, <1>4
<1> QED BY <1>2, <1>3, <1>4, <1>5, <1>6, <1>7 DEF Sent

\* The requests, the tail and the fetches after that.
LEMMA SentKeeps ==
  ASSUME PanelInv, NEW t \in Toggles, NEW r \in Requests, Sent(r, t),
         UNCHANGED <<page, configTail, panelFetchSeq>>
  PROVE  RequestsNumbered' /\ TailHolds' /\ FetchesAreNumbered'
<1> USE DEF PanelInv
<1>1. jobs[r].phase = "none" /\ jobs'[r].phase = "sent"
  BY DEF Sent, NotAsked
<1>2. page \in Nat /\ rpcSeq \in Nat /\ configTail \in Seq(Requests)
  BY PanelSyncAssumption DEF PanelTypes
<1>3. \A q \in Requests : q[1] \in Nat /\ q[2] \in Nat
  BY RequestsArePairs, PanelSyncAssumption
<1>4. RequestsNumbered'
  <2>1. ASSUME NEW q \in Requests
        PROVE  /\ jobs'[q].phase = "none" => jobs'[q] = NotAsked
               /\ jobs'[q].phase # "none" => q[1] <= page /\ (q[1] = page => q[2] <= rpcSeq')
               /\ q[1] = page /\ jobs'[q].phase = "sent" => q[2] \in pending'
               /\ q[1] = page /\ q[2] \in pending' => jobs'[q].phase # "none"
               /\ jobs'[q].phase = "tail" => jobs'[q].toggle # NoToggle
    <3>1. CASE q = r
      BY <1>1, <1>2, <3>1 DEF Sent
    <3>2. CASE q # r
      <4>1. q[1] = page => q[2] # r[2]
        BY <3>2, RequestsArePairs DEF Sent
      <4>2. jobs'[q] = jobs[q]
        BY <3>2 DEF Sent
      <4>3. q[1] = page => (q[2] \in pending' <=> q[2] \in pending)
        BY <4>1 DEF Sent
      <4> QED BY <1>2, <1>3, <4>2, <4>3 DEF Sent, RequestsNumbered, Waits, IsToggle
    <3> QED BY <3>1, <3>2
  <2>2. ASSUME NEW p \in Requests, NEW q \in Requests, p[1] = page, q[1] = page,
               jobs'[p].phase = "sent", jobs'[q].phase \notin {"none", "sent"}
        PROVE  q[2] < p[2]
    <3>1. q # r /\ jobs'[q] = jobs[q] /\ q[2] <= rpcSeq
      BY <1>1, <2>2 DEF Sent, RequestsNumbered
    <3>2. CASE p = r
      BY <1>2, <1>3, <3>1, <3>2 DEF Sent
    <3>3. CASE p # r
      BY <2>2, <3>1, <3>3 DEF Sent, RequestsNumbered
    <3> QED BY <3>2, <3>3
  <2> QED BY <2>1, <2>2 DEF RequestsNumbered, Waits, IsToggle
<1>5. TailHolds'
  <2>1. \A i \in 1 .. Len(configTail) : configTail[i] \in Requests /\ configTail[i] # r
    BY <1>1, <1>2 DEF TailHolds
  <2>2. \A q \in Requests : jobs'[q].phase = "tail" => jobs[q].phase = "tail"
    BY <1>1 DEF Sent
  <2> QED BY <2>1, <2>2 DEF TailHolds, Sent
<1>6. FetchesAreNumbered'
  <2>1. \A q \in PanelFetches' : q \in PanelFetches /\ jobs'[q] = jobs[q]
    BY <1>1 DEF PanelFetches, Sent
  <2> QED BY <2>1 DEF FetchesAreNumbered
<1> QED BY <1>4, <1>5, <1>6

\* The other requests of the page are waited for as before.
LEMMA SentWaits ==
  ASSUME PanelInv, NEW t \in Toggles, NEW r \in Requests, Sent(r, t), page' = page
  PROVE  /\ \A q \in Requests \ {r} : jobs'[q] = jobs[q] /\ (Waits(q)' <=> Waits(q))
         /\ Waits(r)' /\ ~ Waits(r) /\ jobs'[r].toggle = t /\ jobs'[r].phase = "sent"
         /\ jobs[r].phase = "none" /\ jobs[r].toggle = NoToggle /\ r \notin PanelFetches'
         /\ \A q \in Requests \ {r} : q \in PanelFetches' <=> q \in PanelFetches
<1>1. \A q \in Requests \ {r} : q[1] = page => q[2] # r[2]
  BY RequestsArePairs DEF Sent
<1>2. \A q \in Requests \ {r} : jobs'[q] = jobs[q] /\ (Waits(q)' <=> Waits(q))
  BY <1>1 DEF Sent, Waits
<1> QED BY <1>2 DEF Sent, Waits, NotAsked, PanelFetches

\* fetchPanel shows that it loads, unless there is data.
LEMMA LoadingFacts ==
  ASSUME slot \in Slots
  PROVE  /\ Loading(slot) \in Slots
         /\ Loading(slot).status = "success" => slot.status = "success"
         /\ Loading(slot).on = slot.on /\ Loading(slot).refreshError = slot.refreshError
BY DEF Loading, Slots

LEMMA NoToggleIs == NoToggle \in Toggles /\ NoToggle.mount = 0
BY DEF NoToggle, Toggles

LEMMA RequestPanelKeeps == PanelInv /\ RequestPanel => PanelInv'
<1> SUFFICES ASSUME PanelInv, RequestPanel PROVE PanelInv'
  OBVIOUS
<1> USE DEF PanelInv
<1>1. /\ SendRequest(NoToggle) /\ slot' = Loading(slot)
      /\ UNCHANGED <<page, mount, switch, queued, configTail, panelFetchSeq, saved, lapsed>>
  BY DEF RequestPanel
<1>2. PICK r \in Requests : Sent(r, NoToggle)
  BY <1>1, Sending, NoToggleIs
<1>3. RequestsNumbered' /\ TailHolds' /\ FetchesAreNumbered'
  BY <1>1, <1>2, SentKeeps, NoToggleIs
<1>4. /\ \A q \in Requests \ {r} : jobs'[q] = jobs[q] /\ (Waits(q)' <=> Waits(q))
      /\ Waits(r)' /\ ~ Waits(r) /\ jobs'[r].toggle = NoToggle /\ jobs'[r].phase = "sent"
      /\ jobs[r].phase = "none" /\ jobs[r].toggle = NoToggle /\ r \notin PanelFetches'
      /\ \A q \in Requests \ {r} : q \in PanelFetches' <=> q \in PanelFetches
  BY <1>1, <1>2, SentWaits, NoToggleIs
<1>5. mount # 0 /\ NoToggle.mount = 0 /\ ~ Mine(jobs'[r].toggle) /\ ~ Mine(jobs[r].toggle) /\ r \notin PanelFetches
  BY <1>4, NoToggleIs DEF PanelTypes, Mine, PanelFetches
<1>6. PanelTypes'
  BY <1>1, <1>2, LoadingFacts DEF PanelTypes, Sent
<1>7. TogglesNumbered'
  <2>1. \A q \in Requests : jobs'[q].toggle = jobs[q].toggle
    BY <1>4
  <2>2. \A q \in Requests : Mine(jobs[q].toggle) => (Waits(q)' <=> Waits(q))
    BY <1>4, <1>5
  <2> QED BY <1>1, <2>1, <2>2 DEF TogglesNumbered, Mine
<1>8. WishKept'
  BY <1>1, <1>4, <1>5 DEF WishKept, NewestQueued, NewestWaits, Mine
<1>9. NotWritten => NotWritten'
  BY <1>1, <1>4, <1>5 DEF NotWritten, NewestQueued, NewestWaits, Mine
<1>10. GivenUpIsSaid'
  BY <1>1, <1>4, <1>5, <1>9 DEF GivenUpIsSaid, Mine
<1>11. NewestComes => NewestComes'
  BY <1>1, <1>2, <1>4, <1>5 DEF NewestComes, IsToggle, PanelFetches, Sent
<1>12. SpinsForAnAnswer'
  BY <1>4 DEF SpinsForAnAnswer, IsToggle
<1>13. ShownIsSaved'
  <2>1. slot'.status = "success" => slot.status = "success" /\ slot'.on = slot.on /\ slot'.refreshError = slot.refreshError
    BY <1>1, LoadingFacts DEF PanelTypes
  <2>2. \A q \in PanelFetches' : q \in PanelFetches /\ jobs'[q] = jobs[q]
    BY <1>4 DEF PanelFetches
  <2> QED BY <1>1, <1>9, <1>11, <2>1, <2>2 DEF ShownIsSaved
<1> QED BY <1>3, <1>6, <1>7, <1>8, <1>10, <1>12, <1>13

\* A component that is mounted has a switch of its own.
LEMMA FreshSwitchIs ==
  FreshSwitch \in Switches /\ FreshSwitch.latest = 0 /\ FreshSwitch.settled = 0 /\ FreshSwitch.override = Absent
BY DEF FreshSwitch, Switches, Absent

LEMMA ReopenPanelKeeps == PanelInv /\ ReopenPanel => PanelInv'
<1> SUFFICES ASSUME PanelInv, ReopenPanel PROVE PanelInv'
  OBVIOUS
<1> USE DEF PanelInv
<1>1. /\ SendRequest(NoToggle) /\ slot' = Loading(slot) /\ mount' = mount + 1 /\ lapsed' = TRUE
      /\ switch' = FreshSwitch
      /\ UNCHANGED <<page, queued, configTail, panelFetchSeq, saved>>
  BY DEF ReopenPanel
<1>2. PICK r \in Requests : Sent(r, NoToggle)
  BY <1>1, Sending, NoToggleIs
<1>3. RequestsNumbered' /\ TailHolds' /\ FetchesAreNumbered'
  BY <1>1, <1>2, SentKeeps, NoToggleIs
<1>4. \A q \in Requests : jobs'[q].toggle = jobs[q].toggle
  BY <1>1, <1>2, SentWaits, NoToggleIs
<1>5. /\ \A q \in Requests : jobs'[q].toggle.mount <= mount /\ ~ Mine(jobs[q].toggle)'
      /\ \A i \in 1 .. Len(queued) : queued[i].mount <= mount /\ queued[i].mount # 0 /\ ~ Mine(queued[i])'
  BY <1>1, <1>4, TogglesAre DEF TogglesNumbered, Mine
<1>6. PanelTypes'
  BY <1>1, <1>2, LoadingFacts, FreshSwitchIs DEF PanelTypes, Sent
<1>7. TogglesNumbered'
  BY <1>1, <1>4, <1>5, TogglesAre DEF TogglesNumbered
<1>8. WishKept' /\ GivenUpIsSaid'
  BY <1>1, <1>5, FreshSwitchIs DEF WishKept, NewestQueued, NewestWaits, GivenUpIsSaid
<1>9. SpinsForAnAnswer' /\ ShownIsSaved'
  BY <1>1 DEF SpinsForAnAnswer, ShownIsSaved
<1> QED BY <1>3, <1>6, <1>7, <1>8, <1>9

LEMMA ReloadPageKeeps == PanelInv /\ ReloadPage => PanelInv'
<1> SUFFICES ASSUME PanelInv, ReloadPage PROVE PanelInv'
  OBVIOUS
<1> USE DEF PanelInv
<1>1. /\ page < MaxPages /\ page' = page + 1 /\ mount' = mount + 1 /\ lapsed' = TRUE
      /\ rpcSeq' = 0 /\ pending' = {} /\ slot' = FreshSlot /\ switch' = FreshSwitch /\ queued' = << >>
      /\ UNCHANGED <<jobs, configTail, panelFetchSeq, saved>>
  BY DEF ReloadPage
<1>2. page \in Nat /\ page' \in 1 .. MaxPages /\ mount \in Nat /\ MaxAsked[page'] \in Nat
  BY <1>1, PanelSyncAssumption DEF PanelTypes
<1>3. \A r \in Requests : r[1] \in Nat /\ r[2] \in Nat /\ jobs[r].toggle.mount \in Nat
  BY RequestsArePairs, PanelSyncAssumption, TogglesAre
<1>4. \A r \in Requests : jobs[r].phase # "none" => r[1] <= page /\ r[1] # page'
  BY <1>1, <1>2, <1>3 DEF RequestsNumbered
<1>5. \A r \in Requests : ~ Waits(r)' /\ ~ Mine(jobs[r].toggle)' /\ jobs'[r].toggle.mount <= mount'
  BY <1>1, <1>2, <1>3 DEF Waits, Mine, TogglesNumbered
<1>6. PanelTypes'
  <2>1. slot' \in Slots
    BY <1>1 DEF FreshSlot, Slots
  <2>2. page' \in 1 .. MaxPages /\ mount' \in Nat \ {0} /\ rpcSeq' \in 0 .. MaxAsked[page']
        /\ pending' \subseteq 1 .. rpcSeq'
    BY <1>1, <1>2
  <2>3. switch' \in Switches /\ queued' \in Seq(Toggles)
    BY <1>1, FreshSwitchIs
  <2> QED BY <1>1, <2>1, <2>2, <2>3 DEF PanelTypes
<1>7. RequestsNumbered'
  BY <1>1, <1>2, <1>3, <1>4, <1>5 DEF RequestsNumbered, IsToggle
<1>8. TailHolds'
  <2>1. \A i \in 1 .. Len(configTail) : configTail[i] \in Requests
    BY DEF PanelTypes
  <2>2. \A i \in 1 .. Len(configTail) : configTail[i][1] # page'
    BY <2>1, <1>4 DEF TailHolds
  <2> QED BY <1>1, <2>2 DEF TailHolds
<1>9. TogglesNumbered'
  BY <1>1, <1>5 DEF TogglesNumbered
<1>10. WishKept' /\ GivenUpIsSaid' /\ FetchesAreNumbered'
  BY <1>1, <1>5, FreshSwitchIs
  DEF WishKept, NewestQueued, NewestWaits, GivenUpIsSaid, FetchesAreNumbered, PanelFetches
<1>11. SpinsForAnAnswer' /\ ShownIsSaved'
  BY <1>1 DEF SpinsForAnAnswer, ShownIsSaved
<1> QED BY <1>6, <1>7, <1>8, <1>9, <1>10, <1>11

LEMMA ClickSwitchKeeps == PanelInv /\ ClickSwitch => PanelInv'
<1> SUFFICES ASSUME PanelInv, ClickSwitch PROVE PanelInv'
  OBVIOUS
<1> USE DEF PanelInv
<1> DEFINE n == switch.latest + 1
           t == [mount |-> mount, seq |-> n, want |-> ~ ShownOn]
<1>1. /\ switch' = [switch EXCEPT !.override = {~ ShownOn}, !.latest = n, !.error = FALSE]
      /\ queued' = Append(queued, t)
      /\ UNCHANGED <<page, mount, rpcSeq, pending, slot, panelHostVars>>
  BY DEF ClickSwitch
<1>2. switch.latest \in Nat /\ switch.settled \in Nat /\ n \in Nat /\ n = switch.latest + 1
  BY DEF PanelTypes, Switches
<1>4. (~ ShownOn) \in BOOLEAN /\ {~ ShownOn} \in SUBSET BOOLEAN
  OBVIOUS
<1> DEFINE w == ~ ShownOn
<1> HIDE DEF n
<1>5. /\ t \in Toggles /\ t.mount = mount /\ t.seq = n /\ t.want = w
      /\ switch' \in Switches /\ switch'.latest = n /\ switch'.settled = switch.settled
      /\ switch'.override = {w}
  BY <1>1, <1>2, <1>4 DEF PanelTypes, Toggles, Switches
<1> HIDE DEF t, w
<1>6. /\ Len(queued') = Len(queued) + 1 /\ Len(queued) \in Nat /\ queued' \in Seq(Toggles)
      /\ queued'[Len(queued) + 1] = t /\ \A i \in 1 .. Len(queued) : queued'[i] = queued[i]
  BY <1>1, <1>5 DEF PanelTypes
<1>7. PanelTypes'
  BY <1>1, <1>5, <1>6 DEF PanelTypes, panelHostVars
<1>8. RequestsNumbered' /\ TailHolds' /\ FetchesAreNumbered' /\ SpinsForAnAnswer'
  BY <1>1 DEF panelHostVars, RequestsNumbered, TailHolds, FetchesAreNumbered, SpinsForAnAnswer,
     Waits, IsToggle, PanelFetches, NewestComes
<1>9. \A r \in Requests : (Waits(r)' <=> Waits(r)) /\ jobs'[r] = jobs[r] /\ jobs[r].toggle.seq \in Nat
  BY <1>1, TogglesAre DEF panelHostVars, Waits
<1>10. \A i \in 1 .. Len(queued) : queued[i].seq \in Nat /\ queued[i].mount \in Nat
  BY TogglesAre
<1>11. mount' = mount /\ mount \in Nat /\ mount # 0
  BY <1>1 DEF PanelTypes
<1>17. /\ \A r \in Requests : Mine(jobs[r].toggle)' <=> Mine(jobs[r].toggle)
       /\ \A i \in 1 .. Len(queued) : Mine(queued[i])' <=> Mine(queued[i])
       /\ \A i \in 1 .. Len(queued') : i \in 1 .. Len(queued) \/ i = Len(queued) + 1
  BY <1>6, <1>9, <1>11 DEF Mine
<1>18. \A i \in 1 .. Len(queued) : Mine(queued[i]) => queued[i].seq < n
  BY <1>2, <1>10 DEF TogglesNumbered
<1>19. \A r \in Requests : Mine(jobs[r].toggle) => jobs[r].toggle.seq < n
  BY <1>2, <1>9 DEF TogglesNumbered
<1>20. switch.settled < n
  BY <1>2 DEF WishKept
<1>12. TogglesNumbered'
  <2>1. \A r \in Requests :
          /\ jobs'[r].toggle.mount <= mount'
          /\ Mine(jobs[r].toggle)' => r[1] = page' /\ jobs'[r].toggle.seq <= switch'.latest
          /\ Mine(jobs[r].toggle)' /\ Waits(r)' => switch'.settled < jobs'[r].toggle.seq
    BY <1>1, <1>2, <1>5, <1>9, <1>11, <1>17, <1>19 DEF TogglesNumbered
  <2>2. \A i \in 1 .. Len(queued') :
          /\ queued'[i].mount <= mount' /\ queued'[i].mount # 0
          /\ Mine(queued[i])' => switch'.settled < queued'[i].seq /\ queued'[i].seq <= switch'.latest
    BY <1>2, <1>5, <1>6, <1>10, <1>11, <1>17, <1>18, <1>20 DEF TogglesNumbered
  <2>3. \A r, q \in Requests :
          Mine(jobs[r].toggle)' /\ Mine(jobs[q].toggle)'
            => /\ r[2] < q[2] => jobs'[r].toggle.seq < jobs'[q].toggle.seq
               /\ Waits(r)' /\ Waits(q)' => r = q
    BY <1>9, <1>17 DEF TogglesNumbered
  <2>4. \A i, j \in 1 .. Len(queued') :
          i < j /\ Mine(queued[i])' /\ Mine(queued[j])' => queued'[i].seq < queued'[j].seq
    <3> SUFFICES ASSUME NEW i \in 1 .. Len(queued'), NEW j \in 1 .. Len(queued'),
                        i < j, Mine(queued[i])', Mine(queued[j])'
                 PROVE  queued'[i].seq < queued'[j].seq
      OBVIOUS
    <3>1. i \in 1 .. Len(queued) /\ queued'[i] = queued[i] /\ Mine(queued[i])
      BY <1>6, <1>17
    <3>2. CASE j \in 1 .. Len(queued)
      BY <1>6, <1>17, <3>1, <3>2 DEF TogglesNumbered
    <3>3. CASE j = Len(queued) + 1
      BY <1>5, <1>6, <1>18, <3>1, <3>3
    <3> QED BY <1>17, <3>2, <3>3
  <2>5. \A r \in Requests, i \in 1 .. Len(queued') :
          Mine(jobs[r].toggle)' /\ Mine(queued[i])' => jobs'[r].toggle.seq < queued'[i].seq
    BY <1>5, <1>6, <1>9, <1>17, <1>19 DEF TogglesNumbered
  <2> QED BY <2>1, <2>2, <2>3, <2>4, <2>5 DEF TogglesNumbered
<1>13. NotWritten' /\ \E i \in 1 .. Len(queued') : NewestQueued(i)'
  BY <1>2, <1>5, <1>6, <1>11 DEF NotWritten, NewestQueued, Mine
<1>14. /\ \A i \in 1 .. Len(queued) : ~ NewestQueued(i)'
       /\ \A r \in Requests : ~ NewestWaits(r)'
  BY <1>2, <1>5, <1>6, <1>9, <1>10, <1>17, <1>18, <1>19 DEF NewestQueued, NewestWaits
<1>15. WishKept'
  BY <1>2, <1>5, <1>6, <1>13, <1>14 DEF WishKept
<1>16. GivenUpIsSaid' /\ ShownIsSaved'
  BY <1>13 DEF GivenUpIsSaid, ShownIsSaved
<1> QED BY <1>7, <1>8, <1>12, <1>15, <1>16

-----------------------------------------------------------------------------
\* The queue without its i-th toggle.
Unqueued(i) == [j \in 1 .. Len(queued) - 1 |-> IF j < i THEN queued[j] ELSE queued[j + 1]]

\* The queue without the toggle that is performed.
LEMMA UnqueuedIs ==
  ASSUME queued \in Seq(Toggles), NEW i \in 1 .. Len(queued)
  PROVE  /\ Unqueued(i) \in Seq(Toggles) /\ Len(Unqueued(i)) = Len(queued) - 1
         /\ \A j \in 1 .. Len(queued) - 1 :
              \/ j < i /\ j \in 1 .. Len(queued) /\ Unqueued(i)[j] = queued[j]
              \/ j >= i /\ j + 1 \in 1 .. Len(queued) /\ Unqueued(i)[j] = queued[j + 1]
         /\ \A k \in 1 .. Len(queued) : k # i =>
              \E j \in 1 .. Len(queued) - 1 : Unqueued(i)[j] = queued[k]
<1> DEFINE n == Len(queued) - 1
<1>1. Len(queued) \in Nat /\ n \in Nat /\ n + 1 = Len(queued) /\ \A j \in 1 .. Len(queued) : queued[j] \in Toggles
  OBVIOUS
<1>2. Unqueued(i) = [j \in 1 .. n |-> IF j < i THEN queued[j] ELSE queued[j + 1]]
  BY DEF Unqueued
<1> HIDE DEF n
<1>3. \A j \in 1 .. n : j \in 1 .. Len(queued) /\ j + 1 \in 1 .. Len(queued) /\ j \in Nat
  BY <1>1
<1>4. Unqueued(i) \in [1 .. n -> Toggles]
  BY <1>1, <1>2, <1>3
<1>5. Unqueued(i) \in Seq(Toggles) /\ Len(Unqueued(i)) = n
  BY <1>1, <1>4, IsASeq, LenProperties
<1>6. \A j \in 1 .. n : Unqueued(i)[j] = IF j < i THEN queued[j] ELSE queued[j + 1]
  BY <1>2
<1>7. ASSUME NEW k \in 1 .. Len(queued), k # i
      PROVE  \E j \in 1 .. n : Unqueued(i)[j] = queued[k]
  <2>1. CASE k < i
    BY <1>1, <1>6, <2>1
  <2>2. CASE k > i
    <3>1. k - 1 \in 1 .. n /\ ~ (k - 1 < i) /\ (k - 1) + 1 = k
      BY <1>1, <2>2
    <3> QED BY <1>6, <3>1
  <2> QED BY <1>7, <2>1, <2>2
<1> QED BY <1>1, <1>3, <1>5, <1>6, <1>7 DEF n

LEMMA PerformToggleKeeps == PanelInv /\ PerformToggle => PanelInv'
<1> SUFFICES ASSUME PanelInv, PerformToggle PROVE PanelInv'
  OBVIOUS
<1> USE DEF PanelInv
<1>0. queued \in Seq(Toggles) /\ DOMAIN queued = 1 .. Len(queued)
      /\ \A i \in 1 .. Len(queued) : queued[i] \in Toggles
  BY DEF PanelTypes
<1>1. PICK i \in 1 .. Len(queued) :
        /\ \A j \in 1 .. i - 1 : queued[j].mount # queued[i].mount
        /\ \A id \in pending : jobs[<<page, id>>].toggle.mount # queued[i].mount
        /\ SendRequest(queued[i])
        /\ queued' = Unqueued(i)
        /\ UNCHANGED <<page, mount, slot, switch, configTail, panelFetchSeq, saved, lapsed>>
  BY <1>0 DEF PerformToggle, Unqueued
<1> DEFINE t == queued[i]
<1> HIDE DEF t
<1>2. t \in Toggles /\ t = queued[i]
  BY <1>0 DEF t
<1>3. PICK r \in Requests : Sent(r, t)
  BY <1>1, <1>2, Sending
<1>4. RequestsNumbered' /\ TailHolds' /\ FetchesAreNumbered'
  BY <1>1, <1>2, <1>3, SentKeeps
<1>5. /\ \A q \in Requests \ {r} : jobs'[q] = jobs[q] /\ (Waits(q)' <=> Waits(q))
      /\ Waits(r)' /\ ~ Waits(r) /\ jobs'[r].toggle = t /\ jobs'[r].phase = "sent"
      /\ jobs[r].phase = "none" /\ jobs[r].toggle = NoToggle /\ r \notin PanelFetches'
      /\ \A q \in Requests \ {r} : q \in PanelFetches' <=> q \in PanelFetches
  BY <1>1, <1>2, <1>3, SentWaits
<1>6. /\ queued' \in Seq(Toggles) /\ Len(queued') = Len(queued) - 1 /\ Len(queued) \in Nat
      /\ \A j \in 1 .. Len(queued') :
           \/ j < i /\ j \in 1 .. Len(queued) /\ queued'[j] = queued[j]
           \/ j >= i /\ j + 1 \in 1 .. Len(queued) /\ queued'[j] = queued[j + 1]
      /\ \A k \in 1 .. Len(queued) : k # i => \E j \in 1 .. Len(queued') : queued'[j] = queued[k]
  <2>1. queued' = Unqueued(i)
    BY <1>1
  <2>4. Len(queued) \in Nat
    BY <1>0
  <2>2. Len(Unqueued(i)) = Len(queued) - 1 /\ Unqueued(i) \in Seq(Toggles)
    BY <1>0, UnqueuedIs
  <2>3. /\ \A j \in 1 .. Len(queued) - 1 :
              \/ j < i /\ j \in 1 .. Len(queued) /\ Unqueued(i)[j] = queued[j]
              \/ j >= i /\ j + 1 \in 1 .. Len(queued) /\ Unqueued(i)[j] = queued[j + 1]
        /\ \A k \in 1 .. Len(queued) : k # i =>
              \E j \in 1 .. Len(queued) - 1 : Unqueued(i)[j] = queued[k]
    BY <1>0, UnqueuedIs
  <2> QED BY <2>1, <2>2, <2>3, <2>4, Zenon
<1>7. mount # 0 /\ mount' = mount /\ switch' = switch /\ ~ Mine(jobs[r].toggle) /\ t.mount # 0
      /\ page' = page
  BY <1>1, <1>2, <1>5, NoToggleIs, TogglesAre DEF Mine, TogglesNumbered
<1>8. \A q \in Requests : Waits(q) /\ Mine(jobs[q].toggle) => ~ Mine(t)
  BY <1>1, <1>2, RequestsArePairs DEF Waits, Mine
<1>9. \A j \in 1 .. Len(queued) : j < i /\ Mine(queued[j]) => ~ Mine(t)
  BY <1>1, <1>2 DEF Mine
<1>10. /\ \A j \in 1 .. Len(queued') : \E k \in 1 .. Len(queued) : k # i /\ queued'[j] = queued[k]
       /\ Mine(t) => \A j \in 1 .. Len(queued') : Mine(queued'[j]) =>
            \E k \in 1 .. Len(queued) : i < k /\ queued'[j] = queued[k]
  <2> SUFFICES ASSUME NEW j \in 1 .. Len(queued')
               PROVE  \E k \in 1 .. Len(queued) :
                        /\ k # i /\ queued'[j] = queued[k]
                        /\ Mine(t) /\ Mine(queued'[j]) => i < k
    OBVIOUS
  <2>1. CASE j < i /\ j \in 1 .. Len(queued) /\ queued'[j] = queued[j]
    BY <1>9, <2>1
  <2>2. CASE j >= i /\ j + 1 \in 1 .. Len(queued) /\ queued'[j] = queued[j + 1]
    <3>1. i < j + 1 /\ j + 1 # i
      BY <1>6, <2>2
    <3> QED BY <2>2, <3>1
  <2> QED BY <1>6, <2>1, <2>2
<1>11. PanelTypes'
  BY <1>1, <1>3, <1>6 DEF PanelTypes, Sent
<1>12. Mine(t) => /\ switch.settled < t.seq /\ t.seq <= switch.latest
                  /\ \A q \in Requests : Mine(jobs[q].toggle) => jobs[q].toggle.seq < t.seq
                  /\ \A k \in 1 .. Len(queued) : i < k /\ Mine(queued[k]) => t.seq < queued[k].seq
  BY <1>2, TogglesAre DEF TogglesNumbered
<1>13. \A q, p \in Requests : q[1] = page /\ p[1] = page /\ q # p => q[2] # p[2]
  BY RequestsArePairs
<1>14. r[1] = page /\ r[2] = rpcSeq + 1
  BY <1>3 DEF Sent
<1>15. \A q \in Requests : Mine(jobs[q].toggle) => q[1] = page /\ q[2] < r[2]
  <2> SUFFICES ASSUME NEW q \in Requests, Mine(jobs[q].toggle) PROVE q[1] = page /\ q[2] < r[2]
    OBVIOUS
  <2>1. q[1] = page /\ jobs[q].phase # "none"
    BY <1>7, NoToggleIs DEF TogglesNumbered, RequestsNumbered, NotAsked, Mine
  <2>2. q[2] <= rpcSeq /\ q[2] \in Nat /\ rpcSeq \in Nat
    BY <2>1, RequestsArePairs, PanelSyncAssumption DEF RequestsNumbered, PanelTypes
  <2> QED BY <1>14, <2>1, <2>2
<1>16. TogglesNumbered'
  <2>1. \A q \in Requests :
          /\ jobs'[q].toggle.mount <= mount'
          /\ Mine(jobs[q].toggle)' => q[1] = page' /\ jobs'[q].toggle.seq <= switch'.latest
          /\ Mine(jobs[q].toggle)' /\ Waits(q)' => switch'.settled < jobs'[q].toggle.seq
    BY <1>2, <1>5, <1>7, <1>12, <1>14 DEF TogglesNumbered, Mine
  <2>2. \A j \in 1 .. Len(queued') :
          /\ queued'[j].mount <= mount' /\ queued'[j].mount # 0
          /\ Mine(queued[j])' => switch'.settled < queued'[j].seq /\ queued'[j].seq <= switch'.latest
    BY <1>7, <1>10 DEF TogglesNumbered, Mine
  <2>3. \A q, p \in Requests :
          Mine(jobs[q].toggle)' /\ Mine(jobs[p].toggle)'
            => /\ q[2] < p[2] => jobs'[q].toggle.seq < jobs'[p].toggle.seq
               /\ Waits(q)' /\ Waits(p)' => q = p
    <3> SUFFICES ASSUME NEW q \in Requests, NEW p \in Requests,
                        Mine(jobs'[q].toggle), Mine(jobs'[p].toggle)
                 PROVE  /\ q[2] < p[2] => jobs'[q].toggle.seq < jobs'[p].toggle.seq
                        /\ Waits(q)' /\ Waits(p)' => q = p
      BY <1>7 DEF Mine
    <3>1. CASE q # r /\ p # r
      BY <1>5, <3>1 DEF TogglesNumbered
    <3>2. CASE q # r /\ p = r
      BY <1>5, <1>8, <1>12, <3>2
    <3>3. CASE q = r /\ p # r
      <4>1. ~ (q[2] < p[2]) /\ ~ Waits(p)'
        <5>1. p[2] < r[2] /\ ~ Waits(p)'
          BY <1>5, <1>8, <1>15, <3>3
        <5>2. p[2] \in Nat /\ r[2] \in Nat
          BY RequestsArePairs
        <5> QED BY <3>3, <5>1, <5>2
      <4> QED BY <4>1
    <3>4. CASE q = r /\ p = r
      BY <3>4, RequestsArePairs
    <3> QED BY <3>1, <3>2, <3>3, <3>4
  <2>4. \A j, k \in 1 .. Len(queued') :
          j < k /\ Mine(queued[j])' /\ Mine(queued[k])' => queued'[j].seq < queued'[k].seq
    <3> SUFFICES ASSUME NEW j \in 1 .. Len(queued'), NEW k \in 1 .. Len(queued'),
                        j < k, Mine(queued'[j]), Mine(queued'[k])
                 PROVE  queued'[j].seq < queued'[k].seq
      BY <1>7 DEF Mine
    <3>1. \E a, b \in 1 .. Len(queued) : a < b /\ queued'[j] = queued[a] /\ queued'[k] = queued[b]
      <4>1. CASE k < i
        <5>1. j < i /\ ~ (j >= i) /\ ~ (k >= i)
          BY <1>6, <4>1
        <5> QED BY <1>6, <5>1
      <4>2. CASE j < i /\ ~ (k < i)
        <5>1. j < k + 1 /\ ~ (j >= i)
          BY <1>6, <4>2
        <5> QED BY <1>6, <4>2, <5>1
      <4>3. CASE ~ (j < i) /\ ~ (k < i)
        <5>1. j + 1 < k + 1
          BY <1>6
        <5> QED BY <1>6, <4>3, <5>1
      <4> QED BY <1>6, <4>1, <4>2, <4>3
    <3> QED BY <3>1 DEF TogglesNumbered
  <2>5. \A q \in Requests, j \in 1 .. Len(queued') :
          Mine(jobs[q].toggle)' /\ Mine(queued[j])' => jobs'[q].toggle.seq < queued'[j].seq
    <3> SUFFICES ASSUME NEW q \in Requests, NEW j \in 1 .. Len(queued'),
                        Mine(jobs'[q].toggle), Mine(queued'[j])
                 PROVE  jobs'[q].toggle.seq < queued'[j].seq
      BY <1>7 DEF Mine
    <3>1. CASE q # r
      BY <1>5, <1>10, <3>1 DEF TogglesNumbered
    <3>2. CASE q = r
      BY <1>5, <1>10, <1>12, <3>2
    <3> QED BY <3>1, <3>2
  <2> QED BY <2>1, <2>2, <2>3, <2>4, <2>5 DEF TogglesNumbered
<1>17. /\ (\E j \in 1 .. Len(queued) : NewestQueued(j)) =>
            \/ \E j \in 1 .. Len(queued') : NewestQueued(j)'
            \/ NewestWaits(r)'
       /\ \A q \in Requests \ {r} : NewestWaits(q)' <=> NewestWaits(q)
  BY <1>2, <1>5, <1>6, <1>7 DEF NewestQueued, NewestWaits, Mine
<1>18. WishKept'
  <2>1. \A j \in 1 .. Len(queued') : NewestQueued(j)' => switch.override = {queued'[j].want}
    BY <1>7, <1>10 DEF NewestQueued, WishKept, Mine
  <2>2. \A q \in Requests : NewestWaits(q)' => switch.override = {jobs'[q].toggle.want}
    BY <1>2, <1>5, <1>7, <1>17 DEF NewestQueued, NewestWaits, WishKept, Mine
  <2>3. ~ NewestWaits(r)
    BY <1>5 DEF NewestWaits
  <2> QED BY <1>7, <1>17, <2>1, <2>2, <2>3 DEF WishKept
<1>19. NotWritten => NotWritten'
  BY <1>5, <1>17 DEF NotWritten, NewestWaits
<1>20. GivenUpIsSaid'
  BY <1>5, <1>7, <1>19 DEF GivenUpIsSaid, Mine
<1>21. NewestComes => NewestComes'
  BY <1>1, <1>3, <1>5 DEF NewestComes, IsToggle, PanelFetches, Sent
<1>22. SpinsForAnAnswer'
  <2>1. (\E q \in Requests : Waits(q) /\ jobs[q].phase = "sent" /\ ~ IsToggle(q)) =>
          \E q \in Requests : Waits(q)' /\ jobs'[q].phase = "sent" /\ ~ IsToggle(q)'
    BY <1>5 DEF IsToggle
  <2> QED BY <1>1, <1>21, <2>1 DEF SpinsForAnAnswer
<1>23. ShownIsSaved'
  <2>1. \A q \in PanelFetches' : q \in PanelFetches /\ jobs'[q] = jobs[q]
    BY <1>5 DEF PanelFetches
  <2> QED BY <1>1, <1>19, <1>21, <2>1 DEF ShownIsSaved
<1> QED BY <1>4, <1>11, <1>16, <1>18, <1>20, <1>22, <1>23

-----------------------------------------------------------------------------
\* What the answer to a toggle t leaves of the switch.
SwitchAfter(t, ok) ==
  /\ switch' \in Switches /\ switch'.latest = switch.latest
  /\ ~ Mine(t) => switch' = switch
  /\ Mine(t) /\ t.seq = switch.latest =>
       /\ switch'.settled = switch.latest /\ switch'.override = Absent
       /\ ~ ok => switch'.error
  /\ Mine(t) /\ t.seq # switch.latest =>
       switch'.settled = switch.settled /\ switch'.override = switch.override
  /\ switch.error => switch'.error

\* What is asked for next, when the newest toggle is settled or the switch is clicked.
LEMMA Switching ==
  ASSUME switch \in Switches, NEW t \in Toggles, NEW ok \in BOOLEAN,
         Mine(t) => switch.settled < t.seq /\ t.seq <= switch.latest,
         switch' = IF ~ Mine(t) THEN switch
                   ELSE IF ok THEN Confirmed(switch, t) ELSE RolledBack(switch, t)
  PROVE  SwitchAfter(t, ok)
<1>1. switch.latest \in Nat /\ switch.settled \in Nat /\ t.seq \in Nat
  BY DEF Switches, Toggles
<1>2. CASE ~ Mine(t)
  BY <1>2 DEF SwitchAfter
<1>3. CASE Mine(t) /\ ok
  <2> DEFINE c == [switch EXCEPT !.confirmed = {t.want},
                       !.settled = IF switch.latest = t.seq THEN t.seq ELSE @]
  <2>1. switch' = Reconciled(c)
    BY <1>3 DEF Confirmed
  <2>2. /\ c \in Switches /\ c.latest = switch.latest /\ c.override = switch.override /\ c.error = switch.error
        /\ c.settled = IF switch.latest = t.seq THEN t.seq ELSE switch.settled
    BY DEF Switches, Toggles
  <2> HIDE DEF c
  <2>3. CASE t.seq = switch.latest
    <3>1. switch' = [c EXCEPT !.override = Absent, !.confirmed = Absent]
      BY <2>1, <2>2, <2>3 DEF Reconciled
    <3> QED BY <1>3, <2>2, <2>3, <3>1 DEF SwitchAfter, Switches, Absent
  <2>4. CASE t.seq # switch.latest
    <3>1. c.latest # c.settled
      BY <1>1, <1>3, <2>2, <2>4
    <3>2. switch' = c
      BY <2>1, <3>1 DEF Reconciled
    <3> QED BY <1>3, <2>2, <2>4, <3>2 DEF SwitchAfter
  <2> QED BY <2>3, <2>4
<1>4. CASE Mine(t) /\ ~ ok
  <2>1. CASE t.seq # switch.latest
    <3>1. switch' = switch
      BY <1>4, <2>1 DEF RolledBack
    <3> QED BY <1>4, <2>1, <3>1 DEF SwitchAfter
  <2>2. CASE t.seq = switch.latest
    <3> DEFINE c == [switch EXCEPT !.override = switch.confirmed, !.settled = t.seq, !.error = TRUE]
    <3>1. switch' = Reconciled(c)
      BY <1>4, <2>2 DEF RolledBack
    <3>2. c \in Switches /\ c.latest = switch.latest /\ c.settled = t.seq /\ c.error = TRUE
      BY DEF Switches, Toggles
    <3> HIDE DEF c
    <3>3. switch' = [c EXCEPT !.override = Absent, !.confirmed = Absent]
      BY <2>2, <3>1, <3>2 DEF Reconciled
    <3> QED BY <1>4, <2>2, <3>2, <3>3 DEF SwitchAfter, Switches, Absent
  <2> QED BY <2>1, <2>2
<1> QED BY <1>2, <1>3, <1>4

\* The end of a request r that the host has got, or the page's giving it up: the
\* page no longer waits for it, and its job may be cleared.
Ends(r, ok) ==
  /\ UNCHANGED <<page, mount, rpcSeq, queued>>
  /\ r \in Requests /\ jobs[r].phase \notin {"none", "sent"} /\ ok \in BOOLEAN
  /\ jobs' \in [Requests -> Jobs] /\ jobs'[r] \in {jobs[r], NotAsked}
  /\ \A q \in Requests \ {r} : jobs'[q] = jobs[q]
  /\ pending' \subseteq pending
  /\ ~ Waits(r)' /\ \A q \in Requests \ {r} : Waits(q)' <=> Waits(q)
  /\ IF Waits(r) THEN SwitchAfter(jobs[r].toggle, ok) ELSE switch' = switch

LEMMA NotAskedIs ==
  NotAsked \in Jobs /\ NotAsked.phase = "none" /\ NotAsked.toggle = NoToggle /\ NotAsked.toggle.mount = 0
BY DEF NotAsked, NoToggle, Jobs, Toggles

\* A request ends: its answer arrives, or the page gives it up.
LEMMA EndsKeeps ==
  ASSUME PanelInv, NEW r \in Requests, NEW ok \in BOOLEAN, Ends(r, ok)
  PROVE  RequestsNumbered' /\ TogglesNumbered' /\ WishKept'
<1> USE DEF PanelInv
<1>1. /\ UNCHANGED <<page, mount, rpcSeq, queued>>
      /\ jobs[r].phase \notin {"none", "sent"}
      /\ jobs'[r] \in {jobs[r], NotAsked}
      /\ \A q \in Requests \ {r} : jobs'[q] = jobs[q]
      /\ pending' \subseteq pending
      /\ ~ Waits(r)' /\ \A q \in Requests \ {r} : Waits(q)' <=> Waits(q)
  BY DEF Ends
<1>2. mount # 0
  BY TogglesAre
<1>3. RequestsNumbered'
  <2>1. ASSUME NEW q \in Requests
        PROVE  /\ jobs'[q].phase = "none" => jobs'[q] = NotAsked
               /\ jobs'[q].phase # "none" => q[1] <= page' /\ (q[1] = page' => q[2] <= rpcSeq')
               /\ q[1] = page' /\ jobs'[q].phase = "sent" => q[2] \in pending'
               /\ Waits(q)' => jobs'[q].phase # "none"
               /\ jobs'[q].phase = "tail" => IsToggle(q)'
    <3>1. CASE q = r
      BY <1>1, <3>1, NotAskedIs DEF RequestsNumbered, IsToggle
    <3>2. CASE q # r
      BY <1>1, <3>2 DEF RequestsNumbered, IsToggle, Waits
    <3> QED BY <3>1, <3>2
  <2>2. \A p, q \in Requests :
          /\ p[1] = page' /\ q[1] = page'
          /\ jobs'[p].phase = "sent" /\ jobs'[q].phase \notin {"none", "sent"}
          => q[2] < p[2]
    <3> SUFFICES ASSUME NEW p \in Requests, NEW q \in Requests, p[1] = page, q[1] = page,
                        jobs'[p].phase = "sent", jobs'[q].phase \notin {"none", "sent"}
                 PROVE  q[2] < p[2]
      BY <1>1
    <3>1. p # r /\ jobs[p].phase = "sent"
      BY <1>1, NotAskedIs
    <3>2. jobs[q].phase \notin {"none", "sent"}
      BY <1>1
    <3> QED BY <3>1, <3>2 DEF RequestsNumbered
  <2> QED BY <2>1, <2>2 DEF RequestsNumbered
<1>4. \A q \in Requests : jobs'[q].toggle \in {jobs[q].toggle, NoToggle}
  BY <1>1, NotAskedIs
<1>5. \A q \in Requests : Mine(jobs[q].toggle)' => Mine(jobs[q].toggle) /\ jobs'[q].toggle = jobs[q].toggle
  BY <1>1, <1>2, <1>4, NoToggleIs DEF Mine
<1>6. \A i \in 1 .. Len(queued) : Mine(queued[i])' <=> Mine(queued[i])
  BY <1>1 DEF Mine
<1>7. \A q \in Requests : Mine(jobs[q].toggle) /\ Waits(q)
        => switch.settled < jobs[q].toggle.seq /\ jobs[q].toggle.seq <= switch.latest
  BY DEF TogglesNumbered
<1>8. /\ switch'.latest = switch.latest
      /\ \/ switch'.settled = switch.settled /\ switch'.override = switch.override /\ ~ NewestWaits(r)
         \/ NewestWaits(r) /\ switch'.settled = switch.latest /\ switch'.override = Absent
  <2>1. CASE Waits(r)
    <3>1. SwitchAfter(jobs[r].toggle, ok)
      BY <2>1 DEF Ends
    <3>2. CASE ~ Mine(jobs[r].toggle)
      BY <3>1, <3>2 DEF SwitchAfter, NewestWaits
    <3>3. CASE Mine(jobs[r].toggle) /\ jobs[r].toggle.seq = switch.latest
      BY <2>1, <3>1, <3>3 DEF SwitchAfter, NewestWaits
    <3>4. CASE Mine(jobs[r].toggle) /\ jobs[r].toggle.seq # switch.latest
      BY <2>1, <3>1, <3>4 DEF SwitchAfter, NewestWaits
    <3> QED BY <3>2, <3>3, <3>4
  <2>2. CASE ~ Waits(r)
    BY <2>2 DEF Ends, NewestWaits
  <2> QED BY <2>1, <2>2
<1>9. NewestWaits(r) => /\ \A q \in Requests \ {r} : ~ (Waits(q) /\ Mine(jobs[q].toggle))
                        /\ \A i \in 1 .. Len(queued) : ~ Mine(queued[i])
  <2> SUFFICES ASSUME NewestWaits(r)
               PROVE  /\ \A q \in Requests \ {r} : ~ (Waits(q) /\ Mine(jobs[q].toggle))
                      /\ \A i \in 1 .. Len(queued) : ~ Mine(queued[i])
    OBVIOUS
  <2>1. \A i \in 1 .. Len(queued) : ~ Mine(queued[i])
    BY TogglesAre DEF NewestWaits, TogglesNumbered
  <2> QED BY <2>1 DEF NewestWaits, TogglesNumbered
<1>10. TogglesNumbered'
  <2>1. \A q \in Requests :
          /\ jobs'[q].toggle.mount <= mount'
          /\ Mine(jobs[q].toggle)' => q[1] = page' /\ jobs'[q].toggle.seq <= switch'.latest
          /\ Mine(jobs[q].toggle)' /\ Waits(q)' => switch'.settled < jobs'[q].toggle.seq
    <3> SUFFICES ASSUME NEW q \in Requests
                 PROVE  /\ jobs'[q].toggle.mount <= mount'
                        /\ Mine(jobs[q].toggle)' => q[1] = page' /\ jobs'[q].toggle.seq <= switch'.latest
                        /\ Mine(jobs[q].toggle)' /\ Waits(q)' => switch'.settled < jobs'[q].toggle.seq
      OBVIOUS
    <3>1. jobs'[q].toggle.mount <= mount'
      BY <1>1, <1>4, NoToggleIs, TogglesAre DEF TogglesNumbered
    <3>2. Mine(jobs[q].toggle)' => q[1] = page' /\ jobs'[q].toggle.seq <= switch'.latest
      BY <1>1, <1>5, <1>8 DEF TogglesNumbered
    <3>3. Mine(jobs[q].toggle)' /\ Waits(q)' => switch'.settled < jobs'[q].toggle.seq
      BY <1>1, <1>5, <1>7, <1>8, <1>9
    <3> QED BY <3>1, <3>2, <3>3
  <2>2. \A i \in 1 .. Len(queued') :
          /\ queued'[i].mount <= mount' /\ queued'[i].mount # 0
          /\ Mine(queued[i])' => switch'.settled < queued'[i].seq /\ queued'[i].seq <= switch'.latest
    BY <1>1, <1>6, <1>8, <1>9 DEF TogglesNumbered
  <2>3. \A q, p \in Requests :
          Mine(jobs[q].toggle)' /\ Mine(jobs[p].toggle)'
            => /\ q[2] < p[2] => jobs'[q].toggle.seq < jobs'[p].toggle.seq
               /\ Waits(q)' /\ Waits(p)' => q = p
    BY <1>1, <1>5 DEF TogglesNumbered
  <2>4. \A i, j \in 1 .. Len(queued') :
          i < j /\ Mine(queued[i])' /\ Mine(queued[j])' => queued'[i].seq < queued'[j].seq
    BY <1>1, <1>6 DEF TogglesNumbered
  <2>5. \A q \in Requests, i \in 1 .. Len(queued') :
          Mine(jobs[q].toggle)' /\ Mine(queued[i])' => jobs'[q].toggle.seq < queued'[i].seq
    BY <1>1, <1>5, <1>6 DEF TogglesNumbered
  <2> QED BY <2>1, <2>2, <2>3, <2>4, <2>5 DEF TogglesNumbered
<1>11. /\ \A i \in 1 .. Len(queued) : NewestQueued(i)' <=> NewestQueued(i)
       /\ \A q \in Requests \ {r} : NewestWaits(q)' <=> NewestWaits(q)
       /\ ~ NewestWaits(r)'
  BY <1>1, <1>6, <1>8 DEF NewestQueued, NewestWaits, Mine
<1>12. WishKept'
  <2>1. CASE NewestWaits(r)
    <3>1. \A q \in Requests : ~ NewestWaits(q)'
      BY <1>9, <1>11, <2>1 DEF NewestWaits
    <3>2. \A i \in 1 .. Len(queued') : ~ NewestQueued(i)'
      BY <1>1, <1>9, <1>11, <2>1 DEF NewestQueued
    <3>3. switch'.settled <= switch'.latest /\ switch'.override = Absent /\ switch'.latest = switch'.settled
      BY <1>8, <2>1, TogglesAre
    <3> QED BY <3>1, <3>2, <3>3 DEF WishKept
  <2>2. CASE ~ NewestWaits(r)
    BY <1>1, <1>8, <1>11, <2>2 DEF WishKept
  <2> QED BY <2>1, <2>2
<1> QED BY <1>3, <1>10, <1>12

\* What becomes of a toggle that was not written, and of a fetch that is expected.
LEMMA EndsLeaves ==
  ASSUME PanelInv, NEW r \in Requests, NEW ok \in BOOLEAN, Ends(r, ok)
  PROVE  /\ switch.error => switch'.error
         /\ NotWritten /\ ~ (jobs[r].phase = "tail" /\ ok) => NotWritten' \/ switch'.error
         /\ Mine(jobs[r].toggle) /\ jobs[r].phase = "tail" /\ ~ ok => NotWritten' \/ switch'.error
         /\ ~ (jobs[r].phase = "tail" /\ ok) => GivenUpIsSaid'
         /\ panelFetchSeq' = panelFetchSeq => FetchesAreNumbered'
         /\ panelFetchSeq' = panelFetchSeq /\ ~ (r \in PanelFetches /\ jobs[r].seq = panelFetchSeq)
              => (NewestComes => NewestComes')
         /\ (\E q \in Requests : Waits(q) /\ jobs[q].phase = "sent" /\ ~ IsToggle(q)) =>
              \E q \in Requests : Waits(q)' /\ jobs'[q].phase = "sent" /\ ~ IsToggle(q)'
         /\ \A q \in PanelFetches' : q \in PanelFetches /\ jobs'[q] = jobs[q]
<1> USE DEF PanelInv
<1>1. /\ UNCHANGED <<page, mount, rpcSeq, queued>>
      /\ jobs[r].phase \notin {"none", "sent"}
      /\ jobs'[r] \in {jobs[r], NotAsked}
      /\ \A q \in Requests \ {r} : jobs'[q] = jobs[q]
      /\ pending' \subseteq pending
      /\ ~ Waits(r)' /\ \A q \in Requests \ {r} : Waits(q)' <=> Waits(q)
  BY DEF Ends
<1>2. Waits(r) => SwitchAfter(jobs[r].toggle, ok)
  BY DEF Ends
<1>3. ~ Waits(r) => switch' = switch
  BY DEF Ends
<1>4. switch'.latest = switch.latest /\ (switch.error => switch'.error)
  BY <1>2, <1>3 DEF SwitchAfter
<1>5. /\ \A i \in 1 .. Len(queued) : NewestQueued(i)' <=> NewestQueued(i)
      /\ \A q \in Requests \ {r} : NewestWaits(q)' <=> NewestWaits(q)
  BY <1>1, <1>4 DEF NewestQueued, NewestWaits, Mine
<1>6. NewestWaits(r) /\ ~ ok => switch'.error
  BY <1>2 DEF NewestWaits, SwitchAfter
<1>7. NotWritten /\ ~ (jobs[r].phase = "tail" /\ ok) => NotWritten' \/ switch'.error
  BY <1>1, <1>5, <1>6 DEF NotWritten
<1>8. Waits(r) /\ Mine(jobs[r].toggle) /\ jobs[r].toggle.seq # switch.latest => NotWritten'
  <2> SUFFICES ASSUME Waits(r), Mine(jobs[r].toggle), jobs[r].toggle.seq # switch.latest
               PROVE  NotWritten'
    OBVIOUS
  <2>1. switch.latest # switch.settled
    BY TogglesAre DEF TogglesNumbered
  <2>2. \A q \in Requests : ~ NewestWaits(q)
    BY DEF NewestWaits, TogglesNumbered
  <2>3. \E i \in 1 .. Len(queued) : NewestQueued(i)
    BY <2>1, <2>2 DEF WishKept
  <2> QED BY <1>1, <1>5, <2>3 DEF NotWritten
<1>9. Mine(jobs[r].toggle) /\ jobs[r].phase = "tail" /\ ~ ok => NotWritten' \/ switch'.error
  <2> SUFFICES ASSUME Mine(jobs[r].toggle), jobs[r].phase = "tail", ~ ok PROVE NotWritten' \/ switch'.error
    OBVIOUS
  <2>1. CASE Waits(r)
    BY <1>6, <1>8, <2>1 DEF NewestWaits
  <2>2. CASE ~ Waits(r)
    BY <1>4, <1>7, <2>2 DEF GivenUpIsSaid
  <2> QED BY <2>1, <2>2
<1>10. ~ (jobs[r].phase = "tail" /\ ok) => GivenUpIsSaid'
  <2> SUFFICES ASSUME ~ (jobs[r].phase = "tail" /\ ok), NEW q \in Requests,
                      jobs'[q].phase = "tail", Mine(jobs'[q].toggle), ~ Waits(q)'
               PROVE  switch'.error \/ NotWritten'
    BY <1>1 DEF GivenUpIsSaid, Mine
  <2>1. CASE q = r
    BY <1>1, <1>9, <2>1, NotAskedIs
  <2>2. CASE q # r
    BY <1>1, <1>4, <1>7, <2>2 DEF GivenUpIsSaid
  <2> QED BY <2>1, <2>2
<1>11. \A q \in PanelFetches' : q \in PanelFetches /\ jobs'[q] = jobs[q]
  BY <1>1, NotAskedIs DEF PanelFetches
<1>12. panelFetchSeq' = panelFetchSeq => FetchesAreNumbered'
  BY <1>11 DEF FetchesAreNumbered
<1>13. panelFetchSeq' = panelFetchSeq /\ ~ (r \in PanelFetches /\ jobs[r].seq = panelFetchSeq)
         => (NewestComes => NewestComes')
  <2> SUFFICES ASSUME panelFetchSeq' = panelFetchSeq, NEW q \in PanelFetches, q # r, jobs[q].seq = panelFetchSeq,
                      IsToggle(q) \/ q[1] # page \/ q[2] \in pending
               PROVE  NewestComes'
    BY DEF NewestComes
  <2>1. q \in PanelFetches' /\ jobs'[q] = jobs[q] /\ q \in Requests
    BY <1>1 DEF PanelFetches
  <2>2. IsToggle(q)' \/ q[1] # page' \/ q[2] \in pending'
    BY <1>1, <2>1 DEF Waits, IsToggle
  <2> QED BY <2>1, <2>2 DEF NewestComes
<1>14. (\E q \in Requests : Waits(q) /\ jobs[q].phase = "sent" /\ ~ IsToggle(q)) =>
         \E q \in Requests : Waits(q)' /\ jobs'[q].phase = "sent" /\ ~ IsToggle(q)'
  BY <1>1 DEF IsToggle
<1> QED BY <1>4, <1>7, <1>9, <1>10, <1>11, <1>12, <1>13, <1>14

\* The answer to a toggle settles it.
LEMMA SettleEnds ==
  ASSUME PanelInv, NEW r \in Requests, NEW ok \in BOOLEAN, NEW s, Waits(r), Settle(r[2], ok, s),
         UNCHANGED <<page, mount, rpcSeq, queued>>, jobs[r].phase \notin {"none", "sent"},
         jobs' = jobs \/ jobs' = [jobs EXCEPT ![r] = NotAsked]
  PROVE  /\ Ends(r, ok) /\ pending' = pending \ {r[2]}
         /\ slot' = IF ~ IsToggle(r) /\ ~ ok THEN Failed(s) ELSE s
<1> USE DEF PanelInv
<1> DEFINE t == jobs[r].toggle
<1>1. <<page, r[2]>> = r
  BY RequestsArePairs DEF Waits
<1>2. /\ pending' = pending \ {r[2]}
      /\ slot' = IF t = NoToggle /\ ~ ok THEN Failed(s) ELSE s
      /\ switch' = IF t = NoToggle \/ t.mount # mount THEN switch
                   ELSE IF ok THEN Confirmed(switch, t) ELSE RolledBack(switch, t)
  BY <1>1 DEF Settle
<1>3. t \in Toggles /\ switch \in Switches /\ jobs[r] \in Jobs
  BY DEF PanelTypes, Jobs
<1>4. t = NoToggle => ~ Mine(t)
  BY NoToggleIs, TogglesAre DEF Mine
<1>5. Mine(t) => switch.settled < t.seq /\ t.seq <= switch.latest
  BY DEF TogglesNumbered
<1>6. switch' = IF ~ Mine(t) THEN switch ELSE IF ok THEN Confirmed(switch, t) ELSE RolledBack(switch, t)
  BY <1>2, <1>4 DEF Mine
<1>7. SwitchAfter(t, ok)
  BY <1>3, <1>5, <1>6, Switching
<1>8. jobs' \in [Requests -> Jobs] /\ jobs'[r] \in {jobs[r], NotAsked} /\ \A q \in Requests \ {r} : jobs'[q] = jobs[q]
  BY NotAskedIs DEF PanelTypes
<1>9. ~ Waits(r)' /\ \A q \in Requests \ {r} : Waits(q)' <=> Waits(q)
  BY <1>2, RequestsArePairs DEF Waits
<1>10. Ends(r, ok)
  BY <1>2, <1>7, <1>8, <1>9 DEF Ends
<1> QED BY <1>2, <1>10 DEF IsToggle

LEMMA RespondsEnds ==
  ASSUME PanelInv, NEW r \in Requests, NEW ok \in BOOLEAN, NEW s, Responds(r, ok, s),
         jobs[r].phase \notin {"none", "sent"}, jobs' = [jobs EXCEPT ![r] = NotAsked]
  PROVE  /\ Ends(r, ok) /\ pending' \subseteq pending
         /\ slot' = IF Waits(r) /\ ~ IsToggle(r) /\ ~ ok THEN Failed(s) ELSE s
<1>1. CASE Waits(r)
  <2>1. Settle(r[2], ok, s) /\ UNCHANGED <<page, mount, rpcSeq, queued>>
    BY <1>1 DEF Responds, Waits
  <2> QED BY <1>1, <2>1, SettleEnds
<1>2. CASE ~ Waits(r)
  <2>1. slot' = s /\ UNCHANGED <<pending, switch, page, mount, rpcSeq, queued>>
    BY <1>2 DEF Responds, Waits
  <2>2. jobs' \in [Requests -> Jobs] /\ jobs'[r] = NotAsked /\ \A q \in Requests \ {r} : jobs'[q] = jobs[q]
    BY NotAskedIs DEF PanelInv, PanelTypes
  <2>3. Ends(r, ok)
    BY <1>2, <2>1, <2>2 DEF Ends, Waits
  <2> QED BY <1>2, <2>1, <2>3
<1> QED BY <1>1, <1>2

\* The types after a failure, and after a request has ended.
LEMMA FailedIs ==
  ASSUME slot \in Slots
  PROVE  /\ Failed(slot) \in Slots /\ Failed(slot).status # "loading" /\ Failed(slot).on = slot.on
         /\ Failed(slot).status = "success" => slot.status = "success" /\ Failed(slot).refreshError
BY DEF Failed, Slots

LEMMA EndsTypes ==
  ASSUME PanelInv, NEW r \in Requests, NEW ok \in BOOLEAN, Ends(r, ok), slot' \in Slots
  PROVE  /\ page' \in 1 .. MaxPages /\ mount' \in Nat \ {0} /\ rpcSeq' \in 0 .. MaxAsked[page']
         /\ pending' \subseteq 1 .. rpcSeq'
         /\ slot' \in Slots /\ switch' \in Switches /\ queued' \in Seq(Toggles)
         /\ jobs' \in [Requests -> Jobs]
<1>1. switch' \in Switches
  BY DEF Ends, SwitchAfter, PanelInv, PanelTypes
<1> QED BY <1>1 DEF Ends, PanelInv, PanelTypes

\* The tail is as it was when no toggle that is in it is touched.
LEMMA PanelTailStays ==
  ASSUME PanelInv, NEW r \in Requests, NEW ok \in BOOLEAN, Ends(r, ok), configTail' = configTail,
         jobs[r].phase # "tail" \/ jobs' = jobs
  PROVE  TailHolds'
<1>1. \A i \in 1 .. Len(configTail) : configTail[i] \in Requests
  BY DEF PanelInv, PanelTypes
<1>2. \A q \in Requests : jobs'[q].phase = "tail" <=> jobs[q].phase = "tail"
  BY NotAskedIs DEF Ends
<1> QED BY <1>1, <1>2 DEF PanelInv, TailHolds, Ends

LEMMA RequestTimesOutKeeps == PanelInv /\ RequestTimesOut => PanelInv'
<1> SUFFICES ASSUME PanelInv, RequestTimesOut PROVE PanelInv'
  OBVIOUS
<1> USE DEF PanelInv
<1>1. PICK id \in pending : jobs[<<page, id>>].phase # "sent" /\ Settle(id, FALSE, slot)
  BY DEF RequestTimesOut
<1>2. UNCHANGED <<page, mount, rpcSeq, queued, jobs, configTail, panelFetchSeq, saved, lapsed>>
  BY DEF RequestTimesOut, panelHostVars
<1> DEFINE r == <<page, id>>
<1>3. r \in Requests /\ r[1] = page /\ r[2] = id
  BY RequestsArePairs, PanelSyncAssumption DEF PanelTypes
<1>4. Waits(r) /\ jobs[r].phase # "sent" /\ Settle(r[2], FALSE, slot)
  BY <1>1, <1>3 DEF Waits
<1> HIDE DEF r
<1>5. jobs[r].phase \notin {"none", "sent"}
  BY <1>3, <1>4 DEF RequestsNumbered
<1>6. Ends(r, FALSE) /\ slot' = IF ~ IsToggle(r) THEN Failed(slot) ELSE slot
  BY <1>2, <1>3, <1>4, <1>5, SettleEnds
<1>7. slot \in Slots
  BY DEF PanelTypes
<1>8. slot' \in Slots
  BY <1>6, <1>7, FailedIs
<1>9. PanelTypes'
  BY <1>2, <1>3, <1>6, <1>8, EndsTypes DEF PanelTypes
<1>10. RequestsNumbered' /\ TogglesNumbered' /\ WishKept'
  BY <1>3, <1>6, EndsKeeps
<1>11. TailHolds'
  BY <1>2, <1>3, <1>6, PanelTailStays
<1>12. GivenUpIsSaid' /\ FetchesAreNumbered' /\ (switch.error => switch'.error)
       /\ (NotWritten => NotWritten' \/ switch'.error)
       /\ ((\E q \in Requests : Waits(q) /\ jobs[q].phase = "sent" /\ ~ IsToggle(q)) =>
              \E q \in Requests : Waits(q)' /\ jobs'[q].phase = "sent" /\ ~ IsToggle(q)')
       /\ PanelFetches' = PanelFetches
  BY <1>2, <1>3, <1>6, EndsLeaves DEF PanelFetches
<1>13. IsToggle(r) => (NewestComes => NewestComes')
  <2> SUFFICES ASSUME IsToggle(r), NEW q \in PanelFetches, jobs[q].seq = panelFetchSeq,
                      IsToggle(q) \/ q[1] # page \/ q[2] \in pending
               PROVE  NewestComes'
    BY DEF NewestComes
  <2>1. IsToggle(q)' \/ q[1] # page' \/ q[2] \in pending'
    BY <1>2, <1>6 DEF IsToggle, Ends, Waits, PanelFetches
  <2> QED BY <1>2, <1>12, <2>1 DEF NewestComes
<1>14. SpinsForAnAnswer'
  BY <1>2, <1>6, <1>7, <1>12, <1>13, FailedIs DEF SpinsForAnAnswer
<1>15. ShownIsSaved'
  BY <1>2, <1>6, <1>7, <1>12, <1>13, FailedIs DEF ShownIsSaved
<1> QED BY <1>9, <1>10, <1>11, <1>12, <1>14, <1>15

\* The head of the tail leaves it.
LEMMA TailPops ==
  ASSUME PanelInv, NEW r \in Requests, jobs[r].phase = "tail", Head(configTail) = r,
         configTail' = Tail(configTail), jobs'[r].phase # "tail",
         \A q \in Requests \ {r} : jobs'[q] = jobs[q], page' = page
  PROVE  /\ TailHolds' /\ configTail' \in Seq(Requests)
         /\ \A q \in Requests \ {r} : jobs[q].phase = "tail" /\ q[1] = page /\ r[1] = page => r[2] < q[2]
<1> USE DEF PanelInv
<1> DEFINE s == configTail
<1>1. s \in Seq(Requests) /\ Len(s) \in Nat /\ \A i \in 1 .. Len(s) : s[i] \in Requests
  BY DEF PanelTypes
<1>2. 1 \in 1 .. Len(s)
  <2>1. \E i \in 1 .. Len(s) : s[i] = r
    BY DEF TailHolds
  <2> QED BY <1>1, <2>1
<1>3. s # << >> /\ s[1] = r
  BY <1>1, <1>2
<1>4. /\ Tail(s) \in Seq(Requests) /\ Len(Tail(s)) = Len(s) - 1
      /\ \A i \in 1 .. Len(s) - 1 : Tail(s)[i] = s[i + 1]
  BY <1>1, <1>3
<1>5. \A i \in 1 .. Len(s) - 1 : i + 1 \in 1 .. Len(s) /\ i + 1 # 1 /\ i \in Nat
  BY <1>1
<1>6. /\ configTail' \in Seq(Requests) /\ Len(configTail') = Len(s) - 1
      /\ \A i \in 1 .. Len(configTail') :
           configTail'[i] = s[i + 1] /\ i + 1 \in 1 .. Len(s) /\ i + 1 # 1 /\ i \in Nat
  BY <1>4, <1>5
<1>7. \A i \in 1 .. Len(s) : i # 1 => s[i] # r
  BY <1>2, <1>3 DEF TailHolds
<1>8. \A q \in Requests \ {r} : jobs[q].phase = "tail" =>
        \E i \in 1 .. Len(s) : i # 1 /\ s[i] = q /\ i - 1 \in 1 .. Len(configTail') /\ configTail'[i - 1] = q
  <2> SUFFICES ASSUME NEW q \in Requests \ {r}, jobs[q].phase = "tail"
               PROVE  \E i \in 1 .. Len(s) : i # 1 /\ s[i] = q /\ i - 1 \in 1 .. Len(configTail')
                        /\ configTail'[i - 1] = q
    OBVIOUS
  <2>1. PICK i \in 1 .. Len(s) : s[i] = q
    BY DEF TailHolds
  <2>2. i # 1
    BY <1>3, <2>1
  <2>3. i - 1 \in 1 .. Len(configTail') /\ (i - 1) + 1 = i
    BY <1>1, <1>6, <2>2
  <2> QED BY <1>6, <2>1, <2>2, <2>3
<1>9. TailHolds'
  <2>1. \A i \in 1 .. Len(configTail') : jobs'[configTail'[i]].phase = "tail"
    BY <1>1, <1>6, <1>7 DEF TailHolds
  <2>2. \A q \in Requests : jobs'[q].phase = "tail" => \E i \in 1 .. Len(configTail') : configTail'[i] = q
    BY <1>8
  <2>3. \A i, j \in 1 .. Len(configTail') : i # j => configTail'[i] # configTail'[j]
    BY <1>6 DEF TailHolds
  <2>4. \A i, j \in 1 .. Len(configTail') :
          i < j /\ configTail'[i][1] = page' /\ configTail'[j][1] = page'
            => configTail'[i][2] < configTail'[j][2]
    BY <1>6 DEF TailHolds
  <2> QED BY <2>1, <2>2, <2>3, <2>4 DEF TailHolds
<1>10. ASSUME NEW q \in Requests \ {r}, jobs[q].phase = "tail", q[1] = page, r[1] = page
       PROVE  r[2] < q[2]
  <2>1. PICK i \in 1 .. Len(s) : i # 1 /\ s[i] = q
    BY <1>8, <1>10
  <2>2. 1 < i
    BY <1>1, <2>1
  <2> QED BY <1>2, <1>3, <1>10, <2>1, <2>2 DEF TailHolds
<1> QED BY <1>6, <1>9, <1>10

\* A request is served by the host: the page does not know.
JobMoves(r) ==
  /\ UNCHANGED pageVars /\ jobs' \in [Requests -> Jobs]
  /\ jobs[r].phase # "none" /\ jobs'[r].phase \notin {"none", "sent"}
  /\ jobs'[r].toggle = jobs[r].toggle
  /\ \A q \in Requests \ {r} : jobs'[q] = jobs[q]

\* A request goes on in the host, and the page does not hear of it yet.
LEMMA MovesKeeps ==
  ASSUME PanelInv, NEW r \in Requests, JobMoves(r)
  PROVE  /\ TogglesNumbered' /\ WishKept'
         /\ /\ jobs'[r].phase = "tail" => IsToggle(r)
            /\ jobs[r].phase = "sent" =>
                 \A q \in Requests \ {r} : jobs[q].phase = "sent" /\ q[1] = page /\ r[1] = page => r[2] < q[2]
            => RequestsNumbered'
         /\ \A q \in Requests : (Waits(q)' <=> Waits(q)) /\ (Mine(jobs[q].toggle)' <=> Mine(jobs[q].toggle))
                                /\ (IsToggle(q)' <=> IsToggle(q))
         /\ \A i \in 1 .. Len(queued) : NewestQueued(i)' <=> NewestQueued(i)
         /\ \A q \in Requests : NewestWaits(q)' <=> NewestWaits(q)
<1> USE DEF PanelInv
<1>1. /\ UNCHANGED <<page, mount, rpcSeq, pending, slot, switch, queued>>
      /\ jobs[r].phase # "none" /\ jobs'[r].phase \notin {"none", "sent"}
      /\ \A q \in Requests : jobs'[q].toggle = jobs[q].toggle
      /\ \A q \in Requests \ {r} : jobs'[q] = jobs[q]
  BY DEF JobMoves, pageVars
<1>2. \A q \in Requests : (Waits(q)' <=> Waits(q)) /\ (Mine(jobs[q].toggle)' <=> Mine(jobs[q].toggle))
                          /\ (IsToggle(q)' <=> IsToggle(q))
  BY <1>1 DEF Waits, Mine, IsToggle
<1>3. \A i \in 1 .. Len(queued) : (Mine(queued[i])' <=> Mine(queued[i])) /\ (NewestQueued(i)' <=> NewestQueued(i))
  BY <1>1 DEF Mine, NewestQueued
<1>4. \A q \in Requests : NewestWaits(q)' <=> NewestWaits(q)
  BY <1>1, <1>2 DEF NewestWaits
<1>5. TogglesNumbered'
  BY <1>1, <1>2, <1>3 DEF TogglesNumbered
<1>6. WishKept'
  BY <1>1, <1>3, <1>4 DEF WishKept
<1>7. ASSUME jobs'[r].phase = "tail" => IsToggle(r),
             jobs[r].phase = "sent" =>
                 \A q \in Requests \ {r} : jobs[q].phase = "sent" /\ q[1] = page /\ r[1] = page => r[2] < q[2]
      PROVE  RequestsNumbered'
  <2>1. ASSUME NEW q \in Requests
        PROVE  /\ jobs'[q].phase = "none" => jobs'[q] = NotAsked
               /\ jobs'[q].phase # "none" => q[1] <= page' /\ (q[1] = page' => q[2] <= rpcSeq')
               /\ q[1] = page' /\ jobs'[q].phase = "sent" => q[2] \in pending'
               /\ Waits(q)' => jobs'[q].phase # "none"
               /\ jobs'[q].phase = "tail" => IsToggle(q)'
    BY <1>1, <1>2, <1>7 DEF RequestsNumbered
  <2>2. ASSUME NEW p \in Requests, NEW q \in Requests, p[1] = page, q[1] = page,
               jobs'[p].phase = "sent", jobs'[q].phase \notin {"none", "sent"}
        PROVE  q[2] < p[2]
    <3>1. p # r /\ jobs[p].phase = "sent"
      BY <1>1, <2>2
    <3>2. CASE q = r /\ jobs[r].phase = "sent"
      BY <1>7, <2>2, <3>1, <3>2
    <3>3. CASE ~ (q = r /\ jobs[r].phase = "sent")
      <4>1. jobs[q].phase \notin {"none", "sent"}
        BY <1>1, <2>2, <3>3
      <4> QED BY <2>2, <3>1, <4>1 DEF RequestsNumbered
    <3> QED BY <3>2, <3>3
  <2> QED BY <1>1, <2>1, <2>2 DEF RequestsNumbered
<1> QED BY <1>2, <1>3, <1>4, <1>5, <1>6, <1>7

LEMMA ToggleRejectedKeeps ==
  ASSUME PanelInv, NEW r \in Requests, ToggleRejected(r)
  PROVE  PanelInv'
<1> USE DEF PanelInv
<1>1. /\ jobs[r].phase = "tail" /\ Head(configTail) = r /\ saved' \in {saved, jobs[r].toggle.want}
      /\ configTail' = Tail(configTail) /\ jobs' = [jobs EXCEPT ![r] = NotAsked]
      /\ Responds(r, FALSE, slot) /\ panelFetchSeq' = panelFetchSeq
  BY DEF ToggleRejected
<1>2. lapsed' = (lapsed \/ (saved' # saved /\ jobs[r].toggle.mount # mount))
  BY DEF ToggleRejected
<1>3. IsToggle(r)
  BY <1>1 DEF RequestsNumbered
<1>4. Ends(r, FALSE) /\ slot' = slot
  BY <1>1, <1>3, RespondsEnds
<1>5. jobs'[r] = NotAsked /\ (\A q \in Requests \ {r} : jobs'[q] = jobs[q]) /\ page' = page
  BY <1>1, <1>4 DEF Ends, PanelTypes
<1>6. TailHolds' /\ configTail' \in Seq(Requests)
  BY <1>1, <1>5, TailPops, NotAskedIs
<1>7. RequestsNumbered' /\ TogglesNumbered' /\ WishKept'
  BY <1>4, EndsKeeps
<1>8. GivenUpIsSaid' /\ FetchesAreNumbered' /\ (switch.error => switch'.error)
      /\ (NotWritten => NotWritten' \/ switch'.error)
      /\ (Mine(jobs[r].toggle) => NotWritten' \/ switch'.error)
      /\ (NewestComes => NewestComes')
      /\ ((\E q \in Requests : Waits(q) /\ jobs[q].phase = "sent" /\ ~ IsToggle(q)) =>
              \E q \in Requests : Waits(q)' /\ jobs'[q].phase = "sent" /\ ~ IsToggle(q)')
      /\ \A q \in PanelFetches' : q \in PanelFetches /\ jobs'[q] = jobs[q]
  BY <1>1, <1>4, EndsLeaves DEF PanelFetches
<1>9. PanelTypes'
  <2>1. slot' \in Slots
    BY <1>4 DEF PanelTypes
  <2>2. saved' \in BOOLEAN
    BY <1>1 DEF PanelTypes, Jobs, Toggles
  <2>3. lapsed' \in BOOLEAN
    BY <1>2, Zenon
  <2>4. panelFetchSeq' \in Nat
    BY <1>1 DEF PanelTypes
  <2>5. /\ page' \in 1 .. MaxPages /\ mount' \in Nat \ {0} /\ rpcSeq' \in 0 .. MaxAsked[page']
        /\ pending' \subseteq 1 .. rpcSeq' /\ switch' \in Switches /\ queued' \in Seq(Toggles)
        /\ jobs' \in [Requests -> Jobs]
    BY <1>4, <2>1, EndsTypes
  <2> QED BY <1>6, <2>1, <2>2, <2>3, <2>4, <2>5, Zenon DEF PanelTypes
<1>10. ~ lapsed' => ~ lapsed /\ (saved' = saved \/ Mine(jobs[r].toggle))
  BY <1>2, Zenon DEF Mine
<1>11. SpinsForAnAnswer'
  BY <1>4, <1>8, <1>10 DEF SpinsForAnAnswer
<1>12. ShownIsSaved'
  <2>1. CASE Mine(jobs[r].toggle)
    BY <1>8, <2>1 DEF ShownIsSaved
  <2>2. CASE ~ Mine(jobs[r].toggle)
    BY <1>1, <1>4, <1>8, <1>10, <2>2 DEF ShownIsSaved
  <2> QED BY <2>1, <2>2
<1> QED BY <1>6, <1>7, <1>8, <1>9, <1>11, <1>12

LEMMA PanelFetchedKeeps ==
  ASSUME PanelInv, NEW r \in Requests, PanelFetched(r)
  PROVE  PanelInv'
<1> USE DEF PanelInv
<1>1. /\ jobs[r].phase = "read" /\ jobs' = [jobs EXCEPT ![r] = NotAsked]
      /\ UNCHANGED <<configTail, panelFetchSeq, saved, lapsed>>
      /\ Responds(r, TRUE, IF jobs[r].seq = panelFetchSeq THEN Filled(jobs[r].data) ELSE slot)
  BY DEF PanelFetched
<1>2. Ends(r, TRUE) /\ slot' = IF jobs[r].seq = panelFetchSeq THEN Filled(jobs[r].data) ELSE slot
  BY <1>1, RespondsEnds
<1>3. r \in PanelFetches /\ jobs[r].data \in BOOLEAN
  BY <1>1 DEF PanelFetches, PanelTypes, Jobs
<1>4. Filled(jobs[r].data) \in Slots /\ Filled(jobs[r].data).status = "success"
      /\ Filled(jobs[r].data).on = jobs[r].data
  BY <1>3 DEF Filled, Slots
<1>5. slot' \in Slots
  BY <1>2, <1>4 DEF PanelTypes
<1>6. PanelTypes'
  BY <1>1, <1>2, <1>5, EndsTypes DEF PanelTypes
<1>7. TailHolds'
  BY <1>1, <1>2, PanelTailStays
<1>8. RequestsNumbered' /\ TogglesNumbered' /\ WishKept'
  BY <1>2, EndsKeeps
<1>9. GivenUpIsSaid' /\ FetchesAreNumbered' /\ (switch.error => switch'.error)
      /\ (NotWritten => NotWritten' \/ switch'.error)
      /\ (jobs[r].seq # panelFetchSeq => (NewestComes => NewestComes'))
      /\ ((\E q \in Requests : Waits(q) /\ jobs[q].phase = "sent" /\ ~ IsToggle(q)) =>
              \E q \in Requests : Waits(q)' /\ jobs'[q].phase = "sent" /\ ~ IsToggle(q)')
      /\ \A q \in PanelFetches' : q \in PanelFetches /\ jobs'[q] = jobs[q]
  BY <1>1, <1>2, EndsLeaves
<1>10. CASE jobs[r].seq = panelFetchSeq
  <2>1. slot'.status = "success" /\ slot'.on = jobs[r].data
    BY <1>2, <1>4, <1>10
  <2>2. SpinsForAnAnswer'
    BY <2>1 DEF SpinsForAnAnswer
  <2>3. ShownIsSaved'
    BY <1>1, <1>3, <1>9, <1>10, <2>1 DEF ShownIsSaved
  <2> QED BY <1>6, <1>7, <1>8, <1>9, <2>2, <2>3
<1>11. CASE jobs[r].seq # panelFetchSeq
  <2>1. slot' = slot
    BY <1>2, <1>11
  <2>2. SpinsForAnAnswer'
    BY <1>1, <1>9, <1>11, <2>1 DEF SpinsForAnAnswer
  <2>3. ShownIsSaved'
    BY <1>1, <1>9, <1>11, <2>1 DEF ShownIsSaved
  <2> QED BY <1>6, <1>7, <1>8, <1>9, <2>2, <2>3
<1> QED BY <1>10, <1>11

LEMMA PanelFetchFailsKeeps ==
  ASSUME PanelInv, NEW r \in Requests, PanelFetchFails(r)
  PROVE  PanelInv'
<1> USE DEF PanelInv
<1>1. /\ jobs[r].phase \in {"fetching", "read"} /\ jobs' = [jobs EXCEPT ![r] = NotAsked]
      /\ UNCHANGED <<configTail, panelFetchSeq, saved>>
      /\ Responds(r, IsToggle(r), slot)
  BY DEF PanelFetchFails
<1>2. lapsed' = (lapsed \/ (jobs[r].seq = panelFetchSeq /\ (IsToggle(r) \/ r[1] # page)))
  BY DEF PanelFetchFails
<1>3. IsToggle(r) \in BOOLEAN /\ r \in PanelFetches /\ slot \in Slots
  BY <1>1 DEF IsToggle, PanelFetches, PanelTypes
<1>4. Ends(r, IsToggle(r)) /\ slot' = IF Waits(r) /\ ~ IsToggle(r) THEN Failed(slot) ELSE slot
  BY <1>1, <1>3, RespondsEnds
<1>5. slot' \in Slots
  BY <1>3, <1>4, FailedIs
<1>6. PanelTypes'
  <2>1. lapsed' \in BOOLEAN
    BY <1>2, Zenon
  <2> QED BY <1>1, <1>3, <1>4, <1>5, <2>1, EndsTypes DEF PanelTypes
<1>7. TailHolds'
  BY <1>1, <1>3, <1>4, PanelTailStays
<1>8. RequestsNumbered' /\ TogglesNumbered' /\ WishKept'
  BY <1>3, <1>4, EndsKeeps
<1>9. GivenUpIsSaid' /\ FetchesAreNumbered' /\ (switch.error => switch'.error)
      /\ (NotWritten => NotWritten' \/ switch'.error)
      /\ (jobs[r].seq # panelFetchSeq => (NewestComes => NewestComes'))
      /\ ((\E q \in Requests : Waits(q) /\ jobs[q].phase = "sent" /\ ~ IsToggle(q)) =>
              \E q \in Requests : Waits(q)' /\ jobs'[q].phase = "sent" /\ ~ IsToggle(q)')
      /\ \A q \in PanelFetches' : q \in PanelFetches /\ jobs'[q] = jobs[q]
  BY <1>1, <1>3, <1>4, EndsLeaves
<1>10. ~ lapsed' => ~ lapsed /\ (jobs[r].seq # panelFetchSeq \/ (~ IsToggle(r) /\ r[1] = page))
  BY <1>2, Zenon
<1>11. CASE Waits(r) /\ ~ IsToggle(r)
  <2>1. slot' = Failed(slot)
    BY <1>4, <1>11
  <2>2. /\ slot'.status # "loading" /\ slot'.on = slot.on
        /\ slot'.status = "success" => slot.status = "success" /\ slot'.refreshError
    BY <1>3, <2>1, FailedIs
  <2>3. SpinsForAnAnswer'
    BY <2>2 DEF SpinsForAnAnswer
  <2>4. ShownIsSaved'
    BY <1>1, <1>9, <1>10, <2>2 DEF ShownIsSaved
  <2> QED BY <1>6, <1>7, <1>8, <1>9, <2>3, <2>4
<1>12. CASE ~ (Waits(r) /\ ~ IsToggle(r))
  <2>1. slot' = slot
    BY <1>4, <1>12
  <2>2. ~ lapsed' => ~ lapsed /\ (NewestComes => NewestComes')
    <3> SUFFICES ASSUME ~ lapsed', NewestComes PROVE NewestComes'
      BY <1>10
    <3>1. CASE jobs[r].seq # panelFetchSeq
      BY <1>9, <3>1
    <3>2. CASE jobs[r].seq = panelFetchSeq
      <4>1. ~ IsToggle(r) /\ r[1] = page /\ r[2] \notin pending
        BY <1>10, <1>12, <3>2 DEF Waits
      <4>2. PICK q \in PanelFetches : jobs[q].seq = panelFetchSeq /\ (IsToggle(q) \/ q[1] # page \/ q[2] \in pending)
        BY DEF NewestComes
      <4>3. q = r
        BY <1>3, <3>2, <4>2 DEF FetchesAreNumbered
      <4> QED BY <4>1, <4>2, <4>3
    <3> QED BY <3>1, <3>2
  <2>3. SpinsForAnAnswer'
    BY <1>9, <2>1, <2>2 DEF SpinsForAnAnswer
  <2>4. ShownIsSaved'
    BY <1>1, <1>9, <2>1, <2>2 DEF ShownIsSaved
  <2> QED BY <1>6, <1>7, <1>8, <1>9, <2>3, <2>4
<1> QED BY <1>11, <1>12

\* The fetch that starts now is the newest.
LEMMA PanelFetchStarts ==
  ASSUME PanelInv, NEW r \in Requests, JobMoves(r), jobs[r].phase \in {"sent", "tail"},
         panelFetchSeq' = panelFetchSeq + 1, jobs'[r].phase = "fetching",
         jobs'[r].seq = panelFetchSeq + 1, jobs[r].phase = "sent" => ~ IsToggle(r)
  PROVE  FetchesAreNumbered' /\ NewestComes' /\ ShownIsSaved' /\ SpinsForAnAnswer'
<1> USE DEF PanelInv
<1> DEFINE n == panelFetchSeq + 1
<1>1. n \in Nat /\ panelFetchSeq \in Nat /\ panelFetchSeq < n /\ \A q \in Requests : jobs[q].seq \in Nat
  BY DEF PanelTypes, Jobs
<1>2. panelFetchSeq' = n /\ jobs'[r].seq = n
  OBVIOUS
<1> HIDE DEF n
<1>3. /\ UNCHANGED <<page, mount, rpcSeq, pending, slot, switch, queued>>
      /\ \A q \in Requests \ {r} : jobs'[q] = jobs[q]
  BY DEF JobMoves, pageVars
<1>4. r \in PanelFetches' /\ \A q \in PanelFetches' : q # r => q \in PanelFetches /\ jobs'[q] = jobs[q]
  BY <1>3 DEF PanelFetches
<1>5. \A q \in PanelFetches : jobs[q].seq <= panelFetchSeq /\ jobs[q].seq \in Nat /\ jobs[q].seq < n
  BY <1>1 DEF FetchesAreNumbered, PanelFetches
<1>6. FetchesAreNumbered'
  BY <1>1, <1>2, <1>4, <1>5 DEF FetchesAreNumbered
<1>7. IsToggle(r) \/ r[1] # page \/ r[2] \in pending
  BY DEF RequestsNumbered
<1>8. NewestComes'
  BY <1>2, <1>3, <1>4, <1>7, MovesKeeps DEF NewestComes
<1>9. \A q \in PanelFetches' : jobs'[q].phase = "read" => jobs'[q].seq # panelFetchSeq'
  BY <1>2, <1>4, <1>5
<1> QED BY <1>6, <1>8, <1>9 DEF ShownIsSaved, SpinsForAnAnswer

\* What has been written is fetched.
LEMMA FetchingIs ==
  ASSUME PanelInv, NEW r \in Requests
  PROVE  LET j == Fetching(jobs[r]) IN
         j \in Jobs /\ j.phase = "fetching" /\ j.seq = panelFetchSeq + 1 /\ j.toggle = jobs[r].toggle
<1>1. jobs[r] \in Jobs /\ panelFetchSeq + 1 \in Nat
  BY DEF PanelInv, PanelTypes
<1> QED BY <1>1 DEF Fetching, Jobs

LEMMA ArrivesKeeps ==
  ASSUME PanelInv, NEW r \in Requests, Arrives(r)
  PROVE  PanelInv'
<1> USE DEF PanelInv
<1>1. /\ jobs[r].phase = "sent" /\ UNCHANGED <<pageVars, saved>>
      /\ \A q \in Requests : jobs[q].phase = "sent" => r[1] < q[1] \/ (r[1] = q[1] /\ r[2] <= q[2])
  BY DEF Arrives
<1>2. UNCHANGED <<page, mount, rpcSeq, pending, slot, switch, queued>>
  BY <1>1 DEF pageVars
<1>3. \A q \in Requests \ {r} : jobs[q].phase = "sent" /\ q[1] = page /\ r[1] = page => r[2] < q[2]
  <2> SUFFICES ASSUME NEW q \in Requests \ {r}, jobs[q].phase = "sent", q[1] = page, r[1] = page
               PROVE  r[2] < q[2]
    OBVIOUS
  <2>1. ~ (r[1] < q[1])
    BY PanelSyncAssumption DEF PanelTypes
  <2>2. r[2] <= q[2] /\ r[2] # q[2] /\ r[2] \in Nat /\ q[2] \in Nat
    BY <1>1, <2>1, RequestsArePairs
  <2> QED BY <2>2
<1>4. CASE IsToggle(r)
  <2>1. /\ jobs' = [jobs EXCEPT ![r].phase = "tail"] /\ configTail' = Append(configTail, r)
        /\ UNCHANGED <<panelFetchSeq, lapsed>>
    BY <1>4 DEF Arrives
  <2>2. /\ jobs' \in [Requests -> Jobs] /\ jobs'[r].phase = "tail" /\ jobs'[r].toggle = jobs[r].toggle
        /\ \A q \in Requests \ {r} : jobs'[q] = jobs[q]
    BY <2>1 DEF PanelTypes, Jobs
  <2>3. JobMoves(r)
    BY <1>1, <2>2 DEF JobMoves
  <2>4. RequestsNumbered' /\ TogglesNumbered' /\ WishKept'
    BY <1>3, <1>4, <2>2, <2>3, MovesKeeps
  <2>5. /\ configTail \in Seq(Requests) /\ Len(configTail) \in Nat /\ configTail' \in Seq(Requests)
        /\ Len(configTail') = Len(configTail) + 1 /\ configTail'[Len(configTail) + 1] = r
        /\ \A i \in 1 .. Len(configTail) : configTail'[i] = configTail[i] /\ configTail[i] \in Requests
        /\ \A i \in 1 .. Len(configTail') : i \in 1 .. Len(configTail) \/ i = Len(configTail) + 1
    BY <2>1 DEF PanelTypes
  <2>6. PanelTypes'
    BY <1>1, <1>2, <2>1, <2>2, <2>5 DEF PanelTypes
  <2>7. \A i \in 1 .. Len(configTail) :
          configTail[i] # r /\ (configTail[i][1] = page /\ r[1] = page => configTail[i][2] < r[2])
    BY <1>1, <2>5 DEF TailHolds, RequestsNumbered
  <2>8. TailHolds'
    <3>1. ASSUME NEW i \in 1 .. Len(configTail') PROVE jobs'[configTail'[i]].phase = "tail"
      <4>1. CASE i \in 1 .. Len(configTail)
        <5>1. jobs'[configTail[i]] = jobs[configTail[i]] /\ configTail'[i] = configTail[i]
          BY <2>2, <2>5, <2>7, <4>1
        <5> QED BY <4>1, <5>1 DEF TailHolds
      <4>2. CASE i = Len(configTail) + 1
        BY <2>2, <2>5, <4>2
      <4> QED BY <2>5, <4>1, <4>2
    <3>2. ASSUME NEW q \in Requests, jobs'[q].phase = "tail"
          PROVE  \E i \in 1 .. Len(configTail') : configTail'[i] = q
      <4>1. Len(configTail) + 1 \in 1 .. Len(configTail') /\ 1 .. Len(configTail) \subseteq 1 .. Len(configTail')
        BY <2>5
      <4>2. CASE q = r
        BY <2>5, <4>1, <4>2
      <4>3. CASE q # r
        <5>1. jobs[q].phase = "tail"
          BY <2>2, <3>2, <4>3
        <5>2. PICK i \in 1 .. Len(configTail) : configTail[i] = q
          BY <5>1 DEF TailHolds
        <5> QED BY <2>5, <4>1, <5>2
      <4> QED BY <4>2, <4>3
    <3>3. \A i, j \in 1 .. Len(configTail') : i # j => configTail'[i] # configTail'[j]
      BY <2>5, <2>7 DEF TailHolds
    <3>4. ASSUME NEW i \in 1 .. Len(configTail'), NEW j \in 1 .. Len(configTail'), i < j,
                 configTail'[i][1] = page, configTail'[j][1] = page
          PROVE  configTail'[i][2] < configTail'[j][2]
      <4>1. i \in 1 .. Len(configTail)
        BY <2>5, <3>4
      <4>2. CASE j \in 1 .. Len(configTail)
        BY <2>5, <3>4, <4>1, <4>2 DEF TailHolds
      <4>3. CASE j = Len(configTail) + 1
        BY <2>5, <2>7, <3>4, <4>1, <4>3
      <4> QED BY <2>5, <4>2, <4>3
    <3> QED BY <1>2, <3>1, <3>2, <3>3, <3>4 DEF TailHolds
  <2>9. /\ \A q \in Requests : q \in PanelFetches' <=> q \in PanelFetches
        /\ \A q \in PanelFetches : jobs'[q] = jobs[q]
    BY <1>1, <2>2 DEF PanelFetches
  <2>10. FetchesAreNumbered'
    BY <2>1, <2>9 DEF FetchesAreNumbered, PanelFetches
  <2>11. NotWritten => NotWritten'
    BY <1>2, <2>2, <2>3, MovesKeeps DEF NotWritten
  <2>12. GivenUpIsSaid'
    <3>1. r[1] = page => r[2] \in pending
      BY <1>1 DEF RequestsNumbered
    <3>2. Mine(jobs[r].toggle) => Waits(r)
      BY <3>1 DEF TogglesNumbered, Waits
    <3> QED BY <1>2, <2>2, <2>3, <2>11, <3>2, MovesKeeps DEF GivenUpIsSaid
  <2>13. NewestComes => NewestComes'
    BY <1>2, <2>1, <2>3, <2>9, MovesKeeps DEF NewestComes, PanelFetches
  <2>14. SpinsForAnAnswer'
    <3>1. (\E q \in Requests : Waits(q) /\ jobs[q].phase = "sent" /\ ~ IsToggle(q)) =>
              \E q \in Requests : Waits(q)' /\ jobs'[q].phase = "sent" /\ ~ IsToggle(q)'
      BY <1>4, <2>2, <2>3, MovesKeeps
    <3> QED BY <1>2, <2>1, <2>13, <3>1 DEF SpinsForAnAnswer
  <2>15. ShownIsSaved'
    BY <1>1, <1>2, <2>1, <2>9, <2>11, <2>13 DEF ShownIsSaved, PanelFetches
  <2> QED BY <2>4, <2>6, <2>8, <2>10, <2>12, <2>14, <2>15
<1>5. CASE ~ IsToggle(r)
  <2>1. /\ jobs' = [jobs EXCEPT ![r] = Fetching(jobs[r])] /\ panelFetchSeq' = panelFetchSeq + 1
        /\ lapsed' = FALSE /\ configTail' = configTail
    BY <1>5 DEF Arrives
  <2>2. /\ jobs' \in [Requests -> Jobs] /\ jobs'[r].phase = "fetching"
        /\ jobs'[r].seq = panelFetchSeq + 1 /\ jobs'[r].toggle = jobs[r].toggle
        /\ \A q \in Requests \ {r} : jobs'[q] = jobs[q]
    BY <2>1, FetchingIs DEF PanelTypes
  <2>3. JobMoves(r)
    BY <1>1, <2>2 DEF JobMoves
  <2>4. RequestsNumbered' /\ TogglesNumbered' /\ WishKept'
    BY <1>3, <2>2, <2>3, MovesKeeps
  <2>5. PanelTypes'
    <3>1. panelFetchSeq' \in Nat
      BY <2>1 DEF PanelTypes
    <3>2. lapsed' \in BOOLEAN /\ saved' \in BOOLEAN
      BY <1>1, <2>1, Zenon DEF PanelTypes
    <3> QED BY <1>2, <2>1, <2>2, <3>1, <3>2 DEF PanelTypes
  <2>6. TailHolds'
    <3>1. \A i \in 1 .. Len(configTail) : configTail[i] \in Requests /\ configTail[i] # r
      BY <1>1 DEF PanelTypes, TailHolds
    <3> QED BY <1>2, <2>1, <2>2, <3>1 DEF TailHolds
  <2>7. FetchesAreNumbered' /\ ShownIsSaved' /\ SpinsForAnAnswer'
    BY <1>1, <1>5, <2>1, <2>2, <2>3, PanelFetchStarts
  <2>8. NotWritten => NotWritten'
    <3>1. ~ NewestWaits(r)
      BY <1>5, NoToggleIs, TogglesAre DEF NewestWaits, Mine, IsToggle
    <3> QED BY <1>2, <2>2, <2>3, <3>1, MovesKeeps DEF NotWritten
  <2>9. GivenUpIsSaid'
    BY <1>2, <2>2, <2>3, <2>8, MovesKeeps DEF GivenUpIsSaid
  <2> QED BY <2>4, <2>5, <2>6, <2>7, <2>9
<1> QED BY <1>4, <1>5

LEMMA TogglePersistsKeeps ==
  ASSUME PanelInv, NEW r \in Requests, TogglePersists(r)
  PROVE  PanelInv'
<1> USE DEF PanelInv
<1>1. /\ jobs[r].phase = "tail" /\ Head(configTail) = r /\ saved' = jobs[r].toggle.want
      /\ configTail' = Tail(configTail) /\ jobs' = [jobs EXCEPT ![r] = Fetching(jobs[r])]
      /\ panelFetchSeq' = panelFetchSeq + 1 /\ lapsed' = FALSE /\ UNCHANGED pageVars
  BY DEF TogglePersists
<1>2. UNCHANGED <<page, mount, rpcSeq, pending, slot, switch, queued>>
  BY <1>1 DEF pageVars
<1>3. /\ jobs' \in [Requests -> Jobs] /\ jobs'[r].phase = "fetching"
      /\ jobs'[r].seq = panelFetchSeq + 1 /\ jobs'[r].toggle = jobs[r].toggle
      /\ \A q \in Requests \ {r} : jobs'[q] = jobs[q]
  BY <1>1, FetchingIs DEF PanelTypes
<1>4. JobMoves(r)
  BY <1>1, <1>3 DEF JobMoves
<1>5. RequestsNumbered' /\ TogglesNumbered' /\ WishKept'
  BY <1>1, <1>3, <1>4, MovesKeeps
<1>6. /\ TailHolds' /\ configTail' \in Seq(Requests)
      /\ \A q \in Requests \ {r} : jobs[q].phase = "tail" /\ q[1] = page /\ r[1] = page => r[2] < q[2]
  BY <1>1, <1>2, <1>3, TailPops
<1>7. PanelTypes'
  <2>1. saved' \in BOOLEAN
    BY <1>1 DEF PanelTypes, Jobs, Toggles
  <2>2. panelFetchSeq' \in Nat
    BY <1>1 DEF PanelTypes
  <2>3. lapsed' \in BOOLEAN
    BY <1>1, Zenon
  <2> QED BY <1>2, <1>3, <1>6, <2>1, <2>2, <2>3 DEF PanelTypes
<1>8. FetchesAreNumbered' /\ ShownIsSaved' /\ SpinsForAnAnswer'
  BY <1>1, <1>3, <1>4, PanelFetchStarts
<1>9. GivenUpIsSaid'
  <2> SUFFICES ASSUME NEW q \in Requests, jobs'[q].phase = "tail", Mine(jobs[q].toggle), ~ Waits(q)
               PROVE  switch.error \/ NotWritten'
    BY <1>2, <1>3, <1>4, MovesKeeps DEF GivenUpIsSaid
  <2>1. q # r /\ jobs[q].phase = "tail"
    BY <1>3
  <2>2. ~ NewestWaits(r)
    <3> SUFFICES ASSUME NewestWaits(r) PROVE FALSE
      OBVIOUS
    <3>1. r[2] < q[2]
      BY <1>6, <2>1 DEF NewestWaits, Waits, TogglesNumbered
    <3>2. switch.latest < jobs[q].toggle.seq /\ jobs[q].toggle.seq <= switch.latest
      BY <3>1 DEF NewestWaits, TogglesNumbered
    <3> QED BY <3>2, TogglesAre
  <2>3. switch.error \/ NotWritten
    BY <2>1 DEF GivenUpIsSaid
  <2> QED BY <1>2, <1>3, <1>4, <2>2, <2>3, MovesKeeps DEF NotWritten
<1> QED BY <1>5, <1>6, <1>7, <1>8, <1>9

LEMMA SourceReadsKeeps ==
  ASSUME PanelInv, NEW r \in Requests, SourceReads(r)
  PROVE  PanelInv'
<1> USE DEF PanelInv
<1>1. /\ jobs[r].phase = "fetching" /\ jobs' = [jobs EXCEPT ![r].phase = "read", ![r].data = saved]
      /\ UNCHANGED <<pageVars, configTail, panelFetchSeq, saved, lapsed>>
  BY DEF SourceReads
<1>2. UNCHANGED <<page, mount, rpcSeq, pending, slot, switch, queued>>
  BY <1>1 DEF pageVars
<1>3. /\ jobs' \in [Requests -> Jobs] /\ jobs'[r].phase = "read" /\ jobs'[r].data = saved
      /\ jobs'[r].seq = jobs[r].seq /\ jobs'[r].toggle = jobs[r].toggle
      /\ \A q \in Requests \ {r} : jobs'[q] = jobs[q]
  BY <1>1 DEF PanelTypes, Jobs
<1>4. JobMoves(r)
  BY <1>1, <1>3 DEF JobMoves
<1>5. RequestsNumbered' /\ TogglesNumbered' /\ WishKept'
  BY <1>1, <1>3, <1>4, MovesKeeps
<1>6. PanelTypes'
  BY <1>1, <1>2, <1>3 DEF PanelTypes
<1>7. TailHolds'
  <2>1. \A i \in 1 .. Len(configTail) : configTail[i] \in Requests /\ configTail[i] # r
    BY <1>1 DEF PanelTypes, TailHolds
  <2> QED BY <1>1, <1>2, <1>3, <2>1 DEF TailHolds
<1>8. /\ \A q \in Requests : q \in PanelFetches' <=> q \in PanelFetches
      /\ \A q \in PanelFetches : jobs'[q].seq = jobs[q].seq /\ jobs'[q].toggle = jobs[q].toggle
      /\ \A q \in PanelFetches : jobs'[q].phase = "read" => jobs'[q].data = saved \/ (jobs[q].phase = "read" /\ jobs'[q].data = jobs[q].data)
  BY <1>1, <1>3 DEF PanelFetches
<1>15. \A q \in PanelFetches' :
         /\ q \in PanelFetches /\ jobs'[q].seq = jobs[q].seq
         /\ jobs'[q].phase = "read" =>
              jobs'[q].data = saved \/ (jobs[q].phase = "read" /\ jobs'[q].data = jobs[q].data)
  <2> SUFFICES ASSUME NEW q \in PanelFetches'
               PROVE  /\ q \in PanelFetches /\ jobs'[q].seq = jobs[q].seq
                      /\ jobs'[q].phase = "read" =>
                           jobs'[q].data = saved \/ (jobs[q].phase = "read" /\ jobs'[q].data = jobs[q].data)
    OBVIOUS
  <2>1. CASE q = r
    BY <1>1, <1>3, <2>1 DEF PanelFetches
  <2>2. CASE q # r
    <3>1. q \in Requests /\ jobs'[q] = jobs[q]
      BY <1>3, <2>2 DEF PanelFetches
    <3> QED BY <3>1 DEF PanelFetches
  <2> QED BY <2>1, <2>2
<1>9. FetchesAreNumbered'
  <2>1. ASSUME NEW q \in PanelFetches' PROVE jobs'[q].seq <= panelFetchSeq'
    BY <1>1, <1>15 DEF FetchesAreNumbered
  <2>2. ASSUME NEW p \in PanelFetches', NEW q \in PanelFetches', jobs'[p].seq = jobs'[q].seq PROVE p = q
    <3>1. p \in PanelFetches /\ q \in PanelFetches /\ jobs[p].seq = jobs[q].seq
      BY <1>15, <2>2
    <3> QED BY <3>1 DEF FetchesAreNumbered
  <2> QED BY <2>1, <2>2 DEF FetchesAreNumbered
<1>10. NotWritten => NotWritten'
  BY <1>1, <1>2, <1>3, <1>4, MovesKeeps DEF NotWritten
<1>11. GivenUpIsSaid'
  BY <1>2, <1>3, <1>4, <1>10, MovesKeeps DEF GivenUpIsSaid
<1>12. NewestComes => NewestComes'
  BY <1>1, <1>2, <1>4, <1>8, MovesKeeps DEF NewestComes, PanelFetches
<1>13. SpinsForAnAnswer'
  <2>1. (\E q \in Requests : Waits(q) /\ jobs[q].phase = "sent" /\ ~ IsToggle(q)) =>
            \E q \in Requests : Waits(q)' /\ jobs'[q].phase = "sent" /\ ~ IsToggle(q)'
    BY <1>1, <1>3, <1>4, MovesKeeps
  <2> QED BY <1>1, <1>2, <1>12, <2>1 DEF SpinsForAnAnswer
<1>14. ShownIsSaved'
  <2>1. lapsed' = lapsed /\ saved' = saved /\ panelFetchSeq' = panelFetchSeq /\ slot' = slot /\ switch' = switch
    BY <1>1, <1>2
  <2>2. (\A q \in PanelFetches : jobs[q].phase = "read" /\ jobs[q].seq = panelFetchSeq => jobs[q].data = saved)
        => \A q \in PanelFetches' : jobs'[q].phase = "read" /\ jobs'[q].seq = panelFetchSeq => jobs'[q].data = saved
    BY <1>15
  <2> QED BY <1>10, <1>12, <2>1, <2>2 DEF ShownIsSaved
<1> QED BY <1>5, <1>6, <1>7, <1>9, <1>11, <1>13, <1>14

LEMMA PanelStep == PanelInv /\ [PanelSyncNext]_panelSyncVars => PanelInv'
<1> SUFFICES ASSUME PanelInv, [PanelSyncNext]_panelSyncVars PROVE PanelInv'
  OBVIOUS
<1>1. CASE UNCHANGED panelSyncVars
  BY <1>1 DEF panelSyncVars, pageVars, panelHostVars, PanelInv, PanelTypes, RequestsNumbered, TailHolds,
     TogglesNumbered, WishKept, GivenUpIsSaid, FetchesAreNumbered, SpinsForAnAnswer, ShownIsSaved,
     Waits, Mine, IsToggle, NewestQueued, NewestWaits, NotWritten, PanelFetches, NewestComes
<1>2. CASE PanelSyncNext
  BY <1>2, RequestPanelKeeps, ReopenPanelKeeps, ClickSwitchKeeps, PerformToggleKeeps, ReloadPageKeeps,
     RequestTimesOutKeeps, ArrivesKeeps, TogglePersistsKeeps, ToggleRejectedKeeps, SourceReadsKeeps,
     PanelFetchedKeeps, PanelFetchFailsKeeps DEF PanelSyncNext
<1> QED BY <1>1, <1>2

-------------------------------------------------------------------------------
\* The page that is lost and made again.

\* The page steps alone with the sessions it shows.
LEMMA ViewReloadSteps == Next => [ViewReloadNext]_viewReloadVars
<1> SUFFICES ASSUME Next, ~ UNCHANGED viewReloadVars PROVE ViewReloadNext
  OBVIOUS
<1> QED BY DEF Next, Only

TabRecords == [binding : {"absent", "unbound", "pending", "bound"}, sid : TabIds \cup {NoSid},
               turn : BOOLEAN, draft : {"none", "typed", "sent"}]
Posts == [type : {"tab.open", "tab.close", "prompt"}, of : TabIds] \cup [type : {"ready"}, of : {NoSid}]

ReloadTypes ==
  /\ pageState \in {"mounting", "listening", "hydrated"}
  /\ strip \in [TabIds -> TabRecords] /\ toHost \in Seq(Posts)
  /\ hosted \in [TabIds -> {"none", "opening", "live", "recovering", "replaying"}]
  /\ minted \subseteq TabIds /\ restoredDrafts \subseteq TabIds /\ liveTurns \subseteq TabIds
  /\ tombs \subseteq TabIds /\ known \subseteq TabIds /\ owed \subseteq TabIds

\* The numbers that are in use were minted, and an absent tab holds nothing.
NumbersMinted ==
  /\ BootstrapTab \in minted
  /\ \A t \in TabIds :
       /\ strip[t].binding = "absent" => strip[t] = NoTabState
       /\ strip[t].binding # "absent" => t \in minted
       /\ strip[t].sid # NoSid => strip[t].sid \in minted
       /\ strip[t].binding = "bound" => strip[t].sid # NoSid
       /\ hosted[t] # "none" => t \in minted
  /\ \A s \in liveTurns : hosted[s] = "live"
  /\ tombs \subseteq minted /\ restoredDrafts \subseteq minted /\ owed \subseteq minted

\* A session that another tab shows has no tab of its own.
ShownElsewhere ==
  /\ \A t, s \in TabIds : strip[t].sid = s /\ t # s => strip[s].binding = "absent"
  /\ \A t, u \in TabIds : strip[t].sid = strip[u].sid /\ strip[t].sid # NoSid => t = u

\* A session is asked for once, and the page forgets the one that it closes.
OpenAsked(i) == toHost[i].type = "tab.open"
PostsInOrder ==
  /\ \A i \in 1 .. Len(toHost) :
       OpenAsked(i) => /\ hosted[toHost[i].of] = "none" /\ toHost[i].of \in minted
                   /\ toHost[i].of # BootstrapTab
  /\ \A i, j \in 1 .. Len(toHost) : OpenAsked(i) /\ OpenAsked(j) /\ toHost[i].of = toHost[j].of => i = j
  /\ \A i \in 1 .. Len(toHost) : toHost[i].type = "tab.close" => toHost[i].of \in minted \ known

\* The page has tabs for the sessions it was told of, and the host does not close them.
KnownArePresent ==
  \A s \in known : pageState = "hydrated" /\ strip[s].binding # "absent" /\ s \notin tombs

\* A tab whose session is still to come takes in no other.
Awaits(s) ==
  /\ strip[s].sid = NoSid /\ ~ strip[s].turn
  /\ \/ strip[s].binding = "pending"
     \/ s = BootstrapTab /\ \A q \in TabIds : q # s => hosted[q] \in {"none", "opening"}

OnItsWay(s) == \E i \in 1 .. Len(toHost) : OpenAsked(i) /\ toHost[i].of = s
KnownAreShown ==
  \A s \in known :
    /\ hosted[s] = "opening" \/ OnItsWay(s) => Awaits(s)
    /\ hosted[s] \in {"live", "replaying"} => strip[s].binding = "bound" /\ strip[s].sid = s
    /\ hosted[s] = "live" => strip[s].turn = (s \in liveTurns)
    /\ hosted[s] = "none" => ~ (strip[s].binding = "bound" /\ strip[s].sid = s)

\* Text that is owed is on its tab, or about to be restored.
TextIsKept ==
  /\ \A t \in owed : t \in restoredDrafts \/ strip[t].draft # "none"
  /\ \A t \in known \cap owed : strip[t].draft # "none"

ReloadInv ==
  /\ ReloadTypes /\ NumbersMinted /\ ShownElsewhere /\ PostsInOrder
  /\ KnownArePresent /\ KnownAreShown /\ TextIsKept

LEMMA TabFacts ==
  /\ TabIds \subseteq Nat /\ NoSid \notin TabIds /\ BootstrapTab \in TabIds
  /\ NoTabState \in TabRecords /\ FreshTab \in TabRecords
  /\ NoTabState.binding = "absent" /\ NoTabState.sid = NoSid /\ NoTabState.draft = "none"
  /\ ~ NoTabState.turn
  /\ FreshTab.binding = "unbound" /\ FreshTab.sid = NoSid /\ FreshTab.draft = "none" /\ ~ FreshTab.turn
  /\ BootStrip \in [TabIds -> TabRecords]
  /\ BootStrip[BootstrapTab] = FreshTab
  /\ \A t \in TabIds : t # BootstrapTab => BootStrip[t] = NoTabState
<1>1. TabIds \subseteq Nat /\ NoSid \notin TabIds /\ BootstrapTab \in TabIds
  BY ViewReloadAssumption DEF TabIds, NoSid, BootstrapTab
<1>2. NoTabState \in TabRecords /\ NoTabState.binding = "absent" /\ NoTabState.sid = NoSid
      /\ NoTabState.draft = "none" /\ ~ NoTabState.turn
  BY DEF NoTabState, TabRecords
<1>3. FreshTab \in TabRecords /\ FreshTab.binding = "unbound" /\ FreshTab.sid = NoSid
      /\ FreshTab.draft = "none" /\ ~ FreshTab.turn
  BY DEF FreshTab, NoTabState, TabRecords
<1> QED BY <1>1, <1>2, <1>3 DEF BootStrip

LEMMA ReloadStarts == ViewReloadInit => ReloadInv
<1> SUFFICES ASSUME ViewReloadInit PROVE ReloadInv
  OBVIOUS
<1> USE DEF ViewReloadInit
<1>1. ReloadTypes
  BY TabFacts DEF ReloadTypes
<1>2. NumbersMinted
  BY TabFacts DEF NumbersMinted
<1>3. ShownElsewhere
  BY TabFacts DEF ShownElsewhere
<1>4. PostsInOrder /\ KnownArePresent
  BY TabFacts DEF PostsInOrder, KnownArePresent
<1>5. KnownAreShown
  BY TabFacts DEF KnownAreShown, Awaits, OnItsWay
<1>6. TextIsKept
  BY DEF TextIsKept
<1> QED BY <1>1, <1>2, <1>3, <1>4, <1>5, <1>6 DEF ReloadInv

LEMMA ReloadIsTrue == ReloadInv => OneTabShows /\ PageShowsItsSessions /\ DraftsReturn
<1> SUFFICES ASSUME ReloadInv PROVE OneTabShows /\ PageShowsItsSessions /\ DraftsReturn
  OBVIOUS
<1>1. OneTabShows
  BY DEF ReloadInv, ShownElsewhere, OneTabShows, Present
<1>2. PageShowsItsSessions
  BY DEF ReloadInv, ReloadTypes, KnownAreShown, PageShowsItsSessions, ReloadQuiet
<1>3. DraftsReturn
  BY DEF ReloadInv, TextIsKept, DraftsReturn
<1> QED BY <1>1, <1>2, <1>3

\* A post that is added to the queue, and one that is taken from it.
LEMMA PostsGrow ==
  ASSUME NEW queue \in Seq(Posts), NEW m \in Posts
  PROVE  /\ Append(queue, m) \in Seq(Posts) /\ Len(queue) \in Nat
         /\ Len(Append(queue, m)) = Len(queue) + 1 /\ Append(queue, m)[Len(queue) + 1] = m
         /\ \A i \in 1 .. Len(queue) : Append(queue, m)[i] = queue[i] /\ queue[i] \in Posts
OBVIOUS

LEMMA PostsShrink ==
  ASSUME NEW queue \in Seq(Posts), queue # << >>
  PROVE  /\ Tail(queue) \in Seq(Posts) /\ Head(queue) = queue[1] /\ 1 \in 1 .. Len(queue)
         /\ Len(queue) \in Nat /\ Len(Tail(queue)) = Len(queue) - 1
         /\ \A i \in 1 .. Len(Tail(queue)) : Tail(queue)[i] = queue[i + 1] /\ i + 1 \in 1 .. Len(queue)
         /\ \A i \in 1 .. Len(queue) : queue[i] \in Posts
OBVIOUS

\* What a post leaves of the queue's order, and of what is on its way.
LEMMA QueueGrows ==
  ASSUME ReloadInv, NEW m \in Posts, toHost' = Append(toHost, m), m.type # "tab.open",
         UNCHANGED <<hosted, minted>>, known' \subseteq known,
         m.type = "tab.close" => m.of \in minted /\ m.of \notin known'
  PROVE  /\ toHost' \in Seq(Posts) /\ PostsInOrder'
         /\ \A s \in TabIds : OnItsWay(s)' => OnItsWay(s)
<1> USE DEF ReloadInv
<1>1. /\ toHost' \in Seq(Posts) /\ Len(toHost) \in Nat /\ Len(toHost') = Len(toHost) + 1
      /\ toHost'[Len(toHost) + 1] = m
      /\ \A i \in 1 .. Len(toHost) : toHost'[i] = toHost[i] /\ toHost[i] \in Posts
  BY PostsGrow DEF ReloadTypes
<1>2. \A i \in 1 .. Len(toHost') : i # Len(toHost) + 1 => i \in 1 .. Len(toHost) /\ toHost'[i] = toHost[i]
  BY <1>1
<1>3. PostsInOrder'
  <2>1. \A i \in 1 .. Len(toHost') : OpenAsked(i)' => i \in 1 .. Len(toHost) /\ OpenAsked(i) /\ toHost'[i] = toHost[i]
    BY <1>1, <1>2 DEF OpenAsked
  <2>2. \A i \in 1 .. Len(toHost') : toHost'[i].type = "tab.close" => toHost'[i].of \in minted' \ known'
    BY <1>1, <1>2 DEF PostsInOrder
  <2>3. \A i, j \in 1 .. Len(toHost') : OpenAsked(i)' /\ OpenAsked(j)' /\ toHost'[i].of = toHost'[j].of => i = j
    BY <2>1 DEF PostsInOrder
  <2> QED BY <2>1, <2>2, <2>3 DEF PostsInOrder
<1>4. \A s \in TabIds : OnItsWay(s)' => OnItsWay(s)
  BY <1>1, <1>2 DEF OnItsWay, OpenAsked
<1> QED BY <1>1, <1>3, <1>4

\* A tab that is known stays as it is shown.
LEMMA ShownStays ==
  ASSUME ReloadInv, known' \subseteq known, UNCHANGED <<hosted, liveTurns>>,
         \A s \in TabIds : OnItsWay(s)' => OnItsWay(s),
         \A s \in known' : /\ strip'[s].binding = strip[s].binding /\ strip'[s].sid = strip[s].sid
                           /\ strip'[s].turn = strip[s].turn
  PROVE  KnownAreShown'
<1> USE DEF ReloadInv
<1>1. \A s \in known' : s \in TabIds /\ s \in known /\ (Awaits(s) => Awaits(s)')
  BY DEF Awaits, ReloadTypes
<1> QED BY <1>1 DEF KnownAreShown

\* The tabs keep their sessions.
LEMMA TabsStay ==
  ASSUME ReloadInv, minted' = minted,
         \A t \in TabIds : /\ strip'[t].binding = strip[t].binding /\ strip'[t].sid = strip[t].sid
                           /\ strip[t].binding = "absent" => strip'[t] = strip[t]
  PROVE  /\ ShownElsewhere'
         /\ (hosted' = hosted /\ (\A s \in liveTurns' : hosted[s] = "live") /\ tombs' \subseteq minted /\ restoredDrafts' \subseteq minted
             /\ owed' \subseteq minted => NumbersMinted')
         /\ (pageState' = pageState /\ tombs' = tombs /\ known' \subseteq known => KnownArePresent')
BY DEF ReloadInv, ShownElsewhere, NumbersMinted, KnownArePresent, ReloadTypes

\* The user.
LEMMA OpenTabKeeps == ReloadInv /\ OpenTab => ReloadInv'
<1> SUFFICES ASSUME ReloadInv, OpenTab PROVE ReloadInv'
  OBVIOUS
<1> USE DEF ReloadInv
<1>1. PICK t \in TabIds \ minted :
        /\ minted' = minted \cup {t}
        /\ strip' = [strip EXCEPT ![t] = [FreshTab EXCEPT !.binding = "pending"]]
        /\ toHost' = Append(toHost, [type |-> "tab.open", of |-> t])
        /\ known' = IF pageState = "hydrated" THEN known \cup {t} ELSE known
  BY DEF OpenTab
<1>2. /\ UNCHANGED <<pageState, restoredDrafts, owed, hosted, liveTurns, tombs>>
  BY DEF OpenTab, reloadHostVars
<1>3. /\ strip' \in [TabIds -> TabRecords] /\ strip'[t].binding = "pending" /\ strip'[t].sid = NoSid
      /\ ~ strip'[t].turn /\ strip'[t].draft = "none"
      /\ \A u \in TabIds : u # t => strip'[u] = strip[u]
  BY <1>1, TabFacts DEF ReloadTypes, TabRecords
<1>4. [type |-> "tab.open", of |-> t] \in Posts
  BY DEF Posts
<1>5. /\ toHost' \in Seq(Posts) /\ Len(toHost) \in Nat /\ Len(toHost') = Len(toHost) + 1
      /\ toHost'[Len(toHost) + 1].type = "tab.open" /\ toHost'[Len(toHost) + 1].of = t
      /\ \A i \in 1 .. Len(toHost) : toHost'[i] = toHost[i] /\ toHost[i] \in Posts
  BY <1>1, <1>4, PostsGrow DEF ReloadTypes
<1>6. /\ t \in TabIds /\ t \notin minted /\ t # BootstrapTab /\ strip[t] = NoTabState /\ hosted[t] = "none"
      /\ t \notin known /\ \A i \in 1 .. Len(toHost) : OpenAsked(i) => toHost[i].of # t
  BY TabFacts DEF NumbersMinted, PostsInOrder, KnownArePresent, ReloadTypes
<1>7. ReloadTypes'
  BY <1>1, <1>2, <1>3, <1>5, <1>6 DEF ReloadTypes
<1>8. NumbersMinted'
  BY <1>1, <1>2, <1>3, <1>6 DEF NumbersMinted, ReloadTypes
<1>9. ShownElsewhere'
  <2>1. \A u \in TabIds : strip'[u].sid # t
    BY <1>3, <1>6, TabFacts DEF NumbersMinted
  <2> QED BY <1>1, <1>3, <1>6, <2>1, TabFacts DEF ShownElsewhere
<1>10. \A i \in 1 .. Len(toHost') : i # Len(toHost) + 1 => i \in 1 .. Len(toHost) /\ toHost'[i] = toHost[i]
  BY <1>5
<1>12. known' \subseteq known \cup {t}
  <2>1. CASE pageState = "hydrated"
    BY <1>1, <2>1
  <2>2. CASE pageState # "hydrated"
    BY <1>1, <2>2
  <2> QED BY <2>1, <2>2
<1>13. t \in known' => pageState = "hydrated"
  BY <1>1, <1>6
<1>11. PostsInOrder'
  <2>1. \A i \in 1 .. Len(toHost') : OpenAsked(i)' => /\ hosted'[toHost'[i].of] = "none" /\ toHost'[i].of \in minted'
                                                  /\ toHost'[i].of # BootstrapTab
    BY <1>1, <1>2, <1>5, <1>6, <1>10 DEF PostsInOrder, OpenAsked
  <2>2. \A i, j \in 1 .. Len(toHost') : OpenAsked(i)' /\ OpenAsked(j)' /\ toHost'[i].of = toHost'[j].of => i = j
    BY <1>5, <1>6, <1>10 DEF PostsInOrder, OpenAsked
  <2>3. \A i \in 1 .. Len(toHost') : toHost'[i].type = "tab.close" => toHost'[i].of \in minted' \ known'
    BY <1>1, <1>5, <1>6, <1>10, <1>12 DEF PostsInOrder
  <2> QED BY <2>1, <2>2, <2>3 DEF PostsInOrder
<1>14. KnownArePresent'
  BY <1>2, <1>3, <1>6, <1>12, <1>13 DEF KnownArePresent, NumbersMinted, ReloadTypes
<1>15. KnownAreShown'
  <2>1. Awaits(t)'
    BY <1>3 DEF Awaits
  <2>2. \A s \in known : s # t /\ s \in TabIds /\ strip'[s] = strip[s] /\ (Awaits(s) => Awaits(s)')
    BY <1>2, <1>3, <1>6 DEF Awaits, ReloadTypes
  <2>3. \A s \in TabIds : s # t /\ OnItsWay(s)' => OnItsWay(s)
    BY <1>5, <1>10 DEF OnItsWay, OpenAsked
  <2>4. ASSUME NEW s \in known, hosted'[s] = "opening" \/ OnItsWay(s)' PROVE Awaits(s)'
    BY <1>2, <2>2, <2>3, <2>4 DEF KnownAreShown
  <2>5. \A s \in known :
          /\ hosted'[s] \in {"live", "replaying"} => strip'[s].binding = "bound" /\ strip'[s].sid = s
          /\ hosted'[s] = "live" => strip'[s].turn = (s \in liveTurns')
          /\ hosted'[s] = "none" => ~ (strip'[s].binding = "bound" /\ strip'[s].sid = s)
    BY <1>2, <2>2 DEF KnownAreShown
  <2>6. hosted'[t] = "none" /\ strip'[t].binding = "pending"
    BY <1>2, <1>3, <1>6
  <2> QED BY <1>12, <2>1, <2>4, <2>5, <2>6 DEF KnownAreShown
<1>16. TextIsKept'
  BY <1>2, <1>3, <1>6, <1>12 DEF TextIsKept, ReloadTypes, NumbersMinted
<1> QED BY <1>7, <1>8, <1>9, <1>11, <1>14, <1>15, <1>16

LEMMA CloseTabKeeps == ReloadInv /\ CloseTab => ReloadInv'
<1> SUFFICES ASSUME ReloadInv, CloseTab PROVE ReloadInv'
  OBVIOUS
<1> USE DEF ReloadInv
<1>1. PICK t \in Present :
        /\ strip' = [strip EXCEPT ![t] = NoTabState]
        /\ toHost' = IF strip[t].sid = NoSid THEN toHost
                     ELSE Append(toHost, [type |-> "tab.close", of |-> strip[t].sid])
        /\ known' = known \ {t, strip[t].sid} /\ owed' = owed \ {t}
  BY DEF CloseTab
<1>2. UNCHANGED <<pageState, minted, restoredDrafts, hosted, liveTurns, tombs>>
  BY DEF CloseTab, reloadHostVars
<1>3. /\ t \in TabIds /\ strip' \in [TabIds -> TabRecords] /\ strip'[t] = NoTabState
      /\ \A u \in TabIds : u # t => strip'[u] = strip[u]
  BY <1>1, TabFacts DEF ReloadTypes, Present
<1>4. known' \subseteq known /\ t \notin known' /\ owed' \subseteq owed /\ t \notin owed'
  BY <1>1
<1>5. /\ toHost' \in Seq(Posts) /\ PostsInOrder'
      /\ \A s \in TabIds : OnItsWay(s)' => OnItsWay(s)
  <2>1. CASE strip[t].sid = NoSid
    BY <1>1, <1>2, <1>4, <2>1 DEF PostsInOrder, OnItsWay, OpenAsked, ReloadTypes
  <2>2. CASE strip[t].sid # NoSid
    <3>1. strip[t].sid \in TabIds /\ strip[t].sid \in minted /\ strip[t].sid \notin known'
      BY <1>1, <1>3, <2>2 DEF ReloadTypes, TabRecords, NumbersMinted
    <3> DEFINE m == [type |-> "tab.close", of |-> strip[t].sid]
    <3>2. m \in Posts /\ m.type = "tab.close" /\ m.of = strip[t].sid /\ toHost' = Append(toHost, m)
      BY <1>1, <2>2, <3>1 DEF Posts
    <3> HIDE DEF m
    <3> QED BY <1>2, <1>4, <3>1, <3>2, QueueGrows
  <2> QED BY <2>1, <2>2
<1>6. ReloadTypes'
  BY <1>2, <1>3, <1>4, <1>5 DEF ReloadTypes
<1>7. NumbersMinted'
  BY <1>2, <1>3, <1>4, TabFacts DEF NumbersMinted
<1>8. ShownElsewhere'
  BY <1>3, TabFacts DEF ShownElsewhere
<1>9. KnownArePresent'
  BY <1>2, <1>3, <1>4 DEF KnownArePresent, ReloadTypes
<1>10. KnownAreShown'
  BY <1>2, <1>3, <1>4, <1>5, ShownStays DEF ReloadTypes
<1>11. TextIsKept'
  BY <1>2, <1>3, <1>4 DEF TextIsKept, ReloadTypes
<1> QED BY <1>5, <1>6, <1>7, <1>8, <1>9, <1>10, <1>11

LEMMA TypeDraftKeeps == ReloadInv /\ TypeDraft => ReloadInv'
<1> SUFFICES ASSUME ReloadInv, TypeDraft PROVE ReloadInv'
  OBVIOUS
<1> USE DEF ReloadInv
<1>1. PICK t \in Present : /\ strip' = [strip EXCEPT ![t].draft = "typed"]
                           /\ owed' = owed \cup {t}
  BY DEF TypeDraft
<1>2. UNCHANGED <<pageState, minted, restoredDrafts, hosted, liveTurns, tombs, toHost, known>>
  BY DEF TypeDraft, reloadHostVars
<1>3. /\ t \in TabIds /\ strip[t].binding # "absent" /\ strip' \in [TabIds -> TabRecords]
      /\ strip'[t].draft = "typed" /\ strip'[t].binding = strip[t].binding
      /\ strip'[t].sid = strip[t].sid /\ strip'[t].turn = strip[t].turn
      /\ \A u \in TabIds : u # t => strip'[u] = strip[u]
  BY <1>1 DEF ReloadTypes, Present, TabRecords
<1>4. /\ \A s \in TabIds : OnItsWay(s)' => OnItsWay(s)
      /\ PostsInOrder'
  BY <1>2 DEF OnItsWay, PostsInOrder, OpenAsked
<1>5. \A u \in TabIds : /\ strip'[u].binding = strip[u].binding
                        /\ strip'[u].sid = strip[u].sid /\ strip'[u].turn = strip[u].turn
                        /\ strip[u].binding = "absent" => strip'[u] = strip[u]
  BY <1>3
<1>6. ReloadTypes'
  BY <1>1, <1>2, <1>3 DEF ReloadTypes
<1>7. NumbersMinted' /\ ShownElsewhere' /\ KnownArePresent'
  <2>1. owed' \subseteq minted /\ tombs' \subseteq minted /\ restoredDrafts' \subseteq minted
    BY <1>1, <1>2, <1>3 DEF NumbersMinted
  <2>2. \A s \in liveTurns' : hosted[s] = "live"
    BY <1>2 DEF NumbersMinted
  <2> QED BY <1>2, <1>5, <2>1, <2>2, TabsStay
<1>8. KnownAreShown'
  BY <1>2, <1>4, <1>5, ShownStays DEF ReloadTypes
<1>9. TextIsKept'
  BY <1>1, <1>2, <1>3 DEF TextIsKept, ReloadTypes
<1> QED BY <1>4, <1>6, <1>7, <1>8, <1>9

LEMMA SendDraftKeeps == ReloadInv /\ SendDraft => ReloadInv'
<1> SUFFICES ASSUME ReloadInv, SendDraft PROVE ReloadInv'
  OBVIOUS
<1> USE DEF ReloadInv
<1>1. PICK t \in Present : /\ strip[t].binding = "bound" /\ strip' = [strip EXCEPT ![t].draft = "sent"]
                           /\ toHost' = Append(toHost, [type |-> "prompt", of |-> strip[t].sid])
  BY DEF SendDraft
<1>2. UNCHANGED <<pageState, minted, restoredDrafts, hosted, liveTurns, tombs, known, owed>>
  BY DEF SendDraft, reloadHostVars
<1>3. /\ t \in TabIds /\ strip[t].binding # "absent" /\ strip' \in [TabIds -> TabRecords]
      /\ strip'[t].draft = "sent" /\ strip'[t].binding = strip[t].binding
      /\ strip'[t].sid = strip[t].sid /\ strip'[t].turn = strip[t].turn
      /\ \A u \in TabIds : u # t => strip'[u] = strip[u]
  BY <1>1 DEF ReloadTypes, Present, TabRecords
<1>4. toHost' \in Seq(Posts) /\ PostsInOrder' /\ \A s \in TabIds : OnItsWay(s)' => OnItsWay(s)
  <2> DEFINE m == [type |-> "prompt", of |-> strip[t].sid]
  <2>1. strip[t].sid \in TabIds
    BY <1>1, <1>3 DEF ReloadTypes, TabRecords, NumbersMinted
  <2>2. m \in Posts /\ m.type = "prompt" /\ toHost' = Append(toHost, m)
    BY <1>1, <2>1 DEF Posts
  <2> HIDE DEF m
  <2> QED BY <1>2, <2>2, QueueGrows
<1>5. \A u \in TabIds : /\ strip'[u].binding = strip[u].binding
                        /\ strip'[u].sid = strip[u].sid /\ strip'[u].turn = strip[u].turn
                        /\ strip[u].binding = "absent" => strip'[u] = strip[u]
  BY <1>3
<1>6. ReloadTypes'
  BY <1>2, <1>3, <1>4 DEF ReloadTypes
<1>7. NumbersMinted' /\ ShownElsewhere' /\ KnownArePresent'
  <2>1. owed' \subseteq minted /\ tombs' \subseteq minted /\ restoredDrafts' \subseteq minted
    BY <1>2 DEF NumbersMinted
  <2>2. \A s \in liveTurns' : hosted[s] = "live"
    BY <1>2 DEF NumbersMinted
  <2> QED BY <1>2, <1>5, <2>1, <2>2, TabsStay
<1>8. KnownAreShown'
  BY <1>2, <1>4, <1>5, ShownStays DEF ReloadTypes
<1>9. TextIsKept'
  BY <1>2, <1>3 DEF TextIsKept, ReloadTypes
<1> QED BY <1>4, <1>6, <1>7, <1>8, <1>9

LEMMA LosePageKeeps == ReloadInv /\ LosePage => ReloadInv'
<1> SUFFICES ASSUME ReloadInv, LosePage PROVE ReloadInv'
  OBVIOUS
<1> USE DEF ReloadInv
<1>1. /\ pageState' = "mounting" /\ strip' = BootStrip /\ known' = {}
      /\ restoredDrafts' = {t \in Present : strip[t].draft # "none"}
      /\ owed' = owed \cap known /\ toHost' \in {toHost, << >>}
      /\ UNCHANGED <<minted, hosted, liveTurns, tombs>>
  BY DEF LosePage, reloadHostVars
<1>2. \A t \in TabIds : strip'[t] = IF t = BootstrapTab THEN FreshTab ELSE NoTabState
  BY <1>1, TabFacts
<1>3. owed' \subseteq restoredDrafts' /\ restoredDrafts' \subseteq minted /\ owed' \subseteq minted
  <2>1. owed' \subseteq restoredDrafts'
    BY <1>1 DEF Present, TextIsKept, KnownArePresent, ReloadTypes
  <2>2. restoredDrafts' \subseteq minted
    BY <1>1 DEF Present, NumbersMinted
  <2> QED BY <2>1, <2>2
<1>4. ReloadTypes'
  <2>1. owed' \subseteq TabIds /\ restoredDrafts' \subseteq TabIds /\ known' \subseteq TabIds
    BY <1>1, <1>3 DEF ReloadTypes
  <2>2. toHost' \in Seq(Posts)
    <3>1. << >> \in Seq(Posts)
      OBVIOUS
    <3> QED BY <1>1, <3>1 DEF ReloadTypes
  <2> QED BY <1>1, <2>1, <2>2, TabFacts DEF ReloadTypes
<1>5. NumbersMinted'
  <2>1. \A t \in TabIds : /\ strip'[t].binding = "absent" => strip'[t] = NoTabState
                          /\ strip'[t].binding # "absent" => t = BootstrapTab
                          /\ strip'[t].sid = NoSid /\ strip'[t].binding # "bound"
    BY <1>2, TabFacts
  <2> QED BY <1>1, <1>3, <2>1 DEF NumbersMinted
<1>6. ShownElsewhere'
  BY <1>2, TabFacts DEF ShownElsewhere
<1>7. PostsInOrder'
  BY <1>1 DEF PostsInOrder, OpenAsked
<1>8. KnownArePresent' /\ KnownAreShown'
  BY <1>1 DEF KnownArePresent, KnownAreShown
<1>9. TextIsKept'
  BY <1>1, <1>3 DEF TextIsKept
<1> QED BY <1>4, <1>5, <1>6, <1>7, <1>8, <1>9

LEMMA PageMountsKeeps == ReloadInv /\ PageMounts => ReloadInv'
<1> SUFFICES ASSUME ReloadInv, PageMounts PROVE ReloadInv'
  OBVIOUS
<1> USE DEF ReloadInv
<1> DEFINE m == [type |-> "ready", of |-> NoSid]
<1>1. /\ pageState = "mounting" /\ pageState' = "listening" /\ toHost' = Append(toHost, m)
      /\ UNCHANGED <<strip, minted, restoredDrafts, known, owed, hosted, liveTurns, tombs>>
  BY DEF PageMounts, reloadHostVars
<1>2. m \in Posts /\ m.type = "ready"
  BY DEF Posts
<1> HIDE DEF m
<1>3. known = {}
  BY <1>1 DEF KnownArePresent
<1>4. toHost' \in Seq(Posts) /\ PostsInOrder' /\ \A s \in TabIds : OnItsWay(s)' => OnItsWay(s)
  BY <1>1, <1>2, QueueGrows
<1>5. ReloadTypes'
  BY <1>1, <1>4 DEF ReloadTypes
<1>6. NumbersMinted' /\ ShownElsewhere'
  BY <1>1 DEF NumbersMinted, ShownElsewhere
<1>7. KnownArePresent' /\ KnownAreShown'
  BY <1>1, <1>3 DEF KnownArePresent, KnownAreShown
<1>8. TextIsKept'
  BY <1>1 DEF TextIsKept
<1> QED BY <1>4, <1>5, <1>6, <1>7, <1>8

\* What is left of the queue when its first post is handled.
LEMMA QueueShrinks ==
  ASSUME ReloadInv, toHost # << >>, toHost' = Tail(toHost), minted' = minted,
         \/ known' \subseteq known
         \/ \A i \in 1 .. Len(toHost') : toHost'[i].type = "tab.close" => toHost'[i].of \notin known',
         \A s \in TabIds : s # Head(toHost).of \/ ~ OpenAsked(1) => hosted'[s] = hosted[s]
  PROVE  /\ Head(toHost) = toHost[1] /\ Head(toHost) \in Posts /\ toHost' \in Seq(Posts) /\ PostsInOrder'
         /\ \A s \in TabIds : OnItsWay(s)' => OnItsWay(s) /\ (OpenAsked(1) => s # Head(toHost).of)
         /\ OpenAsked(1) => OnItsWay(Head(toHost).of) /\ hosted[Head(toHost).of] = "none"
<1> USE DEF ReloadInv
<1>1. toHost \in Seq(Posts)
  BY DEF ReloadTypes
<1>2. /\ Tail(toHost) \in Seq(Posts) /\ Head(toHost) = toHost[1] /\ 1 \in 1 .. Len(toHost)
      /\ Len(toHost) \in Nat /\ Len(toHost') = Len(toHost) - 1
      /\ \A i \in 1 .. Len(toHost') : toHost'[i] = toHost[i + 1] /\ i + 1 \in 1 .. Len(toHost)
      /\ \A i \in 1 .. Len(toHost) : toHost[i] \in Posts
  BY <1>1, PostsShrink
<1>3. \A i \in 1 .. Len(toHost') : OpenAsked(i)' => OpenAsked(i + 1) /\ i + 1 # 1
  BY <1>2 DEF OpenAsked
<1>4. \A i \in 1 .. Len(toHost') : OpenAsked(i)' /\ OpenAsked(1) => toHost'[i].of # Head(toHost).of
  BY <1>2, <1>3 DEF PostsInOrder
<1>5. \A i \in 1 .. Len(toHost') : OpenAsked(i)' => toHost'[i].of \in TabIds
  BY <1>2 DEF OpenAsked, Posts
<1>6. PostsInOrder'
  <2>1. \A i \in 1 .. Len(toHost') : OpenAsked(i)' => /\ hosted'[toHost'[i].of] = "none" /\ toHost'[i].of \in minted'
                                                  /\ toHost'[i].of # BootstrapTab
    BY <1>2, <1>3, <1>4, <1>5 DEF PostsInOrder
  <2>2. \A i, j \in 1 .. Len(toHost') : OpenAsked(i)' /\ OpenAsked(j)' /\ toHost'[i].of = toHost'[j].of => i = j
    <3> SUFFICES ASSUME NEW i \in 1 .. Len(toHost'), NEW j \in 1 .. Len(toHost'),
                        OpenAsked(i)', OpenAsked(j)', toHost'[i].of = toHost'[j].of
                 PROVE  i = j
      OBVIOUS
    <3>1. i + 1 = j + 1
      BY <1>2, <1>3 DEF PostsInOrder
    <3> QED BY <3>1
  <2>3. \A i \in 1 .. Len(toHost') : toHost'[i].type = "tab.close" => toHost'[i].of \in minted' \ known'
    BY <1>2 DEF PostsInOrder
  <2> QED BY <2>1, <2>2, <2>3 DEF PostsInOrder
<1>7. \A s \in TabIds : OnItsWay(s)' => OnItsWay(s) /\ (OpenAsked(1) => s # Head(toHost).of)
  <2> SUFFICES ASSUME NEW s \in TabIds, OnItsWay(s)' PROVE OnItsWay(s) /\ (OpenAsked(1) => s # Head(toHost).of)
    OBVIOUS
  <2>1. PICK i \in 1 .. Len(toHost') : OpenAsked(i)' /\ toHost'[i].of = s
    BY DEF OnItsWay
  <2> QED BY <1>2, <1>3, <1>4, <2>1 DEF OnItsWay
<1>8. OpenAsked(1) => OnItsWay(Head(toHost).of) /\ hosted[Head(toHost).of] = "none"
  BY <1>2 DEF OnItsWay, PostsInOrder
<1> QED BY <1>2, <1>6, <1>7, <1>8

HandleHead(A) == toHost # << >> /\ toHost' = Tail(toHost) /\ A

LEMMA HandleOpenKeeps == ReloadInv /\ HandleHead(HandleOpen) => ReloadInv'
<1> SUFFICES ASSUME ReloadInv, HandleHead(HandleOpen) PROVE ReloadInv'
  OBVIOUS
<1> USE DEF ReloadInv
<1> DEFINE t == Head(toHost).of
<1>1. /\ toHost # << >> /\ toHost' = Tail(toHost) /\ Head(toHost).type = "tab.open"
      /\ hosted' = [hosted EXCEPT ![t] = "opening"]
      /\ UNCHANGED <<pageState, strip, minted, restoredDrafts, liveTurns, tombs, known, owed>>
  BY DEF HandleHead, HandleOpen, reloadPageVars
<1>2. Head(toHost) = toHost[1]
  BY <1>1, PostsShrink DEF ReloadTypes
<1>3. OpenAsked(1)
  BY <1>1, <1>2 DEF OpenAsked
<1>4. \A s \in TabIds : s # t \/ ~ OpenAsked(1) => hosted'[s] = hosted[s]
  BY <1>1, <1>3 DEF ReloadTypes
<1>5. /\ Head(toHost) \in Posts /\ toHost' \in Seq(Posts) /\ PostsInOrder'
      /\ \A s \in TabIds : OnItsWay(s)' => OnItsWay(s) /\ s # t
      /\ OnItsWay(t) /\ hosted[t] = "none"
  BY <1>1, <1>3, <1>4, QueueShrinks
<1>6. t \in TabIds /\ t \in minted
  <2>1. t \in TabIds
    BY <1>1, <1>5 DEF Posts
  <2> QED BY <1>2, <1>3, <1>1, <2>1, PostsShrink DEF PostsInOrder, ReloadTypes
<1>7. hosted'[t] = "opening" /\ \A s \in TabIds : s # t => hosted'[s] = hosted[s]
  BY <1>1, <1>6 DEF ReloadTypes
<1> HIDE DEF t
<1>8. ReloadTypes'
  BY <1>1, <1>5, <1>6 DEF ReloadTypes
<1>9. NumbersMinted'
  BY <1>1, <1>5, <1>6, <1>7 DEF NumbersMinted, ReloadTypes
<1>10. ShownElsewhere' /\ KnownArePresent' /\ TextIsKept'
  BY <1>1 DEF ShownElsewhere, KnownArePresent, TextIsKept
<1>11. KnownAreShown'
  <2>1. \A s \in known : s \in TabIds /\ (Awaits(s) => Awaits(s)')
    BY <1>1, <1>7 DEF Awaits, ReloadTypes
  <2>2. \A s \in known : s # t => /\ hosted'[s] = hosted[s] /\ (OnItsWay(s)' => OnItsWay(s))
    BY <1>5, <1>7, <2>1
  <2>3. t \in known => Awaits(t)
    BY <1>5 DEF KnownAreShown
  <2> QED BY <1>1, <1>7, <2>1, <2>2, <2>3 DEF KnownAreShown
<1> QED BY <1>5, <1>8, <1>9, <1>10, <1>11

LEMMA HandleCloseKeeps == ReloadInv /\ HandleHead(HandleClose) => ReloadInv'
<1> SUFFICES ASSUME ReloadInv, HandleHead(HandleClose) PROVE ReloadInv'
  OBVIOUS
<1> USE DEF ReloadInv
<1> DEFINE t == Head(toHost).of
<1>1. /\ toHost # << >> /\ toHost' = Tail(toHost) /\ Head(toHost).type = "tab.close"
      /\ tombs' = tombs \cup {t}
      /\ UNCHANGED <<pageState, strip, minted, restoredDrafts, hosted, liveTurns, known, owed>>
  BY DEF HandleHead, HandleClose, reloadPageVars
<1>2. /\ Head(toHost) = toHost[1] /\ Head(toHost) \in Posts /\ toHost' \in Seq(Posts) /\ PostsInOrder'
      /\ \A s \in TabIds : OnItsWay(s)' => OnItsWay(s)
  BY <1>1, QueueShrinks
<1>3. t \in TabIds /\ t \in minted /\ t \notin known
  <2>1. t \in TabIds
    BY <1>1, <1>2 DEF Posts
  <2> QED BY <1>1, <1>2, <2>1, PostsShrink DEF PostsInOrder, ReloadTypes
<1> HIDE DEF t
<1>4. ReloadTypes'
  BY <1>1, <1>2, <1>3 DEF ReloadTypes
<1>5. NumbersMinted'
  BY <1>1, <1>3 DEF NumbersMinted
<1>6. ShownElsewhere' /\ KnownArePresent' /\ TextIsKept'
  BY <1>1, <1>3 DEF ShownElsewhere, KnownArePresent, TextIsKept
<1>7. KnownAreShown'
  BY <1>1, <1>2, ShownStays
<1> QED BY <1>2, <1>4, <1>5, <1>6, <1>7

LEMMA HandlePromptKeeps == ReloadInv /\ HandleHead(HandlePrompt) => ReloadInv'
<1> SUFFICES ASSUME ReloadInv, HandleHead(HandlePrompt) PROVE ReloadInv'
  OBVIOUS
<1> USE DEF ReloadInv
<1> DEFINE s == Head(toHost).of
           admitted == hosted[s] = "live" /\ s \notin liveTurns
<1>1. /\ toHost # << >> /\ toHost' = Tail(toHost) /\ Head(toHost).type = "prompt"
      /\ liveTurns' = IF admitted THEN liveTurns \cup {s} ELSE liveTurns
      /\ strip' = [t \in TabIds |->
             IF t \notin TabsOf(s) \/ ~ (admitted /\ PageListens) THEN strip[t]
             ELSE [strip[t] EXCEPT !.turn = TRUE,
                                   !.draft = IF @ = "sent" THEN "none" ELSE @]]
      /\ owed' = {t \in owed : ~ (admitted /\ t \in TabsOf(s) /\ strip[t].draft = "sent")}
      /\ UNCHANGED <<pageState, minted, restoredDrafts, hosted, tombs, known>>
  BY DEF HandleHead, HandlePrompt
<1>2. /\ Head(toHost) \in Posts /\ toHost' \in Seq(Posts) /\ PostsInOrder'
      /\ \A q \in TabIds : OnItsWay(q)' => OnItsWay(q)
  BY <1>1, QueueShrinks
<1>3. s \in TabIds
  BY <1>1, <1>2 DEF Posts
<1>4. CASE ~ admitted
  <2>1. liveTurns' = liveTurns /\ strip' = strip /\ owed' = owed
    BY <1>1, <1>4 DEF ReloadTypes
  <2>2. KnownAreShown'
    BY <1>1, <1>2, <2>1, ShownStays
  <2>3. ReloadTypes'
    BY <1>1, <1>2, <2>1 DEF ReloadTypes
  <2>4. NumbersMinted' /\ ShownElsewhere'
    <3>1. UNCHANGED <<strip, liveTurns, owed, minted, hosted, tombs, restoredDrafts>>
      BY <1>1, <2>1
    <3> QED BY <3>1 DEF NumbersMinted, ShownElsewhere
  <2>5. KnownArePresent' /\ TextIsKept'
    BY <1>1, <2>1 DEF KnownArePresent, TextIsKept
  <2> QED BY <1>2, <2>2, <2>3, <2>4, <2>5
<1>5. CASE admitted
  <2>1. hosted[s] = "live" /\ s \notin liveTurns /\ liveTurns' = liveTurns \cup {s}
    BY <1>1, <1>5
  <2>2. /\ \A t \in TabIds : t \notin TabsOf(s) => strip'[t] = strip[t]
        /\ \A t \in TabIds : t \in TabsOf(s) /\ ~ PageListens => strip'[t] = strip[t]
        /\ \A t \in TabsOf(s) :
             PageListens => strip'[t] = [strip[t] EXCEPT !.turn = TRUE,
                                           !.draft = IF @ = "sent" THEN "none" ELSE @]
    BY <1>1, <1>5 DEF TabsOf, Present
  <2>3. owed' = {t \in owed : ~ (t \in TabsOf(s) /\ strip[t].draft = "sent")}
    BY <1>1, <1>5
  <2>4. \A t \in TabsOf(s) : t \in TabIds /\ strip[t].sid = s /\ strip[t].binding # "absent" /\ strip[t] \in TabRecords
    BY DEF TabsOf, Present, ReloadTypes
  <2>5. \A t \in TabsOf(s) :
          /\ strip'[t] \in TabRecords /\ strip'[t].binding = strip[t].binding /\ strip'[t].sid = strip[t].sid
          /\ PageListens => strip'[t].turn
          /\ strip'[t].draft = strip[t].draft \/ strip[t].draft = "sent"
    <3> SUFFICES ASSUME NEW t \in TabsOf(s)
                 PROVE  /\ strip'[t] \in TabRecords /\ strip'[t].binding = strip[t].binding
                        /\ strip'[t].sid = strip[t].sid
                        /\ PageListens => strip'[t].turn
                        /\ strip'[t].draft = strip[t].draft \/ strip[t].draft = "sent"
      OBVIOUS
    <3>1. CASE ~ PageListens
      BY <2>2, <2>4, <3>1
    <3>2. CASE PageListens /\ strip[t].draft = "sent"
      <4>1. strip'[t] = [strip[t] EXCEPT !.turn = TRUE, !.draft = "none"]
        BY <2>2, <2>4, <3>2 DEF TabRecords
      <4> QED BY <2>4, <3>2, <4>1 DEF TabRecords
    <3>3. CASE PageListens /\ strip[t].draft # "sent"
      <4>1. strip'[t] = [strip[t] EXCEPT !.turn = TRUE, !.draft = strip[t].draft]
        BY <2>2, <2>4, <3>3 DEF TabRecords
      <4> QED BY <2>4, <3>3, <4>1 DEF TabRecords
    <3> QED BY <3>1, <3>2, <3>3
  <2>6. strip' \in [TabIds -> TabRecords]
    <3>1. \A t \in TabIds : strip'[t] \in TabRecords
      BY <2>2, <2>5 DEF ReloadTypes
    <3>2. DOMAIN strip' = TabIds /\ strip' = [t \in TabIds |-> strip'[t]]
      BY <1>1
    <3> QED BY <3>1, <3>2
  <2>7. \A t \in TabIds : /\ strip'[t].binding = strip[t].binding /\ strip'[t].sid = strip[t].sid
                          /\ strip[t].binding = "absent" => strip'[t] = strip[t]
    BY <2>2, <2>4, <2>5
  <2>8. ReloadTypes'
    BY <1>1, <1>2, <1>3, <2>1, <2>3, <2>6 DEF ReloadTypes
  <2>9. ShownElsewhere' /\ KnownArePresent'
    BY <1>1, <2>7, TabsStay
  <2>10. NumbersMinted'
    <3>1. tombs' \subseteq minted /\ restoredDrafts' \subseteq minted /\ owed' \subseteq minted
      BY <1>1, <2>3 DEF NumbersMinted
    <3>2. \A q \in liveTurns' : hosted[q] = "live"
      BY <2>1 DEF NumbersMinted
    <3> QED BY <1>1, <2>7, <3>1, <3>2, TabsStay
  <2>11. TextIsKept'
    <3>1. \A t \in owed' : t \in owed /\ t \in TabIds /\ strip'[t].draft = strip[t].draft
      BY <2>2, <2>3, <2>5 DEF ReloadTypes
    <3> QED BY <1>1, <3>1 DEF TextIsKept
  <2>12. KnownAreShown'
    <3>1. \A q \in known : q \in TabIds /\ PageListens
      BY DEF KnownArePresent, ReloadTypes, PageListens
    <3>2. \A q \in known : q # s /\ q \in TabsOf(s) => ~ hosted[q] = "live" /\ ~ Awaits(q)
      BY <1>3, <2>4, <3>1, TabFacts DEF KnownAreShown, Awaits
    <3>3. \A q \in known : Awaits(q) => Awaits(q)'
      <4> SUFFICES ASSUME NEW q \in known, Awaits(q) PROVE Awaits(q)'
        OBVIOUS
      <4>1. q \notin TabsOf(s)
        BY <1>3, <2>4, TabFacts DEF Awaits
      <4>2. strip'[q] = strip[q] /\ hosted' = hosted
        BY <1>1, <2>2, <3>1, <4>1
      <4> QED BY <4>2 DEF Awaits
    <3>4. \A q \in known : hosted[q] = "live" => strip'[q].turn = (q \in liveTurns')
      <4> SUFFICES ASSUME NEW q \in known, hosted[q] = "live" PROVE strip'[q].turn = (q \in liveTurns')
        OBVIOUS
      <4>1. q \in TabIds /\ strip[q].binding = "bound" /\ strip[q].sid = q /\ strip[q].turn = (q \in liveTurns)
        BY <3>1 DEF KnownAreShown
      <4>2. CASE q = s
        <5>1. q \in TabsOf(s)
          BY <4>1, <4>2 DEF TabsOf, Present
        <5>2. strip'[q].turn = TRUE
          BY <2>2, <2>4, <3>1, <5>1 DEF TabRecords
        <5> QED BY <2>1, <4>2, <5>2
      <4>3. CASE q # s
        <5>1. strip'[q] = strip[q]
          BY <2>2, <3>2, <4>1, <4>3
        <5>2. (q \in liveTurns') = (q \in liveTurns)
          BY <2>1, <4>3
        <5> QED BY <4>1, <5>1, <5>2
      <4> QED BY <4>2, <4>3
    <3>5. \A q \in known :
            /\ hosted[q] \in {"live", "replaying"} => strip'[q].binding = "bound" /\ strip'[q].sid = q
            /\ hosted[q] = "none" => ~ (strip'[q].binding = "bound" /\ strip'[q].sid = q)
            /\ hosted[q] = "opening" \/ OnItsWay(q)' => Awaits(q)'
      BY <1>2, <2>7, <3>1, <3>3 DEF KnownAreShown
    <3> QED BY <1>1, <3>4, <3>5 DEF KnownAreShown
  <2> QED BY <1>2, <2>8, <2>9, <2>10, <2>11, <2>12
<1> QED BY <1>4, <1>5

LEMMA HandleReadyKeeps == ReloadInv /\ HandleHead(HandleReady) => ReloadInv'
<1> SUFFICES ASSUME ReloadInv, HandleHead(HandleReady) PROVE ReloadInv'
  OBVIOUS
<1> USE DEF ReloadInv
<1>1. /\ toHost # << >> /\ toHost' = Tail(toHost) /\ Head(toHost).type = "ready"
      /\ UNCHANGED <<minted, restoredDrafts, hosted, liveTurns, tombs>>
  BY DEF HandleHead, HandleReady, reloadHostVars
<1>2. Head(toHost) = toHost[1] /\ ~ OpenAsked(1)
  BY <1>1, PostsShrink DEF ReloadTypes, OpenAsked
<1>3. CASE ~ PageListens
  <2>1. UNCHANGED <<pageState, strip, known, owed>>
    BY <1>3 DEF HandleHead, HandleReady
  <2>2. /\ toHost' \in Seq(Posts) /\ PostsInOrder' /\ \A s \in TabIds : OnItsWay(s)' => OnItsWay(s)
    BY <1>1, <1>2, <2>1, QueueShrinks
  <2>3. ReloadTypes'
    BY <1>1, <2>1, <2>2 DEF ReloadTypes
  <2>4. NumbersMinted' /\ ShownElsewhere'
    BY <1>1, <2>1 DEF NumbersMinted, ShownElsewhere
  <2>5. KnownArePresent' /\ TextIsKept'
    BY <1>1, <2>1 DEF KnownArePresent, TextIsKept
  <2>6. KnownAreShown'
    BY <1>1, <2>1, <2>2, ShownStays
  <2> QED BY <2>2, <2>3, <2>4, <2>5, <2>6
<1>4. CASE PageListens
  <2>1. /\ pageState' = "hydrated" /\ strip' = (IF Seeded = {} THEN strip ELSE Hydrated)
        /\ known' = Seeded \ {toHost'[i].of : i \in {j \in DOMAIN toHost' : toHost'[j].type = "tab.close"}}
        /\ owed' = IF Seeded = {} THEN owed
                   ELSE (owed \cap restoredDrafts)
                        \cup {s \in Seeded : BaseTab(s) \in owed /\ BaseOf(s).draft # "none"}
    BY <1>1, <1>4 DEF HandleHead, HandleReady
  <2>2. \A i \in 1 .. Len(toHost') : toHost'[i].type = "tab.close" => toHost'[i].of \notin known'
    <3>1. DOMAIN toHost' = 1 .. Len(toHost')
      BY <1>1, PostsShrink DEF ReloadTypes
    <3> QED BY <2>1, <3>1
  <2>3. /\ toHost' \in Seq(Posts) /\ PostsInOrder' /\ \A s \in TabIds : OnItsWay(s)' => OnItsWay(s)
    BY <1>1, <1>2, <2>2, QueueShrinks
  <2>4. /\ known' \subseteq Seeded
        /\ \A s \in Seeded : s \in TabIds /\ s \notin tombs /\ hosted[s] \in {"live", "replaying"} /\ s \in minted
    <3>1. known' \subseteq Seeded
      BY <2>1
    <3> QED BY <3>1 DEF Seeded, NumbersMinted
  <2>5. CASE Seeded = {}
    <3>1. known' = {} /\ strip' = strip /\ owed' = owed
      BY <2>1, <2>4, <2>5
    <3>2. ReloadTypes'
      BY <1>1, <2>1, <2>3, <3>1 DEF ReloadTypes
    <3>3. NumbersMinted' /\ ShownElsewhere'
      BY <1>1, <3>1 DEF NumbersMinted, ShownElsewhere
    <3>4. KnownArePresent' /\ KnownAreShown'
      BY <3>1 DEF KnownArePresent, KnownAreShown
    <3>5. TextIsKept'
      BY <1>1, <3>1 DEF TextIsKept
    <3> QED BY <2>3, <3>2, <3>3, <3>4, <3>5
  <2>6. CASE Seeded # {}
    <3>1. /\ strip' = Hydrated
          /\ owed' = (owed \cap restoredDrafts)
                     \cup {s \in Seeded : BaseTab(s) \in owed /\ BaseOf(s).draft # "none"}
      BY <2>1, <2>6
    <3>2. \A s \in Seeded : BaseOf(s) \in TabRecords
      BY <2>4, TabFacts DEF BaseOf, ReloadTypes, Present
    <3>3. \A t \in TabIds : t \notin Seeded => strip'[t] = NoTabState
      BY <3>1 DEF Hydrated
    <3>4. \A t \in Seeded :
            /\ strip'[t] \in TabRecords /\ strip'[t].binding = "bound" /\ strip'[t].sid = t
            /\ strip'[t].turn = (t \in liveTurns)
            /\ strip'[t].draft = IF BaseOf(t).draft = "none" /\ t \in restoredDrafts THEN "typed"
                                 ELSE BaseOf(t).draft
      <4> SUFFICES ASSUME NEW t \in Seeded
                   PROVE  /\ strip'[t] \in TabRecords /\ strip'[t].binding = "bound" /\ strip'[t].sid = t
                          /\ strip'[t].turn = (t \in liveTurns)
                          /\ strip'[t].draft = IF BaseOf(t).draft = "none" /\ t \in restoredDrafts THEN "typed"
                                               ELSE BaseOf(t).draft
        OBVIOUS
      <4> DEFINE d == IF BaseOf(t).draft = "none" /\ t \in restoredDrafts THEN "typed" ELSE BaseOf(t).draft
      <4>1. strip'[t] = [binding |-> "bound", sid |-> t, turn |-> t \in liveTurns, draft |-> d]
        BY <2>4, <3>1 DEF Hydrated
      <4>2. d \in {"none", "typed", "sent"} /\ (t \in liveTurns) \in BOOLEAN /\ t \in TabIds
        BY <2>4, <3>2 DEF TabRecords
      <4> HIDE DEF d
      <4>3. strip'[t] \in TabRecords
        BY <4>1, <4>2 DEF TabRecords
      <4>4. strip'[t].binding = "bound" /\ strip'[t].sid = t /\ strip'[t].draft = d
            /\ strip'[t].turn = (t \in liveTurns)
        BY <4>1
      <4> QED BY <4>3, <4>4 DEF d
    <3>5. strip' \in [TabIds -> TabRecords]
      <4>1. \A t \in TabIds : strip'[t] \in TabRecords
        BY <3>3, <3>4, TabFacts
      <4>2. DOMAIN strip' = TabIds /\ strip' = [t \in TabIds |-> strip'[t]]
        BY <3>1 DEF Hydrated
      <4> QED BY <4>1, <4>2
    <3>6. owed' \subseteq minted
      BY <2>4, <3>1 DEF NumbersMinted
    <3>7. ReloadTypes'
      BY <1>1, <2>1, <2>3, <2>4, <3>5, <3>6 DEF ReloadTypes
    <3>8. NumbersMinted'
      BY <1>1, <2>4, <3>3, <3>4, <3>6, TabFacts DEF NumbersMinted
    <3>9. ShownElsewhere'
      BY <2>4, <3>3, <3>4, TabFacts DEF ShownElsewhere
    <3>10. KnownArePresent'
      BY <1>1, <2>1, <2>4, <3>4 DEF KnownArePresent
    <3>11. KnownAreShown'
      <4>1. \A s \in known' : hosted[s] # "none" /\ ~ OnItsWay(s)'
        BY <2>3, <2>4 DEF OnItsWay, PostsInOrder
      <4> QED BY <1>1, <2>4, <3>4, <4>1 DEF KnownAreShown
    <3>12. TextIsKept'
      <4>1. \A t \in Seeded : t \in restoredDrafts \/ BaseOf(t).draft # "none" => strip'[t].draft # "none"
        BY <3>4
      <4> QED BY <1>1, <2>4, <3>1, <4>1 DEF TextIsKept
    <3> QED BY <2>3, <3>7, <3>8, <3>9, <3>10, <3>11, <3>12
  <2> QED BY <2>5, <2>6
<1> QED BY <1>3, <1>4

\* The turns of these sessions end on the tabs that show them.
LEMMA TurnsEndIs ==
  ASSUME strip \in [TabIds -> TabRecords], NEW S \in SUBSET TabIds
  PROVE  /\ TurnsEnd(strip, S) \in [TabIds -> TabRecords]
         /\ \A t \in TabIds :
              /\ TurnsEnd(strip, S)[t].binding = strip[t].binding /\ TurnsEnd(strip, S)[t].sid = strip[t].sid
              /\ TurnsEnd(strip, S)[t].draft = strip[t].draft
              /\ strip[t].sid \notin S => TurnsEnd(strip, S)[t] = strip[t]
              /\ PageListens /\ strip[t].sid \in S => ~ TurnsEnd(strip, S)[t].turn
<1>1. CASE ~ PageListens
  BY <1>1 DEF TurnsEnd
<1>2. CASE PageListens
  <2>1. TurnsEnd(strip, S) = [t \in TabIds |->
          IF strip[t].sid \in S THEN [strip[t] EXCEPT !.turn = FALSE] ELSE strip[t]]
    BY <1>2 DEF TurnsEnd
  <2>2. \A t \in TabIds : /\ strip[t] \in TabRecords
                          /\ [strip[t] EXCEPT !.turn = FALSE] \in TabRecords
    BY DEF TabRecords
  <2>3. TurnsEnd(strip, S) \in [TabIds -> TabRecords]
    BY <2>1, <2>2
  <2>4. \A t \in TabIds : strip[t].sid \in S => TurnsEnd(strip, S)[t] = [strip[t] EXCEPT !.turn = FALSE]
    BY <2>1
  <2>5. \A t \in TabIds : strip[t].sid \notin S => TurnsEnd(strip, S)[t] = strip[t]
    BY <2>1
  <2> QED BY <2>2, <2>3, <2>4, <2>5 DEF TabRecords
<1> QED BY <1>1, <1>2

\* The sessions of the page in the host.
LEMMA TurnFinishesKeeps == \A s \in TabIds : ReloadInv /\ TurnFinishes(s) => ReloadInv'
<1> SUFFICES ASSUME NEW s \in TabIds, ReloadInv, TurnFinishes(s) PROVE ReloadInv'
  OBVIOUS
<1> USE DEF ReloadInv
<1>1. /\ s \in liveTurns /\ liveTurns' = liveTurns \ {s} /\ strip' = TurnsEnd(strip, {s})
      /\ UNCHANGED <<pageState, minted, restoredDrafts, toHost, hosted, tombs, known, owed>>
  BY DEF TurnFinishes
<1>2. /\ strip' \in [TabIds -> TabRecords]
      /\ \A t \in TabIds :
           /\ strip'[t].binding = strip[t].binding /\ strip'[t].sid = strip[t].sid
           /\ strip'[t].draft = strip[t].draft
           /\ strip[t].sid # s => strip'[t] = strip[t]
           /\ PageListens /\ strip[t].sid = s => ~ strip'[t].turn
  BY <1>1, TurnsEndIs DEF ReloadTypes
<1>3. \A t \in TabIds : strip[t].binding = "absent" => strip'[t] = strip[t]
  BY <1>2, TabFacts DEF NumbersMinted
<1>4. ReloadTypes'
  BY <1>1, <1>2 DEF ReloadTypes
<1>5. NumbersMinted' /\ ShownElsewhere' /\ KnownArePresent'
  <2>1. owed' \subseteq minted /\ tombs' \subseteq minted /\ restoredDrafts' \subseteq minted
    BY <1>1 DEF NumbersMinted
  <2>2. \A q \in liveTurns' : hosted[q] = "live"
    BY <1>1 DEF NumbersMinted
  <2> QED BY <1>1, <1>2, <1>3, <2>1, <2>2, TabsStay
<1>6. PostsInOrder'
  BY <1>1 DEF PostsInOrder, OpenAsked
<1>7. KnownAreShown'
  <2>1. \A q \in known : q \in TabIds /\ PageListens
    BY DEF KnownArePresent, ReloadTypes, PageListens
  <2>2. \A q \in known : Awaits(q) => Awaits(q)'
    BY <1>1, <1>2, <2>1, TabFacts DEF Awaits
  <2>3. \A q \in known : hosted[q] = "live" => strip'[q].turn = (q \in liveTurns')
    <3> SUFFICES ASSUME NEW q \in known, hosted[q] = "live" PROVE strip'[q].turn = (q \in liveTurns')
      OBVIOUS
    <3>1. q \in TabIds /\ strip[q].sid = q /\ strip[q].turn = (q \in liveTurns)
      BY <2>1 DEF KnownAreShown
    <3>2. CASE q = s
      <4>1. strip'[q].turn = FALSE
        <5>1. strip'[q].turn \in BOOLEAN /\ ~ strip'[q].turn
          BY <1>2, <2>1, <3>1, <3>2 DEF TabRecords
        <5> QED BY <5>1
      <4>2. (q \in liveTurns') = FALSE
        BY <1>1, <3>2
      <4> QED BY <4>1, <4>2
    <3>3. CASE q # s
      <4>1. strip'[q] = strip[q]
        BY <1>2, <3>1, <3>3
      <4>2. (q \in liveTurns') = (q \in liveTurns)
        BY <1>1, <3>3
      <4> QED BY <3>1, <4>1, <4>2
    <3> QED BY <3>2, <3>3
  <2>4. \A q \in known : OnItsWay(q)' => OnItsWay(q)
    BY <1>1 DEF OnItsWay, OpenAsked
  <2>5. \A q \in known :
            /\ hosted[q] \in {"live", "replaying"} => strip'[q].binding = "bound" /\ strip'[q].sid = q
            /\ hosted[q] = "none" => ~ (strip'[q].binding = "bound" /\ strip'[q].sid = q)
            /\ hosted[q] = "opening" \/ OnItsWay(q)' => Awaits(q)'
    BY <1>2, <2>1, <2>2, <2>4 DEF KnownAreShown
  <2> QED BY <1>1, <2>3, <2>5 DEF KnownAreShown
<1>8. TextIsKept'
  BY <1>1, <1>2 DEF TextIsKept, ReloadTypes
<1> QED BY <1>4, <1>5, <1>6, <1>7, <1>8

LEMMA CloseRunsKeeps == \A s \in TabIds : ReloadInv /\ CloseRuns(s) => ReloadInv'
<1> SUFFICES ASSUME NEW s \in TabIds, ReloadInv, CloseRuns(s) PROVE ReloadInv'
  OBVIOUS
<1> USE DEF ReloadInv
<1>1. /\ s \in tombs /\ tombs' = tombs \ {s} /\ liveTurns' = liveTurns \ {s}
      /\ hosted' = [hosted EXCEPT ![s] = IF @ = "live" THEN "none" ELSE @]
      /\ UNCHANGED <<pageState, strip, minted, restoredDrafts, toHost, known, owed>>
  BY DEF CloseRuns, reloadPageVars
<1>2. /\ hosted' \in [TabIds -> {"none", "opening", "live", "recovering", "replaying"}]
      /\ \A q \in TabIds : q # s => hosted'[q] = hosted[q]
      /\ hosted[s] # "live" => hosted'[s] = hosted[s]
      /\ hosted[s] = "live" => hosted'[s] = "none"
  BY <1>1 DEF ReloadTypes
<1>3. \A q \in known : q \in TabIds /\ q # s /\ hosted'[q] = hosted[q] /\ (Awaits(q) => Awaits(q)')
      /\ (OnItsWay(q)' => OnItsWay(q))
  <2>1. \A q \in known : q \in TabIds /\ q # s /\ hosted'[q] = hosted[q]
    BY <1>1, <1>2 DEF KnownArePresent, ReloadTypes
  <2>2. \A q \in known : Awaits(q) => Awaits(q)'
    BY <1>1, <1>2 DEF Awaits
  <2>3. \A q \in known : OnItsWay(q)' => OnItsWay(q)
    BY <1>1 DEF OnItsWay, OpenAsked
  <2> QED BY <2>1, <2>2, <2>3
<1>4. ReloadTypes'
  BY <1>1, <1>2 DEF ReloadTypes
<1>5. NumbersMinted'
  BY <1>1, <1>2 DEF NumbersMinted, ReloadTypes
<1>6. ShownElsewhere' /\ TextIsKept'
  BY <1>1 DEF ShownElsewhere, TextIsKept
<1>7. KnownArePresent'
  BY <1>1 DEF KnownArePresent
<1>8. PostsInOrder'
  <2>1. \A i \in 1 .. Len(toHost) : OpenAsked(i) => toHost[i].of \in TabIds
    BY DEF PostsInOrder, ReloadTypes
  <2>2. \A q \in TabIds : hosted[q] = "none" => hosted'[q] = "none"
    BY <1>2
  <2> QED BY <1>1, <2>1, <2>2 DEF PostsInOrder, OpenAsked
<1>9. KnownAreShown'
  <2>1. \A q \in known : q # s => (q \in liveTurns') = (q \in liveTurns)
    BY <1>1
  <2> QED BY <1>1, <1>3, <2>1 DEF KnownAreShown
<1> QED BY <1>4, <1>5, <1>6, <1>7, <1>8, <1>9

\* A tab that is there gets its own session back.
LEMMA TabBindsIs ==
  ASSUME strip \in [TabIds -> TabRecords], NEW s \in TabIds
  PROVE  /\ TabBinds(strip, s, s) \in [TabIds -> TabRecords]
         /\ \A t \in TabIds : TabBinds(strip, s, s)[t].draft = strip[t].draft
                              /\ TabBinds(strip, s, s)[t].turn = strip[t].turn
         /\ \A t \in TabIds : t # s => TabBinds(strip, s, s)[t] = strip[t]
         /\ PageListens /\ strip[s].binding # "absent" =>
              TabBinds(strip, s, s)[s].binding = "bound" /\ TabBinds(strip, s, s)[s].sid = s
         /\ ~ (PageListens /\ strip[s].binding # "absent") => TabBinds(strip, s, s) = strip
<1>1. CASE PageListens /\ s \in Present
  <2>1. /\ TabBinds(strip, s, s) = [strip EXCEPT ![s].binding = "bound", ![s].sid = s]
        /\ strip[s] \in TabRecords
    BY <1>1 DEF TabBinds
  <2> DEFINE r == [strip[s] EXCEPT !.binding = "bound", !.sid = s]
  <2>2. r \in TabRecords /\ r.draft = strip[s].draft /\ r.turn = strip[s].turn
        /\ r.binding = "bound" /\ r.sid = s
    BY <2>1 DEF TabRecords
  <2>3. TabBinds(strip, s, s) = [t \in TabIds |-> IF t = s THEN r ELSE strip[t]]
    BY <2>1
  <2> HIDE DEF r
  <2>4. TabBinds(strip, s, s) \in [TabIds -> TabRecords] /\ TabBinds(strip, s, s)[s] = r
        /\ \A t \in TabIds : t # s => TabBinds(strip, s, s)[t] = strip[t]
    BY <2>2, <2>3
  <2> QED BY <1>1, <2>2, <2>4 DEF Present
<1>2. CASE ~ (PageListens /\ s \in Present)
  <2>1. TabBinds(strip, s, s) = strip
    BY <1>2 DEF TabBinds
  <2> QED BY <1>2, <2>1 DEF Present
<1> QED BY <1>1, <1>2

LEMMA OpenSettlesKeeps == \A s \in TabIds : ReloadInv /\ OpenSettles(s) => ReloadInv'
<1> SUFFICES ASSUME NEW s \in TabIds, ReloadInv, OpenSettles(s) PROVE ReloadInv'
  OBVIOUS
<1> USE DEF ReloadInv
<1>1. /\ hosted[s] = "opening" /\ \A q \in TabIds : hosted[q] = "opening" => q >= s
      /\ UNCHANGED <<pageState, minted, restoredDrafts, toHost, liveTurns, tombs, known, owed>>
  BY DEF OpenSettles
<1>2. s \in known => Awaits(s) /\ s \in TabIds
  BY <1>1 DEF KnownAreShown
<1>3. /\ \A q \in known : q \in TabIds /\ PageListens /\ strip[q].binding # "absent"
      /\ \A q \in known : OnItsWay(q)' => OnItsWay(q)
      /\ \A q \in known : OnItsWay(q) => hosted[q] = "none"
      /\ s \notin liveTurns /\ s \in minted
  <2>1. \A q \in known : q \in TabIds /\ PageListens /\ strip[q].binding # "absent"
    BY DEF KnownArePresent, ReloadTypes, PageListens
  <2>2. \A q \in known : (OnItsWay(q)' => OnItsWay(q)) /\ (OnItsWay(q) => hosted[q] = "none")
    BY <1>1 DEF OnItsWay, OpenAsked, PostsInOrder
  <2> QED BY <1>1, <2>1, <2>2 DEF NumbersMinted
<1>4. /\ \A i \in 1 .. Len(toHost) : OpenAsked(i) => toHost[i].of # s
      /\ \A i \in 1 .. Len(toHost) : OpenAsked(i) => toHost[i].of \in TabIds
      /\ \A q \in TabIds : OnItsWay(q) => q # BootstrapTab
  BY <1>1 DEF PostsInOrder, ReloadTypes, OnItsWay
<1>5. \A q \in known : q # s /\ (hosted[q] = "opening" \/ OnItsWay(q)) => strip[q].binding = "pending"
  <2> SUFFICES ASSUME NEW q \in known, q # s, hosted[q] = "opening" \/ OnItsWay(q)
               PROVE  q # BootstrapTab
    BY <1>3 DEF KnownAreShown, Awaits
  <2>1. CASE hosted[q] = "opening"
    <3>1. q \in TabIds /\ q >= s
      BY <1>1, <1>3, <2>1
    <3> QED BY <3>1, TabFacts DEF BootstrapTab, TabIds
  <2>2. CASE OnItsWay(q)
    BY <1>3, <1>4, <2>2
  <2> QED BY <2>1, <2>2
<1>6. /\ strip' \in [TabIds -> TabRecords]
      /\ \A t \in TabIds : strip'[t].draft = strip[t].draft /\ strip'[t].turn = strip[t].turn
      /\ \A t \in TabIds : t # s => strip'[t] = strip[t] /\ hosted'[t] = hosted[t]
      /\ strip[s].binding = "absent" => strip'[s] = strip[s]
      /\ hosted' \in [TabIds -> {"none", "opening", "live", "recovering", "replaying"}]
      /\ \/ hosted'[s] = "none" /\ strip'[s] = strip[s]
         \/ /\ hosted'[s] = "live"
            /\ IF PageListens /\ strip[s].binding # "absent"
               THEN strip'[s].binding = "bound" /\ strip'[s].sid = s
               ELSE strip'[s] = strip[s]
  <2>1. CASE hosted' = [hosted EXCEPT ![s] = "live"] /\ strip' = TabBinds(strip, s, s)
    BY <2>1, TabBindsIs DEF ReloadTypes
  <2>2. CASE hosted' = [hosted EXCEPT ![s] = "none"] /\ UNCHANGED strip
    BY <2>2 DEF ReloadTypes
  <2> QED BY <2>1, <2>2 DEF OpenSettles
<1>7. ReloadTypes'
  BY <1>1, <1>6 DEF ReloadTypes
<1>8. NumbersMinted'
  <2>1. \A t \in TabIds :
          /\ strip[t].binding = "absent" => strip'[t] = strip[t]
          /\ strip'[t] = strip[t] \/ (strip[t].binding # "absent" /\ strip'[t].sid = s /\ strip'[t].binding = "bound")
          /\ hosted'[t] # "none" => hosted[t] # "none"
    BY <1>1, <1>6
  <2>2. \A q \in liveTurns' : hosted'[q] = "live"
    BY <1>1, <1>3, <1>6 DEF NumbersMinted, ReloadTypes
  <2>3. s \in minted /\ s # NoSid
    BY <1>3, TabFacts
  <2> QED BY <1>1, <2>1, <2>2, <2>3 DEF NumbersMinted
<1>9. ShownElsewhere'
  <2>1. CASE strip'[s] = strip[s]
    <3>1. \A t \in TabIds : strip'[t] = strip[t]
      BY <1>6, <2>1
    <3> QED BY <3>1 DEF ShownElsewhere
  <2>2. CASE strip[s].binding # "absent" /\ strip'[s].sid = s /\ strip'[s].binding = "bound"
    <3>1. \A t \in TabIds : t # s => strip'[t] = strip[t] /\ strip[t].sid # s
      BY <1>6, <2>2 DEF ShownElsewhere
    <3> QED BY <2>2, <3>1 DEF ShownElsewhere
  <2> QED BY <1>6, <2>1, <2>2
<1>10. PostsInOrder'
  BY <1>1, <1>4, <1>6 DEF PostsInOrder, OpenAsked
<1>11. \A q \in known : q # s => strip'[q] = strip[q] /\ hosted'[q] = hosted[q]
  BY <1>3, <1>6
<1>12. KnownArePresent'
  <2>1. strip[s].binding # "absent" => strip'[s].binding # "absent"
    BY <1>6
  <2> QED BY <1>1, <1>11, <2>1 DEF KnownArePresent
<1>13. KnownAreShown'
  <2>1. \A q \in known : q # s /\ (hosted'[q] = "opening" \/ OnItsWay(q)') => Awaits(q)'
    <3> SUFFICES ASSUME NEW q \in known, q # s, hosted'[q] = "opening" \/ OnItsWay(q)' PROVE Awaits(q)'
      OBVIOUS
    <3>1. strip[q].binding = "pending" /\ Awaits(q) /\ strip'[q] = strip[q]
      BY <1>3, <1>5, <1>11 DEF KnownAreShown
    <3> QED BY <3>1 DEF Awaits
  <2>2. s \in known => ~ OnItsWay(s)' /\ hosted'[s] # "opening"
    BY <1>3, <1>1, <1>6
  <2>3. s \in known => strip[s].sid = NoSid /\ ~ strip[s].turn /\ strip[s].turn \in BOOLEAN
    BY <1>2 DEF Awaits, ReloadTypes, TabRecords
  <2>4. \A q \in known : q # s =>
           /\ hosted'[q] \in {"live", "replaying"} => strip'[q].binding = "bound" /\ strip'[q].sid = q
           /\ hosted'[q] = "live" => strip'[q].turn = (q \in liveTurns')
           /\ hosted'[q] = "none" => ~ (strip'[q].binding = "bound" /\ strip'[q].sid = q)
    BY <1>1, <1>11 DEF KnownAreShown
  <2>5. s \in known =>
           /\ hosted'[s] \in {"live", "replaying"} => strip'[s].binding = "bound" /\ strip'[s].sid = s
           /\ hosted'[s] = "none" => ~ (strip'[s].binding = "bound" /\ strip'[s].sid = s)
    BY <1>3, <1>6, <2>3, TabFacts, SMT
  <2>6. s \in known => strip'[s].turn = (s \in liveTurns')
    <3> SUFFICES ASSUME s \in known PROVE strip'[s].turn = (s \in liveTurns')
      OBVIOUS
    <3>1. strip'[s].turn = strip[s].turn /\ s \notin liveTurns'
      BY <1>1, <1>3, <1>6
    <3> QED BY <2>3, <3>1
  <2> QED BY <1>1, <2>1, <2>2, <2>4, <2>5, <2>6 DEF KnownAreShown
<1>14. TextIsKept'
  BY <1>1, <1>6 DEF TextIsKept, ReloadTypes
<1> QED BY <1>7, <1>8, <1>9, <1>10, <1>12, <1>13, <1>14

LEMMA RecoveryEndsKeeps == \A s \in TabIds : ReloadInv /\ RecoveryEnds(s) => ReloadInv'
<1> SUFFICES ASSUME NEW s \in TabIds, ReloadInv, RecoveryEnds(s) PROVE ReloadInv'
  OBVIOUS
<1> USE DEF ReloadInv
<1>1. /\ hosted[s] = "replaying"
      /\ UNCHANGED <<pageState, minted, restoredDrafts, toHost, liveTurns, tombs, known, owed>>
  BY DEF RecoveryEnds
<1> DEFINE ended == TurnsEnd(strip, {s})
<1>2. /\ ended \in [TabIds -> TabRecords]
      /\ \A t \in TabIds :
           /\ ended[t].binding = strip[t].binding /\ ended[t].sid = strip[t].sid
           /\ ended[t].draft = strip[t].draft
           /\ strip[t].sid # s => ended[t] = strip[t]
           /\ PageListens /\ strip[t].sid = s => ~ ended[t].turn
  BY TurnsEndIs DEF ReloadTypes
<1> HIDE DEF ended
<1>3. \/ hosted' = [hosted EXCEPT ![s] = "live"] /\ strip' = ended
      \/ hosted' = [hosted EXCEPT ![s] = "none"] /\ strip' = SessionLost(ended, s)
  BY DEF RecoveryEnds, ended
<1>4. /\ strip' \in [TabIds -> TabRecords]
      /\ \A t \in TabIds :
           /\ strip'[t].sid = strip[t].sid /\ strip'[t].draft = strip[t].draft
           /\ strip'[t].turn = ended[t].turn
           /\ t # s => strip'[t] = ended[t] /\ hosted'[t] = hosted[t]
           /\ strip[t].binding = "absent" => strip'[t] = ended[t]
      /\ hosted' \in [TabIds -> {"none", "opening", "live", "recovering", "replaying"}]
      /\ \/ hosted'[s] = "live" /\ strip'[s].binding = strip[s].binding
         \/ /\ hosted'[s] = "none" /\ strip'[s].binding \in {strip[s].binding, "unbound"}
            /\ PageListens /\ strip[s].binding # "absent" => strip'[s].binding = "unbound"
  <2>1. CASE hosted' = [hosted EXCEPT ![s] = "live"] /\ strip' = ended
    BY <1>2, <2>1 DEF ReloadTypes
  <2>2. CASE hosted' = [hosted EXCEPT ![s] = "none"] /\ strip' = SessionLost(ended, s)
    <3>1. hosted' \in [TabIds -> {"none", "opening", "live", "recovering", "replaying"}] /\ hosted'[s] = "none"
          /\ \A t \in TabIds : t # s => hosted'[t] = hosted[t]
      BY <2>2 DEF ReloadTypes
    <3>2. CASE PageListens /\ s \in Present
      <4>1. strip' = [ended EXCEPT ![s].binding = "unbound"] /\ ended[s] \in TabRecords
        BY <1>2, <2>2, <3>2 DEF SessionLost
      <4> QED BY <1>2, <3>1, <3>2, <4>1 DEF TabRecords, Present
    <3>3. CASE ~ (PageListens /\ s \in Present)
      <4>1. strip' = ended
        BY <2>2, <3>3 DEF SessionLost
      <4> QED BY <1>2, <3>1, <3>3, <4>1 DEF Present
    <3> QED BY <3>2, <3>3
  <2> QED BY <1>3, <2>1, <2>2
<1>5. \A t \in TabIds : /\ strip[t].binding = "absent" => strip'[t] = strip[t]
                        /\ (strip'[t].binding = "absent") = (strip[t].binding = "absent")
                        /\ strip'[t].binding = "bound" => strip[t].binding = "bound"
                        /\ strip[t].sid # s /\ t # s => strip'[t] = strip[t]
  <2>1. \A t \in TabIds : strip[t].binding = "absent" => strip[t].sid # s
    BY TabFacts DEF NumbersMinted
  <2> QED BY <1>2, <1>4, <2>1
<1>6. ReloadTypes'
  BY <1>1, <1>4 DEF ReloadTypes
<1>7. NumbersMinted'
  <2>1. \A q \in liveTurns' : hosted'[q] = "live"
    BY <1>1, <1>4 DEF NumbersMinted, ReloadTypes
  <2>2. \A t \in TabIds : hosted'[t] # "none" => t \in minted
    BY <1>1, <1>4 DEF NumbersMinted
  <2>3. \A t \in TabIds :
          /\ strip'[t].binding = "absent" => strip'[t] = strip[t] /\ strip[t].binding = "absent"
          /\ strip'[t].binding # "absent" => strip[t].binding # "absent"
          /\ strip'[t].sid = strip[t].sid
          /\ strip'[t].binding = "bound" => strip[t].binding = "bound"
    BY <1>4, <1>5
  <2> QED BY <1>1, <2>1, <2>2, <2>3 DEF NumbersMinted
<1>8. ShownElsewhere'
  BY <1>4, <1>5 DEF ShownElsewhere
<1>9. PostsInOrder'
  <2>1. \A i \in 1 .. Len(toHost) : OpenAsked(i) => toHost[i].of \in TabIds /\ toHost[i].of # s
    BY <1>1 DEF PostsInOrder, ReloadTypes
  <2> QED BY <1>1, <1>4, <2>1 DEF PostsInOrder, OpenAsked
<1>10. \A q \in known : q \in TabIds /\ PageListens /\ strip[q].binding # "absent"
  BY DEF KnownArePresent, ReloadTypes, PageListens
<1>11. KnownArePresent'
  BY <1>1, <1>5, <1>10 DEF KnownArePresent
<1>12. KnownAreShown'
  <2>1. \A q \in known : q # s => hosted'[q] = hosted[q]
    BY <1>4, <1>10
  <2>2. \A q \in known : q # s /\ strip[q].sid # s => strip'[q] = strip[q]
    BY <1>5, <1>10
  <2>3. \A q \in known : Awaits(q) /\ q # s => Awaits(q)'
    <3> SUFFICES ASSUME NEW q \in known, Awaits(q), q # s PROVE Awaits(q)'
      OBVIOUS
    <3>1. strip[q].sid # s /\ strip'[q] = strip[q]
      BY <2>2, TabFacts DEF Awaits
    <3>2. strip[q].binding = "pending"
      BY <1>1 DEF Awaits
    <3> QED BY <3>1, <3>2 DEF Awaits
  <2>4. \A q \in known : q # s =>
           /\ hosted'[q] = "opening" \/ OnItsWay(q)' => Awaits(q)'
           /\ hosted'[q] \in {"live", "replaying"} => strip'[q].binding = "bound" /\ strip'[q].sid = q
           /\ hosted'[q] = "live" => strip'[q].turn = (q \in liveTurns')
           /\ hosted'[q] = "none" => ~ (strip'[q].binding = "bound" /\ strip'[q].sid = q)
    <3> SUFFICES ASSUME NEW q \in known, q # s
                 PROVE  /\ hosted'[q] = "opening" \/ OnItsWay(q)' => Awaits(q)'
                        /\ hosted'[q] \in {"live", "replaying"} => strip'[q].binding = "bound" /\ strip'[q].sid = q
                        /\ hosted'[q] = "live" => strip'[q].turn = (q \in liveTurns')
                        /\ hosted'[q] = "none" => ~ (strip'[q].binding = "bound" /\ strip'[q].sid = q)
      OBVIOUS
    <3>1. hosted'[q] = hosted[q] /\ (OnItsWay(q)' => OnItsWay(q))
      BY <1>1, <2>1 DEF OnItsWay, OpenAsked
    <3>2. hosted[q] = "live" => strip'[q] = strip[q]
      BY <2>2 DEF KnownAreShown
    <3>3. strip'[q].sid = strip[q].sid /\ (strip'[q].binding = "bound" => strip[q].binding = "bound")
      BY <1>4, <1>5, <1>10
    <3>4. strip[q].binding = "bound" /\ strip[q].sid = q => strip'[q] = strip[q]
      BY <2>2
    <3> QED BY <1>1, <2>3, <3>1, <3>2, <3>3, <3>4 DEF KnownAreShown
  <2>5. s \in known => strip[s].binding = "bound" /\ strip[s].sid = s /\ s \notin liveTurns /\ ~ OnItsWay(s)'
    BY <1>1 DEF KnownAreShown, NumbersMinted, OnItsWay, OpenAsked, PostsInOrder
  <2>6. s \in known => strip'[s].turn = FALSE
    <3> SUFFICES ASSUME s \in known PROVE strip'[s].turn = FALSE
      OBVIOUS
    <3>1. ~ strip'[s].turn /\ strip'[s].turn \in BOOLEAN
      BY <1>2, <1>4, <1>10, <2>5 DEF TabRecords
    <3> QED BY <3>1
  <2>7. s \in known =>
           /\ hosted'[s] # "opening"
           /\ hosted'[s] \in {"live", "replaying"} => strip'[s].binding = "bound" /\ strip'[s].sid = s
           /\ hosted'[s] = "none" => ~ (strip'[s].binding = "bound" /\ strip'[s].sid = s)
    BY <1>1, <1>4, <1>10, <2>5
  <2>8. s \in known => strip'[s].turn = (s \in liveTurns')
    <3>1. s \in known => (s \in liveTurns') = FALSE
      BY <1>1, <2>5
    <3> QED BY <2>6, <3>1
  <2> QED BY <1>1, <2>4, <2>5, <2>7, <2>8 DEF KnownAreShown
<1>13. TextIsKept'
  BY <1>1, <1>4 DEF TextIsKept, ReloadTypes
<1> QED BY <1>6, <1>7, <1>8, <1>9, <1>11, <1>12, <1>13

\* Where the turn of a session that comes back is shown: on its own tab, on the tab
\* that has shown it, or on one that has no session.
LEMMA TurnStartsOn ==
  ASSUME ReloadInv, NEW s \in TabIds, s \in minted, PageListens, TurnStarts(TabBinds(strip, s, s), s)
  PROVE  \E u \in TabIds :
           /\ strip' \in [TabIds -> TabRecords] /\ minted' = minted \cup {u}
           /\ \A t \in TabIds : t # u => strip'[t] = strip[t]
           /\ strip'[u].binding = "bound" /\ strip'[u].sid = s /\ strip'[u].draft = strip[u].draft
           /\ \/ u = s /\ strip[s].binding # "absent"
              \/ /\ u # s /\ strip[s].binding = "absent"
                 /\ \/ strip[u].sid = s
                    \/ /\ strip[u].sid = NoSid /\ \A t \in TabIds : strip[t].sid # s
                       /\ strip[u].binding = "unbound" \/ u \notin minted
<1> USE DEF ReloadInv
<1> DEFINE tabs == TabBinds(strip, s, s)
           owners == {t \in TabIds : tabs[t].binding # "absent" /\ tabs[t].sid = s}
           Adopt(t) == /\ strip' = [tabs EXCEPT ![t] = [@ EXCEPT !.binding = "bound", !.sid = s,
                                                            !.turn = TRUE]]
                       /\ minted' = minted \cup {t}
<1>1. IF owners # {} THEN \E t \in owners : Adopt(t)
      ELSE \E t \in {u \in Present : tabs[u].binding = "unbound" /\ tabs[u].sid = NoSid}
                     \cup (TabIds \ minted) : Adopt(t)
  BY DEF TurnStarts
<1>2. /\ tabs \in [TabIds -> TabRecords]
      /\ \A t \in TabIds : tabs[t].draft = strip[t].draft
      /\ \A t \in TabIds : t # s => tabs[t] = strip[t]
      /\ strip[s].binding # "absent" => tabs[s].binding = "bound" /\ tabs[s].sid = s
      /\ strip[s].binding = "absent" => tabs = strip
  BY TabBindsIs DEF ReloadTypes
<1>3. ASSUME NEW u \in TabIds, Adopt(u)
      PROVE  /\ strip' \in [TabIds -> TabRecords] /\ minted' = minted \cup {u}
             /\ \A t \in TabIds : t # u => strip'[t] = tabs[t]
             /\ strip'[u].binding = "bound" /\ strip'[u].sid = s /\ strip'[u].draft = strip[u].draft
  <2> DEFINE r == [tabs[u] EXCEPT !.binding = "bound", !.sid = s, !.turn = TRUE]
  <2>1. r \in TabRecords /\ r.binding = "bound" /\ r.sid = s /\ r.draft = strip[u].draft
    BY <1>2 DEF TabRecords
  <2>2. strip' = [tabs EXCEPT ![u] = r]
    BY <1>3
  <2> HIDE DEF r, tabs
  <2> QED BY <1>2, <1>3, <2>1, <2>2
<1>4. \A t \in TabIds : strip[t].binding = "absent" => strip[t].sid = NoSid
  BY TabFacts DEF NumbersMinted
<1>5. CASE owners # {}
  <2>1. PICK u \in owners : Adopt(u)
    BY <1>1, <1>5
  <2>2. u \in TabIds /\ tabs[u].sid = s
    OBVIOUS
  <2> HIDE DEF tabs, owners, Adopt
  <2>3. /\ strip' \in [TabIds -> TabRecords] /\ minted' = minted \cup {u}
        /\ \A t \in TabIds : t # u => strip'[t] = tabs[t]
        /\ strip'[u].binding = "bound" /\ strip'[u].sid = s /\ strip'[u].draft = strip[u].draft
    BY <1>3, <2>1, <2>2
  <2>4. CASE strip[s].binding # "absent"
    <3>1. u = s
      BY <1>2, <2>2, <2>4 DEF ShownElsewhere
    <3> QED BY <1>2, <2>2, <2>3, <2>4, <3>1
  <2>5. CASE strip[s].binding = "absent"
    <3>1. u # s /\ strip[u].sid = s
      BY <1>2, <1>4, <2>2, <2>5, TabFacts
    <3> QED BY <1>2, <2>2, <2>3, <2>5, <3>1
  <2> QED BY <2>4, <2>5
<1>6. CASE owners = {}
  <2>1. PICK u \in {v \in Present : tabs[v].binding = "unbound" /\ tabs[v].sid = NoSid}
                     \cup (TabIds \ minted) : Adopt(u)
    BY <1>1, <1>6
  <2>2. u \in TabIds /\ (u \notin minted \/ (tabs[u].binding = "unbound" /\ tabs[u].sid = NoSid))
    BY DEF Present
  <2>3. strip[s].binding = "absent"
    <3> SUFFICES ASSUME strip[s].binding # "absent" PROVE FALSE
      OBVIOUS
    <3>1. s \in owners
      BY <1>2
    <3> QED BY <1>6, <3>1
  <2>4. tabs = strip
    BY <1>2, <2>3
  <2>5. \A t \in TabIds : strip[t].sid # s
    BY <1>4, <1>6, <2>4, TabFacts
  <2> HIDE DEF tabs, owners, Adopt
  <2>6. /\ strip' \in [TabIds -> TabRecords] /\ minted' = minted \cup {u}
        /\ \A t \in TabIds : t # u => strip'[t] = tabs[t]
        /\ strip'[u].binding = "bound" /\ strip'[u].sid = s /\ strip'[u].draft = strip[u].draft
    BY <1>3, <2>1, <2>2
  <2>7. strip[u].sid = NoSid /\ (strip[u].binding = "unbound" \/ u \notin minted)
    BY <1>4, <2>2, <2>4 DEF NumbersMinted
  <2>8. u # s
    BY <2>3, <2>7
  <2> QED BY <2>2, <2>3, <2>4, <2>5, <2>6, <2>7, <2>8
<1> QED BY <1>5, <1>6

LEMMA RecoveryBeginsKeeps == \A s \in TabIds : ReloadInv /\ RecoveryBegins(s) => ReloadInv'
<1> SUFFICES ASSUME NEW s \in TabIds, ReloadInv, RecoveryBegins(s) PROVE ReloadInv'
  OBVIOUS
<1> USE DEF ReloadInv
<1>1. /\ hosted[s] = "recovering" /\ hosted' = [hosted EXCEPT ![s] = "replaying"]
      /\ TurnStarts(TabBinds(strip, s, s), s)
      /\ UNCHANGED <<pageState, restoredDrafts, toHost, liveTurns, tombs, known, owed>>
  BY DEF RecoveryBegins
<1>2. /\ hosted' \in [TabIds -> {"none", "opening", "live", "recovering", "replaying"}]
      /\ hosted'[s] = "replaying" /\ \A t \in TabIds : t # s => hosted'[t] = hosted[t]
      /\ s \in minted /\ s \notin liveTurns
  BY <1>1 DEF ReloadTypes, NumbersMinted
<1>3. /\ \A i \in 1 .. Len(toHost) : OpenAsked(i) => toHost[i].of \in TabIds /\ toHost[i].of # s
      /\ \A q \in TabIds : OnItsWay(q)' => OnItsWay(q)
      /\ ~ OnItsWay(s)
  BY <1>1 DEF PostsInOrder, ReloadTypes, OnItsWay, OpenAsked
<1>4. minted \subseteq minted' => PostsInOrder'
  BY <1>1, <1>2, <1>3 DEF PostsInOrder, OpenAsked
<1>5. CASE ~ PageListens
  <2>1. strip' = strip /\ minted' = minted
    BY <1>1, <1>5, TabBindsIs DEF TurnStarts, ReloadTypes
  <2>2. known = {}
    BY <1>5 DEF KnownArePresent, PageListens
  <2>3. ReloadTypes'
    BY <1>1, <1>2, <2>1 DEF ReloadTypes
  <2>4. NumbersMinted'
    <3>1. \A q \in liveTurns : hosted'[q] = "live"
      BY <1>2 DEF NumbersMinted, ReloadTypes
    <3>2. \A t \in TabIds : hosted'[t] # "none" => t \in minted
      BY <1>2 DEF NumbersMinted
    <3> QED BY <1>1, <2>1, <3>1, <3>2 DEF NumbersMinted
  <2>5. ShownElsewhere' /\ TextIsKept'
    BY <1>1, <2>1 DEF ShownElsewhere, TextIsKept
  <2>6. KnownArePresent' /\ KnownAreShown'
    BY <1>1, <2>2 DEF KnownArePresent, KnownAreShown
  <2> QED BY <1>4, <2>1, <2>3, <2>4, <2>5, <2>6
<1>6. CASE PageListens
  <2>1. PICK u \in TabIds :
           /\ strip' \in [TabIds -> TabRecords] /\ minted' = minted \cup {u}
           /\ \A t \in TabIds : t # u => strip'[t] = strip[t]
           /\ strip'[u].binding = "bound" /\ strip'[u].sid = s /\ strip'[u].draft = strip[u].draft
           /\ \/ u = s /\ strip[s].binding # "absent"
              \/ /\ u # s /\ strip[s].binding = "absent"
                 /\ \/ strip[u].sid = s
                    \/ /\ strip[u].sid = NoSid /\ \A t \in TabIds : strip[t].sid # s
                       /\ strip[u].binding = "unbound" \/ u \notin minted
    BY <1>1, <1>2, <1>6, TurnStartsOn
  <2>2. s # NoSid
    BY TabFacts
  <2>3. ReloadTypes'
    BY <1>1, <1>2, <2>1 DEF ReloadTypes
  <2>4. NumbersMinted'
    <3>1. \A q \in liveTurns : hosted'[q] = "live"
      BY <1>2 DEF NumbersMinted, ReloadTypes
    <3>2. \A t \in TabIds : hosted'[t] # "none" => t \in minted
      BY <1>2 DEF NumbersMinted
    <3> QED BY <1>1, <1>2, <2>1, <2>2, <3>1, <3>2 DEF NumbersMinted
  <2>5. ShownElsewhere'
    <3>1. \A t \in TabIds : t # u => strip[t].sid # s
      BY <2>1, <2>2 DEF ShownElsewhere
    <3>2. strip[u].binding = "absent" => \A t \in TabIds : strip[t].sid # u
      <4> SUFFICES ASSUME strip[u].binding = "absent", NEW t \in TabIds, strip[t].sid = u PROVE FALSE
        OBVIOUS
      <4>1. u \in minted
        BY TabFacts DEF NumbersMinted
      <4>2. u # s /\ strip[u].sid = NoSid
        BY <2>1, TabFacts DEF NumbersMinted
      <4> QED BY <2>1, <2>2, <4>1, <4>2
    <3>3. ASSUME NEW t \in TabIds, NEW q \in TabIds, strip'[t].sid = q, t # q PROVE strip'[q].binding = "absent"
      <4>1. CASE t = u
        BY <2>1, <3>3, <4>1
      <4>2. CASE t # u
        <5>1. strip[t].sid = q /\ strip[q].binding = "absent"
          BY <2>1, <3>3, <4>2 DEF ShownElsewhere
        <5>2. q # u
          BY <3>2, <5>1
        <5> QED BY <2>1, <5>1, <5>2
      <4> QED BY <4>1, <4>2
    <3>4. ASSUME NEW t \in TabIds, NEW q \in TabIds, strip'[t].sid = strip'[q].sid, strip'[t].sid # NoSid
          PROVE t = q
      BY <2>1, <3>1, <3>4 DEF ShownElsewhere
    <3> QED BY <3>3, <3>4 DEF ShownElsewhere
  <2>6. \A q \in known : q \in TabIds /\ strip[q].binding # "absent" /\ pageState = "hydrated" /\ q \notin tombs
    BY DEF KnownArePresent, ReloadTypes
  <2>7. KnownArePresent'
    BY <1>1, <2>1, <2>6 DEF KnownArePresent
  <2>8. \A q \in known : Awaits(q) /\ q # s =>
           strip[q].binding = "pending" /\ strip[q].sid = NoSid /\ ~ strip[q].turn
    BY <1>1 DEF Awaits
  <2>9. ASSUME NEW q \in known, q # s
        PROVE  /\ hosted'[q] = "opening" \/ OnItsWay(q)' => Awaits(q)'
               /\ hosted'[q] \in {"live", "replaying"} => strip'[q].binding = "bound" /\ strip'[q].sid = q
               /\ hosted'[q] = "live" => strip'[q].turn = (q \in liveTurns')
               /\ hosted'[q] = "none" => ~ (strip'[q].binding = "bound" /\ strip'[q].sid = q)
    <3>1. hosted'[q] = hosted[q] /\ (OnItsWay(q)' => OnItsWay(q)) /\ q \in TabIds
      BY <1>2, <1>3, <2>6, <2>9
    <3>2. CASE q = u
      <4>1. strip[q].sid = s \/ (strip[q].sid = NoSid /\ strip[q].binding = "unbound")
        BY <2>1, <2>6, <2>9, <3>1, <3>2 DEF NumbersMinted
      <4>2. strip[q].sid # q /\ ~ Awaits(q)
        BY <2>2, <2>8, <2>9, <3>1, <4>1, TabFacts
      <4> QED BY <2>1, <2>9, <3>1, <3>2, <4>1, <4>2 DEF KnownAreShown
    <3>3. CASE q # u
      <4>1. strip'[q] = strip[q]
        BY <2>1, <3>1, <3>3
      <4>2. Awaits(q) => Awaits(q)'
        BY <2>8, <2>9, <4>1 DEF Awaits
      <4> QED BY <1>1, <3>1, <4>1, <4>2 DEF KnownAreShown
    <3> QED BY <3>2, <3>3
  <2>10. s \in known => strip'[s].binding = "bound" /\ strip'[s].sid = s /\ ~ OnItsWay(s)'
    BY <1>3, <2>1, <2>6
  <2>11. KnownAreShown'
    BY <1>1, <1>2, <2>9, <2>10 DEF KnownAreShown
  <2>12. TextIsKept'
    <3>1. \A t \in TabIds : strip'[t].draft = strip[t].draft
      BY <2>1
    <3> QED BY <1>1, <3>1 DEF TextIsKept, ReloadTypes
  <2> QED BY <1>4, <2>1, <2>3, <2>4, <2>5, <2>7, <2>11, <2>12
<1> QED BY <1>5, <1>6

\* The death of the agent ends the turns and takes the replayed session from its tab.
LEMMA AgentDiesKeeps == ReloadInv /\ AgentDies => ReloadInv'
<1> SUFFICES ASSUME ReloadInv, AgentDies PROVE ReloadInv'
  OBVIOUS
<1> USE DEF ReloadInv
<1> DEFINE replayed == {s \in TabIds : hosted[s] = "replaying"}
           ended == TurnsEnd(strip, liveTurns \cup replayed)
<1>1. /\ strip' = [t \in TabIds |-> IF t \in replayed THEN SessionLost(ended, t)[t] ELSE ended[t]]
      /\ liveTurns' = {}
      /\ hosted' = [s \in TabIds |->
           IF hosted[s] \notin {"live", "replaying"} THEN hosted[s]
           ELSE IF s \in tombs THEN "none" ELSE "recovering"]
      /\ UNCHANGED <<pageState, minted, restoredDrafts, toHost, tombs, known, owed>>
  BY DEF AgentDies
<1>2. /\ ended \in [TabIds -> TabRecords]
      /\ \A t \in TabIds :
           /\ ended[t].binding = strip[t].binding /\ ended[t].sid = strip[t].sid
           /\ ended[t].draft = strip[t].draft
           /\ strip[t].sid \notin liveTurns \cup replayed => ended[t] = strip[t]
  BY TurnsEndIs DEF ReloadTypes
<1> HIDE DEF ended
<1>3. ASSUME NEW t \in TabIds
      PROVE  /\ strip'[t] \in TabRecords
             /\ strip'[t].sid = strip[t].sid /\ strip'[t].draft = strip[t].draft
             /\ strip'[t].turn = ended[t].turn
             /\ strip'[t].binding \in {strip[t].binding, "unbound"}
             /\ t \notin replayed \/ strip[t].binding = "absent" => strip'[t] = ended[t]
  <2>1. CASE t \in replayed /\ PageListens /\ t \in Present
    <3> DEFINE r == [ended[t] EXCEPT !.binding = "unbound"]
    <3>1. /\ r \in TabRecords /\ r.sid = ended[t].sid /\ r.draft = ended[t].draft
          /\ r.turn = ended[t].turn /\ r.binding = "unbound"
      BY <1>2 DEF TabRecords
    <3>2. SessionLost(ended, t) = [ended EXCEPT ![t] = r]
      BY <2>1 DEF SessionLost
    <3>3. strip'[t] = r
      BY <1>1, <1>2, <2>1, <3>2
    <3> HIDE DEF r
    <3> QED BY <1>2, <2>1, <3>1, <3>3 DEF Present
  <2>2. CASE ~ (t \in replayed /\ PageListens /\ t \in Present)
    <3>1. strip'[t] = ended[t]
      BY <1>1, <2>2 DEF SessionLost
    <3> QED BY <1>2, <3>1
  <2> QED BY <2>1, <2>2
<1>4. /\ strip' \in [TabIds -> TabRecords]
      /\ hosted' \in [TabIds -> {"none", "opening", "live", "recovering", "replaying"}]
  BY <1>1, <1>3 DEF ReloadTypes
<1>5. \A s \in TabIds :
        /\ hosted[s] \in {"none", "opening", "recovering"} => hosted'[s] = hosted[s]
        /\ hosted'[s] \in {"none", "opening", "recovering"}
        /\ hosted'[s] = "opening" => hosted[s] = "opening"
        /\ hosted'[s] = "none" => hosted[s] = "none" \/ s \in tombs
        /\ hosted'[s] # "none" => hosted[s] # "none"
  BY <1>1 DEF ReloadTypes
<1>6. \A s \in liveTurns \cup replayed : s \in TabIds /\ hosted[s] \in {"live", "replaying"}
  BY DEF ReloadTypes, NumbersMinted
<1>7. \A t \in TabIds : strip[t].sid = NoSid => ended[t] = strip[t]
  BY <1>2, <1>6, TabFacts
<1>8. \A t \in TabIds : /\ strip[t].binding = "absent" => strip'[t] = strip[t]
                        /\ strip'[t].binding = "absent" => strip[t].binding = "absent"
                        /\ strip'[t].binding = "bound" => strip[t].binding = "bound"
  <2>1. \A t \in TabIds : strip[t].binding = "absent" => strip[t].sid = NoSid
    BY TabFacts DEF NumbersMinted
  <2> QED BY <1>3, <1>7, <2>1
<1>9. ReloadTypes'
  BY <1>1, <1>4 DEF ReloadTypes
<1>10. NumbersMinted'
  <2>1. \A t \in TabIds : hosted'[t] # "none" => t \in minted
    BY <1>5 DEF NumbersMinted
  <2>2. \A t \in TabIds : strip'[t].sid = strip[t].sid
    BY <1>3
  <2> QED BY <1>1, <1>8, <2>1, <2>2 DEF NumbersMinted
<1>11. ShownElsewhere'
  <2>1. \A t \in TabIds : strip'[t].sid = strip[t].sid
    BY <1>3
  <2> QED BY <1>8, <2>1 DEF ShownElsewhere
<1>12. PostsInOrder'
  <2>1. \A i \in 1 .. Len(toHost) : OpenAsked(i) => toHost[i].of \in TabIds
    BY DEF PostsInOrder, ReloadTypes, Posts, OpenAsked
  <2> QED BY <1>1, <1>5, <2>1 DEF PostsInOrder, OpenAsked
<1>13. \A q \in known : q \in TabIds /\ strip[q].binding # "absent" /\ q \notin tombs
  BY DEF KnownArePresent, ReloadTypes
<1>14. KnownArePresent'
  BY <1>1, <1>8, <1>13 DEF KnownArePresent
<1>15. KnownAreShown'
  <2> SUFFICES ASSUME NEW q \in known
               PROVE  /\ hosted'[q] = "opening" \/ OnItsWay(q)' => Awaits(q)'
                      /\ hosted'[q] = "none" => ~ (strip'[q].binding = "bound" /\ strip'[q].sid = q)
    BY <1>1, <1>5, <1>13 DEF KnownAreShown
  <2>1. hosted'[q] = "none" => ~ (strip'[q].binding = "bound" /\ strip'[q].sid = q)
    BY <1>3, <1>5, <1>8, <1>13 DEF KnownAreShown
  <2>2. ASSUME hosted'[q] = "opening" \/ OnItsWay(q)' PROVE Awaits(q)'
    <3>1. hosted[q] = "opening" \/ OnItsWay(q)
      BY <1>1, <1>5, <1>13, <2>2 DEF OnItsWay, OpenAsked
    <3>2. Awaits(q) /\ strip[q].sid = NoSid
      BY <3>1 DEF KnownAreShown, Awaits
    <3>3. q \notin replayed
      <4>1. OnItsWay(q) => hosted[q] = "none"
        BY DEF OnItsWay, PostsInOrder
      <4> QED BY <3>1, <4>1
    <3>4. strip'[q] = strip[q]
      BY <1>3, <1>7, <1>13, <3>2, <3>3
    <3>5. \A t \in TabIds : hosted[t] \in {"none", "opening"} => hosted'[t] \in {"none", "opening"}
      BY <1>5
    <3> QED BY <3>2, <3>4, <3>5 DEF Awaits
  <2> QED BY <2>1, <2>2
<1>16. TextIsKept'
  <2>1. \A t \in TabIds : strip'[t].draft = strip[t].draft
    BY <1>3
  <2> QED BY <1>1, <2>1 DEF TextIsKept, ReloadTypes
<1> QED BY <1>9, <1>10, <1>11, <1>12, <1>14, <1>15, <1>16

LEMMA ReloadStep == ReloadInv /\ [ViewReloadNext]_viewReloadVars => ReloadInv'
<1> SUFFICES ASSUME ReloadInv, [ViewReloadNext]_viewReloadVars PROVE ReloadInv'
  OBVIOUS
<1>1. CASE OpenTab \/ CloseTab \/ TypeDraft \/ SendDraft \/ LosePage \/ PageMounts \/ AgentDies
  BY <1>1, OpenTabKeeps, CloseTabKeeps, TypeDraftKeeps, SendDraftKeeps, LosePageKeeps,
     PageMountsKeeps, AgentDiesKeeps
<1>2. CASE HandleMessage
  BY <1>2, HandleReadyKeeps, HandleOpenKeeps, HandleCloseKeeps, HandlePromptKeeps
  DEF HandleMessage, HandleHead
<1>3. ASSUME NEW s \in TabIds,
             OpenSettles(s) \/ TurnFinishes(s) \/ CloseRuns(s) \/ RecoveryBegins(s) \/ RecoveryEnds(s)
      PROVE  ReloadInv'
  BY <1>3, OpenSettlesKeeps, TurnFinishesKeeps, CloseRunsKeeps, RecoveryBeginsKeeps, RecoveryEndsKeeps
<1>4. CASE UNCHANGED viewReloadVars
  BY <1>4 DEF viewReloadVars, reloadPageVars, reloadHostVars, ReloadInv, ReloadTypes, NumbersMinted,
              ShownElsewhere, PostsInOrder, OpenAsked, KnownArePresent, KnownAreShown, Awaits, OnItsWay,
              TextIsKept
<1> QED BY <1>1, <1>2, <1>3, <1>4 DEF ViewReloadNext

-------------------------------------------------------------------------------
\* What the model picker shows is so: when no pick is under way the tab shows what
\* the controller believes, and the controller believes what the agent uses, unless
\* the agent took last a pick whose answer a newer one had overtaken
\* (SessionController.ts:186-195, 847-862).
THEOREM ModelAlwaysTrue == Spec => []ModelIsTrue
<1>1. Init => ModelInv
  BY ModelStarts DEF Init
<1>2. ModelInv /\ [Next]_vars => ModelInv'
  <2> SUFFICES ASSUME ModelInv, [Next]_vars PROVE ModelInv'
    OBVIOUS
  <2>1. [ModelNext]_modelVars
    BY ModelSteps DEF vars
  <2> QED BY <2>1, ModelStep
<1> QED BY <1>1, <1>2, ModelIsHonest, PTL DEF Spec

\* The panel and its switch, at every moment: a panel spins only for an answer that
\* comes, the switch shows what is saved or the page says that it does not, and the
\* newest wish of the user is shown until it is answered (remoteData.ts:4-6,
\* useToggle.ts:5-56).
THEOREM PanelAlwaysHonest == Spec => [](NoDeadSpinner /\ SwitchIsHonest /\ WishIsShown)
<1>1. Init => PanelInv
  BY PanelStarts DEF Init
<1>2. PanelInv /\ [Next]_vars => PanelInv'
  <2> SUFFICES ASSUME PanelInv, [Next]_vars PROVE PanelInv'
    OBVIOUS
  <2>1. [PanelSyncNext]_panelSyncVars
    BY PanelSyncSteps DEF vars
  <2> QED BY <2>1, PanelStep
<1> QED BY <1>1, <1>2, PanelIsFaithful, PTL DEF Spec

\* The page that comes back is true, whatever it missed: no session is shown by two
\* tabs (tabs.ts:11-21); when nothing is under way each session the page was told of
\* is in its tab with its turn, or its tab takes no prompts (hydrateFold.ts:5-24);
\* and text that was not admitted is on its tab again (hydrateFold.ts:94-99).
THEOREM PageComesBack == Spec => [](OneTabShows /\ PageShowsItsSessions /\ DraftsReturn)
<1>1. Init => ReloadInv
  BY ReloadStarts DEF Init
<1>2. ReloadInv /\ [Next]_vars => ReloadInv'
  <2> SUFFICES ASSUME ReloadInv, [Next]_vars PROVE ReloadInv'
    OBVIOUS
  <2>1. [ViewReloadNext]_viewReloadVars
    BY ViewReloadSteps DEF vars
  <2> QED BY <2>1, ReloadStep
<1> QED BY <1>1, <1>2, ReloadIsTrue, PTL DEF Spec
=============================================================================

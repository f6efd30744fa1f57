--------------------------- MODULE Transcript_proofs ---------------------------
(***************************************************************************)
(* What a tab shows of its session is true, for any number of events,      *)
(* tools, hunks and items.                                                 *)
(*                                                                         *)
(* What the host holds of the session is an account of eight fields, and   *)
(* Shows(items, account) says that the transcript fits it: its items are   *)
(* well formed (TranscriptItems), the blocks of the newest turn cut the    *)
(* text that was streamed into consecutive segments (BlocksShow), and each *)
(* card, tool and block agrees with the account (ItemOk).  Legal(m, c, d)  *)
(* says which posts the host may make with an account c, and that it holds *)
(* d afterwards; every legal post keeps Shows (LegalKeeps), and so does    *)
(* every sequence of them (Reach, ReachKeeps), whatever capTranscript      *)
(* drops in between.  The invariant TranscriptInv is Shows of the account  *)
(* of the current state, with the types of the host's variables; an action *)
(* keeps it because its posts lead from one account to the next.           *)
(***************************************************************************)
EXTENDS Transcript, SequenceTheorems, FiniteSetTheorems, WellFoundedInduction, TLAPS

-----------------------------------------------------------------------------
\* Induction and recursion over numbers, with sets in the place of predicates.

LEMMA LeastNumber == ASSUME NEW T, T \subseteq Nat, T # {} PROVE \E n \in T : \A m \in T : n <= m
<1>1. IsWellFoundedOn(OpToRel(<, Nat), Nat)
  BY NatLessThanWellFounded
<1>2. PICK n \in T : \A m \in T : ~ (<<m, n>> \in OpToRel(<, Nat))
  BY <1>1, WFMin
<1>3. \A m \in T : ~ (m < n)
  BY <1>2 DEF OpToRel
<1> QED BY <1>3

LEMMA SetInduction ==
  ASSUME NEW S, 0 \in S, \A n \in Nat : n \in S => n + 1 \in S
  PROVE  Nat \subseteq S
<1> DEFINE T == Nat \ S
<1> SUFFICES ASSUME T # {} PROVE FALSE
  OBVIOUS
<1>1. PICK n \in T : \A m \in T : n <= m
  BY LeastNumber
<1>2. n # 0 /\ n - 1 \in Nat /\ n - 1 \notin T
  BY <1>1
<1> QED BY <1>2

\* The values of a recursion up to N, whose step at n is the function G[n].
Inside(G, N, X) == \A n \in 1 .. N, x \in X : G[n][x] \in X
HasRun(G, N, X, x0) ==
  \E f \in [0 .. N -> X] : f[0] = x0 /\ \A n \in 1 .. N : f[n] = G[n][f[n - 1]]

LEMMA Recursion ==
  ASSUME NEW X, NEW x0 \in X, NEW N \in Nat, NEW G, Inside(G, N, X)
  PROVE  HasRun(G, N, X, x0)
<1> DEFINE Good(f, n) == f[0] = x0 /\ \A k \in 1 .. n : f[k] = G[k][f[k - 1]]
           S == {n \in Nat : n <= N => \E f \in [0 .. n -> X] : Good(f, n)}
<1>1. 0 \in S
  <2>1. Good([k \in 0 .. 0 |-> x0], 0) /\ [k \in 0 .. 0 |-> x0] \in [0 .. 0 -> X]
    OBVIOUS
  <2> QED BY <2>1
<1>2. ASSUME NEW n \in Nat, n \in S PROVE n + 1 \in S
  <2> SUFFICES ASSUME n + 1 <= N PROVE \E f \in [0 .. n + 1 -> X] : Good(f, n + 1)
    OBVIOUS
  <2>1. PICK f \in [0 .. n -> X] : Good(f, n)
    BY <1>2
  <2> DEFINE g == [k \in 0 .. n + 1 |-> IF k = n + 1 THEN G[n + 1][f[n]] ELSE f[k]]
  <2>2. G[n + 1][f[n]] \in X
    <3>1. n + 1 \in 1 .. N /\ f[n] \in X
      OBVIOUS
    <3> QED BY <3>1 DEF Inside
  <2>3. g \in [0 .. n + 1 -> X] /\ g[n + 1] = G[n + 1][f[n]] /\ \A k \in 0 .. n : g[k] = f[k]
    BY <2>2
  <2>4. \A k \in 1 .. n + 1 : k = n + 1 \/ (k \in 1 .. n /\ k - 1 \in 0 .. n)
    OBVIOUS
  <2> HIDE DEF g
  <2>5. g[0] = x0
    BY <2>1, <2>3
  <2>6. \A k \in 1 .. n + 1 : g[k] = G[k][g[k - 1]]
    BY <2>1, <2>3, <2>4
  <2> QED BY <2>3, <2>5, <2>6
<1> HIDE DEF S
<1>3. N \in S
  BY <1>1, <1>2, SetInduction
<1> QED BY <1>3 DEF S, HasRun

\* The numbers from a + 1 to b.
Segment(a, b) == [j \in 1 .. b - a |-> a + j]

LEMMA SegmentIs ==
  ASSUME NEW a \in Nat, NEW b \in Nat, a <= b
  PROVE  /\ Segment(a, b) \in Seq(Nat) /\ Len(Segment(a, b)) = b - a
         /\ \A j \in 1 .. b - a : Segment(a, b)[j] = a + j
<1>1. b - a \in Nat
  OBVIOUS
<1> QED BY <1>1 DEF Segment

LEMMA SegmentsJoin ==
  ASSUME NEW a \in Nat, NEW b \in Nat, NEW c \in Nat, a <= b, b <= c
  PROVE  Segment(a, b) \o Segment(b, c) = Segment(a, c)
<1> DEFINE x == Segment(a, b)
           y == Segment(b, c)
           z == Segment(a, c)
<1>1. x \in Seq(Nat) /\ Len(x) = b - a /\ \A j \in 1 .. b - a : x[j] = a + j
  BY SegmentIs
<1>2. y \in Seq(Nat) /\ Len(y) = c - b /\ \A j \in 1 .. c - b : y[j] = b + j
  BY SegmentIs
<1>3. a <= c
  OBVIOUS
<1>4. z \in Seq(Nat) /\ Len(z) = c - a /\ \A j \in 1 .. c - a : z[j] = a + j
  BY <1>3, SegmentIs
<1> HIDE DEF x, y, z
<1>5. x \o y \in Seq(Nat) /\ Len(x \o y) = c - a
      /\ \A j \in 1 .. c - a : (x \o y)[j] = IF j <= b - a THEN x[j] ELSE y[j - (b - a)]
  <2>1. Len(x) + Len(y) = c - a
    BY <1>1, <1>2
  <2>2. /\ x \o y \in Seq(Nat) /\ Len(x \o y) = Len(x) + Len(y)
        /\ \A j \in 1 .. Len(x) + Len(y) : (x \o y)[j] = IF j <= Len(x) THEN x[j] ELSE y[j - Len(x)]
    BY <1>1, <1>2, ConcatProperties
  <2> QED BY <1>1, <2>1, <2>2
<1>6. \A j \in 1 .. c - a : (x \o y)[j] = z[j]
  <2> SUFFICES ASSUME NEW j \in 1 .. c - a PROVE (x \o y)[j] = z[j]
    OBVIOUS
  <2>1. CASE j <= b - a
    <3>1. j \in 1 .. b - a
      BY <2>1
    <3> QED BY <1>1, <1>4, <1>5, <2>1, <3>1
  <2>2. CASE ~ (j <= b - a)
    <3>1. j - (b - a) \in 1 .. c - b /\ b + (j - (b - a)) = a + j
      BY <2>2
    <3> QED BY <1>2, <1>4, <1>5, <2>2, <3>1
  <2> QED BY <2>1, <2>2
<1>7. x \o y = z
  BY <1>4, <1>5, <1>6, SeqEqual
<1> QED BY <1>7 DEF x, y, z

\* Segments that follow each other flatten to the whole.
LEMMA FlattenIs ==
  ASSUME NEW N \in Nat, NEW segments \in Seq(Seq(Nat)), Len(segments) = N,
         NEW ends \in [0 .. N -> Nat], ends[0] = 0,
         \A i \in 1 .. N : ends[i - 1] <= ends[i] /\ segments[i] = Segment(ends[i - 1], ends[i])
  PROVE  FlattenSeq(segments) = Segment(0, ends[N])
<1>1. CASE N = 0
  <2>1. segments = << >> /\ Segment(0, ends[N]) = << >>
    BY <1>1 DEF Segment
  <2> QED BY <1>1, <2>1 DEF FlattenSeq
<1>2. CASE N # 0
  <2> DEFINE Whole(i) == Segment(0, ends[i])
             Flat(f) == [i \in 1 .. Len(segments) |-> IF i = 1 THEN segments[i] ELSE f[i - 1] \o segments[i]]
             flat == CHOOSE f : f = Flat(f)
             whole == [i \in 1 .. N |-> Whole(i)]
  <2>1. Whole(1) = segments[1]
    <3>1. 1 \in 1 .. N /\ 1 - 1 = 0
      BY <1>2
    <3> QED BY <3>1
  <2>2. ASSUME NEW i \in 2 .. N PROVE Whole(i) = Whole(i - 1) \o segments[i]
    <3>1. i \in 1 .. N /\ ends[i] \in Nat /\ ends[i - 1] \in Nat /\ 0 <= ends[i - 1]
      OBVIOUS
    <3>2. ends[i - 1] <= ends[i] /\ segments[i] = Segment(ends[i - 1], ends[i])
      BY <3>1
    <3>3. Segment(0, ends[i - 1]) \o Segment(ends[i - 1], ends[i]) = Segment(0, ends[i])
      BY <3>1, <3>2, SegmentsJoin
    <3> QED BY <3>2, <3>3
  <2> HIDE DEF Whole
  <2>3. whole = Flat(whole)
    <3>1. \A i \in 1 .. N : whole[i] = IF i = 1 THEN segments[i] ELSE whole[i - 1] \o segments[i]
      <4> SUFFICES ASSUME NEW i \in 1 .. N
                   PROVE  whole[i] = IF i = 1 THEN segments[i] ELSE whole[i - 1] \o segments[i]
        OBVIOUS
      <4>1. CASE i = 1
        BY <2>1, <4>1
      <4>2. CASE i # 1
        <5>1. i \in 2 .. N /\ i - 1 \in 1 .. N
          BY <4>2
        <5>2. whole[i] = Whole(i) /\ whole[i - 1] = Whole(i - 1)
          BY <5>1
        <5> QED BY <2>2, <4>2, <5>1, <5>2
      <4> QED BY <4>1, <4>2
    <3>2. whole = [i \in 1 .. N |-> whole[i]]
      OBVIOUS
    <3> HIDE DEF whole
    <3> QED BY <3>1, <3>2
  <2>4. flat = Flat(flat)
    <3> HIDE DEF whole, Flat
    <3> QED BY <2>3
  <2> HIDE DEF flat
  <2>5. /\ flat[1] = segments[1]
        /\ \A i \in 2 .. N : flat[i] = flat[i - 1] \o segments[i]
    <3>1. \A i \in 1 .. N : flat[i] = IF i = 1 THEN segments[i] ELSE flat[i - 1] \o segments[i]
      BY <2>4
    <3>2. 1 \in 1 .. N /\ \A i \in 2 .. N : i \in 1 .. N /\ i # 1
      BY <1>2
    <3> QED BY <3>1, <3>2
  <2> DEFINE S == {n \in Nat : n + 1 <= N => flat[n + 1] = Whole(n + 1)}
  <2>6. 0 \in S
    BY <2>1, <2>5
  <2>7. ASSUME NEW n \in Nat, n \in S PROVE n + 1 \in S
    <3> SUFFICES ASSUME n + 2 <= N PROVE flat[n + 2] = Whole(n + 2)
      <4>1. (n + 1) + 1 = n + 2 /\ n + 1 \in Nat
        OBVIOUS
      <4> QED BY <4>1
    <3>1. n + 2 \in 2 .. N /\ (n + 2) - 1 = n + 1 /\ n + 1 <= N
      OBVIOUS
    <3>2. flat[n + 2] = flat[n + 1] \o segments[n + 2]
      BY <2>5, <3>1
    <3>3. Whole(n + 2) = Whole(n + 1) \o segments[n + 2]
      BY <2>2, <3>1
    <3>4. flat[n + 1] = Whole(n + 1)
      BY <2>7, <3>1
    <3> QED BY <3>2, <3>3, <3>4
  <2>8. flat[N] = Whole(N)
    <3>1. Nat \subseteq S
      <4> HIDE DEF S
      <4> QED BY <2>6, <2>7, SetInduction
    <3>2. N - 1 \in Nat /\ (N - 1) + 1 = N /\ N <= N
      BY <1>2
    <3>3. N - 1 \in S
      BY <3>1, <3>2
    <3> QED BY <3>2, <3>3
  <2>9. FlattenSeq(segments) = flat[N]
    BY <1>2 DEF FlattenSeq, flat
  <2> QED BY <2>8, <2>9 DEF Whole
<1> QED BY <1>1, <1>2

-----------------------------------------------------------------------------
\* What a transcript is made of, and what the host posts.

ToolStatuses == {"pending", "done", "interrupted", "approved", "denied"}
MessageItems ==
  [kind : {"message"}, turn : Nat, text : Seq(Nat), streaming : BOOLEAN, id : Nat]
ReasoningItems == [kind : {"reasoning"}, turn : Nat, block : Nat, streaming : BOOLEAN]
ToolItems == [kind : {"tool"}, turn : Nat, tool : Tools, status : ToolStatuses, hunks : Nat]
ApprovalItems ==
  [kind : {"approval"}, turn : Nat, tool : Tools,
   settled : {"none", "selected", "cancelled", "expired", "superseded"},
   resolved : {"none", "allow", "deny"}]
PlanItems == [kind : {"plan"}, turn : Nat, status : {"active", "done", "interrupted"}]
PlainItems == [kind : {"user", "result"}, turn : Nat]
TranscriptItems ==
  MessageItems \cup ReasoningItems \cup ToolItems \cup ApprovalItems \cup PlanItems \cup PlainItems

PlainPosts == [type : {"user", "result.summary"}, turn : Nat]
ReasoningPosts == [type : {"reasoning.start", "reasoning.end"}, turn : Nat, block : Nat]
TextPosts == [type : {"message.delta", "message.end"}, turn : Nat, text : Seq(Nat)]
ToolPosts ==
  [type : {"tool.start", "tool.update", "approval.request"}, turn : Nat, tool : Tools,
   status : {"pending", "done", "interrupted"}]
SettlePosts == [type : {"approval.settle"}, turn : Nat, tool : Tools, status : Settlements]
PlanPosts == [type : {"plan.update"}, turn : Nat, status : {"active", "done"}]
EndPosts == [type : {"turn.end"}, turn : Nat, status : {"complete", "cancelled"}]
HostPosts ==
  PlainPosts \cup ReasoningPosts \cup TextPosts \cup ToolPosts \cup SettlePosts \cup PlanPosts
  \cup EndPosts

LEMMA ItemFacts ==
  ASSUME NEW x \in TranscriptItems
  PROVE  /\ x.turn \in Nat
         /\ x.kind = "message" => x \in MessageItems
         /\ x.kind = "reasoning" => x \in ReasoningItems
         /\ x.kind = "tool" => x \in ToolItems
         /\ x.kind = "approval" => x \in ApprovalItems
         /\ x.kind = "plan" => x \in PlanItems
         /\ x.kind \in {"message", "reasoning", "tool", "approval", "plan", "user", "result"}
BY DEF TranscriptItems, MessageItems, ReasoningItems, ToolItems, ApprovalItems, PlanItems, PlainItems

LEMMA PostFacts ==
  ASSUME NEW m \in HostPosts
  PROVE  /\ m.turn \in Nat
         /\ m.type \in {"reasoning.start", "reasoning.end"} => m \in ReasoningPosts
         /\ m.type \in {"message.delta", "message.end"} => m \in TextPosts
         /\ m.type \in {"tool.start", "tool.update", "approval.request"} => m \in ToolPosts
         /\ m.type = "approval.settle" => m \in SettlePosts
         /\ m.type = "plan.update" => m \in PlanPosts
         /\ m.type = "turn.end" => m \in EndPosts
         /\ m.type \in {"user", "result.summary", "reasoning.start", "reasoning.end", "message.delta",
                        "message.end", "tool.start", "tool.update", "approval.request",
                        "approval.settle", "plan.update", "turn.end"}
BY DEF HostPosts, PlainPosts, ReasoningPosts, TextPosts, ToolPosts, SettlePosts, PlanPosts, EndPosts

\* y is x, with no more of its text still to come.
Quieter(x, y) ==
  /\ y \in TranscriptItems /\ y.kind = x.kind /\ y.turn = x.turn
  /\ x.kind = "message" => y.text = x.text /\ y.id = x.id /\ (y.streaming => x.streaming)

LEMMA QuieterSelf == \A x \in TranscriptItems : Quieter(x, x)
BY DEF Quieter

\* The ways an item is changed.
LEMMA SilencedIs ==
  ASSUME NEW x \in TranscriptItems, x.kind \in {"message", "reasoning"}
  PROVE  /\ Silenced(x) \in TranscriptItems /\ Quieter(x, Silenced(x)) /\ ~ Silenced(x).streaming
         /\ x.kind = "reasoning" => Silenced(x).block = x.block
<1>1. CASE x.kind = "message"
  <2>1. x \in MessageItems
    BY <1>1, ItemFacts
  <2>2. Silenced(x) \in MessageItems /\ ~ Silenced(x).streaming /\ Silenced(x).text = x.text
        /\ Silenced(x).id = x.id /\ Silenced(x).turn = x.turn /\ Silenced(x).kind = x.kind
    BY <2>1 DEF Silenced, MessageItems
  <2> QED BY <1>1, <2>2 DEF Quieter, TranscriptItems
<1>2. CASE x.kind = "reasoning"
  <2>1. x \in ReasoningItems
    BY <1>2, ItemFacts
  <2>2. Silenced(x) \in ReasoningItems /\ ~ Silenced(x).streaming /\ Silenced(x).block = x.block
        /\ Silenced(x).turn = x.turn /\ Silenced(x).kind = x.kind
    BY <2>1 DEF Silenced, ReasoningItems
  <2> QED BY <1>2, <2>2 DEF Quieter, TranscriptItems
<1> QED BY <1>1, <1>2

LEMMA StatusIs ==
  ASSUME NEW x \in ToolItems, NEW s \in ToolStatuses
  PROVE  LET y == [x EXCEPT !.status = s] IN
         /\ y \in ToolItems /\ Quieter(x, y) /\ y.status = s /\ y.tool = x.tool
         /\ y.kind = "tool" /\ y.turn = x.turn
<1> DEFINE y == [x EXCEPT !.status = s]
<1>1. y \in ToolItems /\ y.status = s /\ y.tool = x.tool /\ y.kind = "tool" /\ x.kind = "tool" /\ y.turn = x.turn
  BY DEF ToolItems
<1> HIDE DEF y
<1>2. Quieter(x, y)
  BY <1>1 DEF Quieter, TranscriptItems
<1> QED BY <1>1, <1>2 DEF y

LEMMA PlanStatusIs ==
  ASSUME NEW x \in PlanItems, NEW s \in {"active", "done", "interrupted"}
  PROVE  LET y == [x EXCEPT !.status = s] IN
         /\ y \in PlanItems /\ Quieter(x, y) /\ y.status = s /\ y.kind = "plan" /\ y.turn = x.turn
<1> DEFINE y == [x EXCEPT !.status = s]
<1>1. y \in PlanItems /\ y.status = s /\ y.kind = "plan" /\ x.kind = "plan" /\ y.turn = x.turn
  BY DEF PlanItems
<1> HIDE DEF y
<1>2. Quieter(x, y)
  BY <1>1 DEF Quieter, TranscriptItems
<1> QED BY <1>1, <1>2 DEF y

LEMMA CardIs ==
  ASSUME NEW x \in ApprovalItems, NEW s \in {"none", "selected", "cancelled", "expired", "superseded"},
         NEW r \in {"none", "allow", "deny"}
  PROVE  LET y == [x EXCEPT !.settled = s, !.resolved = r] IN
         /\ y \in ApprovalItems /\ Quieter(x, y) /\ y.settled = s /\ y.resolved = r
         /\ y.tool = x.tool /\ y.kind = "approval" /\ y.turn = x.turn
<1> DEFINE y == [x EXCEPT !.settled = s, !.resolved = r]
<1>1. /\ y \in ApprovalItems /\ y.settled = s /\ y.resolved = r
      /\ y.tool = x.tool /\ y.kind = "approval" /\ x.kind = "approval" /\ y.turn = x.turn
  BY DEF ApprovalItems
<1> HIDE DEF y
<1>2. Quieter(x, y)
  BY <1>1 DEF Quieter, TranscriptItems
<1> QED BY <1>1, <1>2 DEF y

-----------------------------------------------------------------------------
\* The blocks of text of the newest turn.

OwnText(x, turn) == IF x.kind = "message" /\ x.turn = turn THEN x.text ELSE << >>

\* Turns only grow, and the item at the tail is of the newest turn.
TurnsGrow(list, turn) ==
  /\ \A i \in 1 .. Len(list) : list[i].turn <= turn
  /\ \A i, k \in 1 .. Len(list) : i <= k => list[i].turn <= list[k].turn
  /\ list # << >> => list[Len(list)].turn = turn

\* ends[i] is how much of the text is shown by the first i items.
TextShown(list, turn, length) ==
  \E ends \in [0 .. Len(list) -> Nat] :
    /\ \A i \in 0 .. Len(list) :
         /\ (\A k \in MessagesOf(list, turn) : i < k) => ends[i] = 0
         /\ (\A k \in MessagesOf(list, turn) : k <= i) => ends[i] = length
    /\ \A i \in 1 .. Len(list) :
         ends[i - 1] <= ends[i] /\ OwnText(list[i], turn) = Segment(ends[i - 1], ends[i])

IdsDiffer(list, turn) ==
  /\ \A i \in MessagesOf(list, turn) : list[i].id < Cardinality(MessagesOf(list, turn))
  /\ \A i, k \in MessagesOf(list, turn) : list[i].id = list[k].id => i = k

\* What comes next of the text goes to the last of its blocks.
OpenIsNewest(list, turn) ==
  \A i, k \in MessagesOf(list, turn) : list[i].streaming => k <= i

BlocksShow(list, turn, length) ==
  /\ TurnsGrow(list, turn) /\ TextShown(list, turn, length)
  /\ IdsDiffer(list, turn) /\ OpenIsNewest(list, turn)

LEMMA MessagesAre ==
  ASSUME NEW list \in Seq(TranscriptItems), NEW turn
  PROVE  /\ MessagesOf(list, turn) \subseteq 1 .. Len(list)
         /\ IsFiniteSet(MessagesOf(list, turn)) /\ Cardinality(MessagesOf(list, turn)) \in Nat
         /\ \A i \in MessagesOf(list, turn) :
              list[i] \in MessageItems /\ list[i].turn = turn /\ list[i].kind = "message"
         /\ \A i \in 1 .. Len(list) :
              list[i].kind = "message" /\ list[i].turn = turn => i \in MessagesOf(list, turn)
<1>1. MessagesOf(list, turn) \subseteq 1 .. Len(list)
  BY DEF MessagesOf
<1>2. IsFiniteSet(1 .. Len(list))
  BY FS_Interval
<1>3. IsFiniteSet(MessagesOf(list, turn))
  BY <1>1, <1>2, FS_Subset
<1>4. Cardinality(MessagesOf(list, turn)) \in Nat
  BY <1>3, FS_CardinalityType
<1>5. \A i \in MessagesOf(list, turn) : list[i] \in TranscriptItems /\ list[i].turn = turn /\ list[i].kind = "message"
  BY DEF MessagesOf
<1>6. \A i \in 1 .. Len(list) :
        list[i].kind = "message" /\ list[i].turn = turn => i \in MessagesOf(list, turn)
  BY DEF MessagesOf
<1> QED BY <1>1, <1>3, <1>4, <1>5, <1>6, ItemFacts

LEMMA NewestIs ==
  ASSUME NEW N \in Nat, NEW M, M \subseteq 1 .. N, M # {}
  PROVE  Newest(M) \in M /\ \A k \in M : k <= Newest(M)
<1> DEFINE T == {N - i : i \in M}
<1>1. \A i \in M : N - i \in Nat
  OBVIOUS
<1>2. T \subseteq Nat /\ T # {}
  BY <1>1
<1>3. PICK t \in T : \A u \in T : t <= u
  <2> HIDE DEF T
  <2> QED BY <1>2, LeastNumber
<1>5. PICK i \in M : t = N - i
  OBVIOUS
<1>4. \A k \in M : k <= i
  <2> SUFFICES ASSUME NEW k \in M PROVE k <= i
    OBVIOUS
  <2>1. N - k \in T
    OBVIOUS
  <2>2. N - i <= N - k
    BY <1>3, <1>5, <2>1
  <2> QED BY <2>2
<1> QED BY <1>4 DEF Newest

\* A list whose items are changed one by one.
LEMMA BlocksMap ==
  ASSUME NEW list \in Seq(TranscriptItems), NEW out \in Seq(TranscriptItems), NEW turn \in Nat, NEW length,
         BlocksShow(list, turn, length), Len(out) = Len(list),
         \A i \in 1 .. Len(list) : Quieter(list[i], out[i])
  PROVE  BlocksShow(out, turn, length) /\ MessagesOf(out, turn) = MessagesOf(list, turn)
<1>1. \A i \in 1 .. Len(list) : out[i].kind = list[i].kind /\ out[i].turn = list[i].turn
  BY DEF Quieter
<1>2. MessagesOf(out, turn) = MessagesOf(list, turn)
  BY <1>1 DEF MessagesOf
<1>3. \A i \in MessagesOf(list, turn) :
        out[i].text = list[i].text /\ out[i].id = list[i].id /\ (out[i].streaming => list[i].streaming)
  BY MessagesAre DEF Quieter
<1>4. \A i \in 1 .. Len(list) : OwnText(out[i], turn) = OwnText(list[i], turn)
  BY <1>1 DEF OwnText, Quieter
<1>5. TurnsGrow(out, turn)
  <2>1. out # << >> => list # << >> /\ Len(out) \in 1 .. Len(list)
    OBVIOUS
  <2> QED BY <1>1, <2>1 DEF BlocksShow, TurnsGrow
<1>6. TextShown(out, turn, length)
  BY <1>2, <1>4 DEF BlocksShow, TextShown
<1>7. IdsDiffer(out, turn)
  BY <1>2, <1>3 DEF BlocksShow, IdsDiffer
<1>8. OpenIsNewest(out, turn)
  BY <1>2, <1>3 DEF BlocksShow, OpenIsNewest
<1> QED BY <1>2, <1>5, <1>6, <1>7, <1>8 DEF BlocksShow

\* An item that is no message of the turn, at the end.
LEMMA BlocksAppend ==
  ASSUME NEW list \in Seq(TranscriptItems), NEW x \in TranscriptItems, NEW turn \in Nat, NEW length,
         BlocksShow(list, turn, length), x.kind # "message", x.turn = turn
  PROVE  BlocksShow(Append(list, x), turn, length)
<1> DEFINE out == Append(list, x)
           N == Len(list)
<1>1. N \in Nat /\ out \in Seq(TranscriptItems) /\ Len(out) = N + 1 /\ out[N + 1] = x /\ out # << >>
      /\ \A i \in 1 .. N : out[i] = list[i] /\ list[i] \in TranscriptItems
  BY AppendProperties
<1> HIDE DEF out, N
<1>2. \A i \in 1 .. N + 1 : i \in 1 .. N \/ i = N + 1
  BY <1>1
<1>3. MessagesOf(out, turn) = MessagesOf(list, turn)
  <2>1. \A i : i \in MessagesOf(out, turn) <=> i \in 1 .. N + 1 /\ out[i].kind = "message" /\ out[i].turn = turn
    BY <1>1 DEF MessagesOf
  <2>2. \A i : i \in MessagesOf(list, turn) <=> i \in 1 .. N /\ list[i].kind = "message" /\ list[i].turn = turn
    BY DEF MessagesOf, N
  <2>3. ASSUME NEW i \in MessagesOf(out, turn) PROVE i \in MessagesOf(list, turn)
    <3>1. i \in 1 .. N /\ out[i] = list[i]
      BY <1>1, <1>2, <2>1
    <3> QED BY <2>1, <2>2, <3>1
  <2>4. ASSUME NEW i \in MessagesOf(list, turn) PROVE i \in MessagesOf(out, turn)
    <3>1. i \in 1 .. N /\ i \in 1 .. N + 1 /\ out[i] = list[i]
      BY <1>1, <2>2
    <3> QED BY <2>1, <2>2, <3>1
  <2> QED BY <2>3, <2>4
<1>4. MessagesOf(list, turn) \subseteq 1 .. N
  BY MessagesAre DEF N
<1>5. TurnsGrow(out, turn)
  <2>1. \A i \in 1 .. N : list[i].turn <= turn /\ list[i].turn \in Nat
    BY <1>1, ItemFacts DEF BlocksShow, TurnsGrow, N
  <2>2. \A i \in 1 .. N + 1 : out[i].turn <= turn
    BY <1>1, <1>2, <2>1
  <2>3. \A i, k \in 1 .. N + 1 : i <= k => out[i].turn <= out[k].turn
    <3> SUFFICES ASSUME NEW i \in 1 .. N + 1, NEW k \in 1 .. N + 1, i <= k PROVE out[i].turn <= out[k].turn
      OBVIOUS
    <3>1. CASE k = N + 1
      BY <1>1, <2>2, <3>1
    <3>2. CASE k # N + 1
      <4>1. i \in 1 .. N /\ k \in 1 .. N
        BY <1>1, <3>2
      <4> QED BY <1>1, <4>1 DEF BlocksShow, TurnsGrow, N
    <3> QED BY <3>1, <3>2
  <2> QED BY <1>1, <2>2, <2>3 DEF TurnsGrow
<1>6. TextShown(out, turn, length)
  <2>1. PICK ends \in [0 .. N -> Nat] :
          /\ \A i \in 0 .. N :
               /\ (\A k \in MessagesOf(list, turn) : i < k) => ends[i] = 0
               /\ (\A k \in MessagesOf(list, turn) : k <= i) => ends[i] = length
          /\ \A i \in 1 .. N :
               ends[i - 1] <= ends[i] /\ OwnText(list[i], turn) = Segment(ends[i - 1], ends[i])
    BY DEF BlocksShow, TextShown, N
  <2> DEFINE more == [i \in 0 .. N + 1 |-> IF i = N + 1 THEN ends[N] ELSE ends[i]]
  <2>2. more \in [0 .. N + 1 -> Nat] /\ more[N + 1] = ends[N] /\ \A i \in 0 .. N : more[i] = ends[i]
    BY <1>1
  <2> HIDE DEF more
  <2>3. ends[N] = length /\ N \in 0 .. N
    BY <1>1, <1>4, <2>1
  <2>4. ASSUME NEW i \in 0 .. N + 1
        PROVE  /\ (\A k \in MessagesOf(out, turn) : i < k) => more[i] = 0
               /\ (\A k \in MessagesOf(out, turn) : k <= i) => more[i] = length
    <3>1. CASE i \in 0 .. N
      BY <1>3, <2>1, <2>2, <3>1
    <3>2. CASE i = N + 1
      <4>1. (\A k \in MessagesOf(out, turn) : i < k) => \A k \in MessagesOf(list, turn) : N < k
        BY <1>1, <1>3, <1>4, <3>2
      <4> QED BY <2>1, <2>2, <2>3, <3>2, <4>1
    <3> QED BY <1>1, <3>1, <3>2
  <2>5. ASSUME NEW i \in 1 .. N + 1
        PROVE  more[i - 1] <= more[i] /\ OwnText(out[i], turn) = Segment(more[i - 1], more[i])
    <3>1. CASE i \in 1 .. N
      <4>1. i - 1 \in 0 .. N /\ i \in 0 .. N
        BY <1>1, <3>1
      <4> QED BY <1>1, <2>1, <2>2, <3>1, <4>1
    <3>2. CASE i = N + 1
      <4>1. more[i - 1] = ends[N] /\ more[i] = ends[N] /\ ends[N] \in Nat
        BY <1>1, <2>2, <3>2
      <4>2. OwnText(out[i], turn) = << >>
        BY <1>1, <3>2 DEF OwnText
      <4>3. Segment(ends[N], ends[N]) = << >>
        BY <4>1 DEF Segment
      <4> QED BY <4>1, <4>2, <4>3
    <3> QED BY <1>2, <3>1, <3>2
  <2> QED BY <1>1, <2>2, <2>4, <2>5 DEF TextShown
<1>7. IdsDiffer(out, turn) /\ OpenIsNewest(out, turn)
  <2>1. \A i \in MessagesOf(list, turn) : out[i] = list[i]
    BY <1>1, <1>4
  <2> QED BY <1>3, <2>1 DEF BlocksShow, IdsDiffer, OpenIsNewest
<1> QED BY <1>5, <1>6, <1>7 DEF BlocksShow, out

\* A list that lost items at its front, none of them of the turn.
LEMMA BlocksShift ==
  ASSUME NEW list \in Seq(TranscriptItems), NEW out \in Seq(TranscriptItems), NEW turn \in Nat,
         NEW length, NEW d \in 0 .. Len(list), BlocksShow(list, turn, length),
         Len(out) = Len(list) - d, \A i \in 1 .. Len(list) - d : out[i] = list[i + d],
         \A i \in 1 .. d : list[i].turn # turn
  PROVE  BlocksShow(out, turn, length)
<1> DEFINE N == Len(list)
           M == MessagesOf(list, turn)
           K == MessagesOf(out, turn)
<1>1. N \in Nat /\ d \in 0 .. N /\ Len(out) = N - d /\ \A i \in 1 .. N - d : out[i] = list[i + d] /\ i + d \in 1 .. N
  OBVIOUS
<1>2. /\ M \subseteq 1 .. N /\ IsFiniteSet(M) /\ Cardinality(M) \in Nat
      /\ K \subseteq 1 .. N - d /\ IsFiniteSet(K)
  BY <1>1, MessagesAre
<1>3. \A i \in 1 .. N : i \in M <=> list[i].kind = "message" /\ list[i].turn = turn
  BY DEF MessagesOf
<1>4. \A i \in 1 .. N - d : i \in K <=> out[i].kind = "message" /\ out[i].turn = turn
  BY <1>1 DEF MessagesOf
<1> HIDE DEF N, M, K
<1>5. \A i \in 1 .. N - d : i \in K <=> i + d \in M
  <2> SUFFICES ASSUME NEW i \in 1 .. N - d PROVE i \in K <=> i + d \in M
    OBVIOUS
  <2>1. i + d \in 1 .. N /\ out[i] = list[i + d]
    BY <1>1
  <2>2. i \in K <=> out[i].kind = "message" /\ out[i].turn = turn
    BY <1>4
  <2>3. i + d \in M <=> list[i + d].kind = "message" /\ list[i + d].turn = turn
    BY <1>3, <2>1
  <2> QED BY <2>1, <2>2, <2>3
<1>6. \A k \in M : k - d \in 1 .. N - d /\ k - d \in K /\ (k - d) + d = k
  <2> SUFFICES ASSUME NEW k \in M PROVE k - d \in 1 .. N - d /\ k - d \in K /\ (k - d) + d = k
    OBVIOUS
  <2>1. k \in 1 .. N /\ ~ (k \in 1 .. d)
    BY <1>2, <1>3
  <2>2. k - d \in 1 .. N - d /\ (k - d) + d = k
    BY <1>1, <2>1
  <2> QED BY <1>5, <2>2
<1>7. \A i \in K : i \in 1 .. N - d /\ i + d \in M /\ out[i] = list[i + d]
  BY <1>1, <1>2, <1>5
<1>8. Cardinality(K) = Cardinality(M)
  <2> DEFINE f == [i \in K |-> i + d]
  <2>1. f \in [K -> M]
    BY <1>7
  <2>2. \A i, k \in K : f[i] = f[k] => i = k
    <3> SUFFICES ASSUME NEW i \in K, NEW k \in K, i + d = k + d PROVE i = k
      OBVIOUS
    <3>1. i \in Nat /\ k \in Nat /\ d \in Nat
      BY <1>1, <1>7
    <3> QED BY <3>1
  <2>3. \A k \in M : \E i \in K : f[i] = k
    <3> SUFFICES ASSUME NEW k \in M PROVE \E i \in K : f[i] = k
      OBVIOUS
    <3>1. f[k - d] = k
      BY <1>6
    <3> QED BY <1>6, <3>1
  <2> HIDE DEF f
  <2>4. ExistsBijection(K, M)
    BY <2>1, <2>2, <2>3
    DEF ExistsBijection, Bijection, Injection, Surjection, IsInjective
  <2> QED BY <1>2, <2>4, FS_Bijection
<1>9. TurnsGrow(out, turn)
  <2>1. \A i \in 1 .. N - d : out[i].turn <= turn
    BY <1>1 DEF BlocksShow, TurnsGrow, N
  <2>2. \A i, k \in 1 .. N - d : i <= k => out[i].turn <= out[k].turn
    <3> SUFFICES ASSUME NEW i \in 1 .. N - d, NEW k \in 1 .. N - d, i <= k PROVE out[i].turn <= out[k].turn
      OBVIOUS
    <3>1. i + d \in 1 .. N /\ k + d \in 1 .. N /\ i + d <= k + d
      BY <1>1
    <3>2. list[i + d].turn <= list[k + d].turn
      BY <3>1 DEF BlocksShow, TurnsGrow, N
    <3> QED BY <1>1, <3>2
  <2>3. out # << >> => out[N - d].turn = turn
    <3> SUFFICES ASSUME out # << >> PROVE out[N - d].turn = turn
      OBVIOUS
    <3>1. N - d \in 1 .. N - d /\ (N - d) + d = N
      <4>1. Len(out) # 0
        OBVIOUS
      <4> QED BY <1>1, <4>1
    <3>2. out[N - d] = list[N] /\ list # << >>
      <4>1. out[N - d] = list[N]
        BY <1>1, <3>1
      <4>2. N # 0
        BY <1>1, <3>1
      <4> QED BY <4>1, <4>2 DEF N
    <3> QED BY <3>2 DEF BlocksShow, TurnsGrow, N
  <2> QED BY <1>1, <2>1, <2>2, <2>3 DEF TurnsGrow
<1>10. TextShown(out, turn, length)
  <2>1. PICK ends \in [0 .. N -> Nat] :
          /\ \A i \in 0 .. N :
               /\ (\A k \in M : i < k) => ends[i] = 0
               /\ (\A k \in M : k <= i) => ends[i] = length
          /\ \A i \in 1 .. N :
               ends[i - 1] <= ends[i] /\ OwnText(list[i], turn) = Segment(ends[i - 1], ends[i])
    BY DEF BlocksShow, TextShown, N, M
  <2> DEFINE less == [i \in 0 .. N - d |-> ends[i + d]]
  <2>2. \A i \in 0 .. N - d : i + d \in 0 .. N
    BY <1>1
  <2>3. less \in [0 .. N - d -> Nat] /\ \A i \in 0 .. N - d : less[i] = ends[i + d]
    BY <2>2
  <2> HIDE DEF less
  <2>4. ASSUME NEW i \in 0 .. N - d
        PROVE  /\ (\A k \in K : i < k) => less[i] = 0
               /\ (\A k \in K : k <= i) => less[i] = length
    <3>1. ASSUME \A k \in K : i < k PROVE less[i] = 0
      <4>1. \A k \in M : i + d < k
        BY <1>1, <1>2, <1>6, <3>1
      <4> QED BY <2>1, <2>2, <2>3, <4>1
    <3>2. ASSUME \A k \in K : k <= i PROVE less[i] = length
      <4>1. \A k \in M : k <= i + d
        BY <1>1, <1>2, <1>6, <3>2
      <4> QED BY <2>1, <2>2, <2>3, <4>1
    <3> QED BY <3>1, <3>2
  <2>5. ASSUME NEW i \in 1 .. N - d
        PROVE  less[i - 1] <= less[i] /\ OwnText(out[i], turn) = Segment(less[i - 1], less[i])
    <3>1. /\ i + d \in 1 .. N /\ i - 1 \in 0 .. N - d /\ i \in 0 .. N - d
          /\ (i - 1) + d = (i + d) - 1
      BY <1>1
    <3>2. less[i] = ends[i + d] /\ less[i - 1] = ends[(i + d) - 1] /\ out[i] = list[i + d]
      BY <1>1, <2>3, <3>1
    <3>3. ends[(i + d) - 1] <= ends[i + d]
          /\ OwnText(list[i + d], turn) = Segment(ends[(i + d) - 1], ends[i + d])
      BY <2>1, <3>1
    <3> QED BY <3>2, <3>3
  <2> QED BY <1>1, <2>3, <2>4, <2>5 DEF TextShown, K
<1>11. IdsDiffer(out, turn)
  <2>1. /\ \A i \in M : list[i].id < Cardinality(M)
        /\ \A i, k \in M : list[i].id = list[k].id => i = k
    BY DEF BlocksShow, IdsDiffer, M
  <2>2. \A i \in K : out[i].id < Cardinality(K)
    BY <1>7, <1>8, <2>1
  <2>3. \A i, k \in K : out[i].id = out[k].id => i = k
    <3> SUFFICES ASSUME NEW i \in K, NEW k \in K, out[i].id = out[k].id PROVE i = k
      OBVIOUS
    <3>1. i + d = k + d
      BY <1>7, <2>1
    <3>2. i \in Nat /\ k \in Nat /\ d \in Nat
      BY <1>1, <1>7
    <3> QED BY <3>1, <3>2
  <2> QED BY <2>2, <2>3 DEF IdsDiffer, K
<1>12. OpenIsNewest(out, turn)
  <2>1. \A i, k \in M : list[i].streaming => k <= i
    BY DEF BlocksShow, OpenIsNewest, M
  <2>2. \A i, k \in K : out[i].streaming => k <= i
    <3> SUFFICES ASSUME NEW i \in K, NEW k \in K, out[i].streaming PROVE k <= i
      OBVIOUS
    <3>1. k + d <= i + d
      BY <1>7, <2>1
    <3>2. i \in Nat /\ k \in Nat /\ d \in Nat
      BY <1>1, <1>7
    <3> QED BY <3>1, <3>2
  <2> QED BY <2>2 DEF OpenIsNewest, K
<1> QED BY <1>9, <1>10, <1>11, <1>12 DEF BlocksShow

\* capTranscript drops items at the front, and none of the turn at the tail.
LEMMA CappedIs ==
  ASSUME NEW list \in Seq(TranscriptItems), NEW turn, list # << >> => list[Len(list)].turn = turn
  PROVE  \E d \in 0 .. Len(list) :
           /\ Capped(list) \in Seq(TranscriptItems) /\ Len(Capped(list)) = Len(list) - d
           /\ \A i \in 1 .. Len(list) - d : Capped(list)[i] = list[i + d]
           /\ \A i \in 1 .. d : list[i].turn # turn
<1> DEFINE N == Len(list)
           over == N - MaxItems
           active == {i \in DOMAIN list : list[i].turn = Last(list).turn}
           T == {over} \cup {i - 1 : i \in active}
           d == Min(T)
<1>0. N \in Nat /\ MaxItems \in Nat \ {0} /\ DOMAIN list = 1 .. N
  BY TranscriptAssumption
<1>1. CASE over <= 0
  <2>1. Capped(list) = list
    BY <1>1 DEF Capped
  <2>2. 0 \in 0 .. N /\ N - 0 = N /\ (\A i \in 1 .. N : i + 0 = i) /\ \A i \in 1 .. 0 : FALSE
    BY <1>0
  <2> QED BY <2>1, <2>2
<1>2. CASE ~ (over <= 0)
  <2>1. over \in Nat /\ over < N /\ N # 0
    BY <1>0, <1>2
  <2>2. \A i \in active : i - 1 \in Nat
    BY <1>0
  <2>3. T \subseteq Nat /\ T # {} /\ over \in T
    BY <2>1, <2>2
  <2>4. d \in T /\ \A t \in T : d <= t
    <3> HIDE DEF T
    <3>1. \E x \in T : \A y \in T : x =< y
      BY <2>3, LeastNumber
    <3> QED BY <3>1 DEF Min
  <2>5. \A i \in active : d <= i - 1
    BY <2>4
  <2>6. d \in Nat /\ d <= over
    BY <2>3, <2>4
  <2>7. Capped(list) = SubSeq(list, d + 1, N)
    BY <1>2 DEF Capped
  <2>8. \A i \in 1 .. N : i \in active <=> list[i].turn = Last(list).turn
    BY <1>0
  <2> HIDE DEF d, T, over, active
  <2>9. d + 1 \in Int /\ N \in Int /\ d + 1 <= N /\ N - (d + 1) + 1 = N - d /\ d \in 0 .. N
    BY <1>0, <2>1, <2>6
  <2>10. \A i \in d + 1 .. N : list[i] \in TranscriptItems
    BY <2>6
  <2>11. /\ SubSeq(list, d + 1, N) \in Seq(TranscriptItems)
         /\ Len(SubSeq(list, d + 1, N)) = IF d + 1 <= N THEN N - (d + 1) + 1 ELSE 0
         /\ \A i \in 1 .. N - (d + 1) + 1 : SubSeq(list, d + 1, N)[i] = list[d + 1 + i - 1]
    <3> HIDE DEF N
    <3> QED BY <2>9, <2>10, SubSeqProperties
  <2>12. \A i \in 1 .. N - d : d + 1 + i - 1 = i + d
    BY <2>9
  <2>13. \A i \in 1 .. N - d : Capped(list)[i] = list[i + d]
    BY <2>7, <2>9, <2>11, <2>12
  <2>14. \A i \in 1 .. d : list[i].turn # turn
    <3> SUFFICES ASSUME NEW i \in 1 .. d, list[i].turn = turn PROVE FALSE
      OBVIOUS
    <3>1. i \in 1 .. N
      BY <2>9
    <3>2. Last(list).turn = turn
      BY <2>1 DEF Last
    <3>3. i \in active
      BY <2>8, <3>1, <3>2
    <3>4. d <= i - 1
      BY <2>5, <3>3
    <3> QED BY <2>6, <3>4
  <2> QED BY <2>7, <2>9, <2>11, <2>13, <2>14
<1> QED BY <1>1, <1>2

LEMMA BlocksCap ==
  ASSUME NEW list \in Seq(TranscriptItems), NEW turn \in Nat, NEW length, BlocksShow(list, turn, length)
  PROVE  /\ Capped(list) \in Seq(TranscriptItems) /\ BlocksShow(Capped(list), turn, length)
         /\ \A i \in 1 .. Len(Capped(list)) : \E k \in 1 .. Len(list) : Capped(list)[i] = list[k]
<1>1. PICK d \in 0 .. Len(list) :
        /\ Capped(list) \in Seq(TranscriptItems) /\ Len(Capped(list)) = Len(list) - d
        /\ \A i \in 1 .. Len(list) - d : Capped(list)[i] = list[i + d]
        /\ \A i \in 1 .. d : list[i].turn # turn
  BY CappedIs DEF BlocksShow, TurnsGrow
<1>2. BlocksShow(Capped(list), turn, length)
  BY <1>1, BlocksShift
<1>3. \A i \in 1 .. Len(list) - d : i + d \in 1 .. Len(list)
  OBVIOUS
<1> QED BY <1>1, <1>2, <1>3

LEMMA OneMore ==
  ASSUME NEW length \in Nat
  PROVE  << length + 1 >> = Segment(length, length + 1) /\ << length + 1 >> \in Seq(Nat)
<1>1. Segment(length, length + 1) \in Seq(Nat) /\ Len(Segment(length, length + 1)) = 1
      /\ Segment(length, length + 1)[1] = length + 1
  <2>1. length + 1 \in Nat /\ length <= length + 1 /\ (length + 1) - length = 1 /\ 1 \in 1 .. 1
    OBVIOUS
  <2> QED BY <2>1, SegmentIs
<1>2. << length + 1 >> \in Seq(Nat) /\ Len(<< length + 1 >>) = 1 /\ << length + 1 >>[1] = length + 1
  OBVIOUS
<1>3. \A i \in 1 .. 1 : i = 1
  OBVIOUS
<1>4. << length + 1 >> = Segment(length, length + 1)
  BY <1>1, <1>2, <1>3, SeqEqual
<1> QED BY <1>2, <1>4

\* A new block, when none is open.
LEMMA BlocksSay ==
  ASSUME NEW list \in Seq(TranscriptItems), NEW x \in MessageItems, NEW turn \in Nat, NEW length \in Nat,
         BlocksShow(list, turn, length), x.turn = turn, x.text = << length + 1 >>,
         x.id = Cardinality(MessagesOf(list, turn)),
         \A i \in MessagesOf(list, turn) : ~ list[i].streaming
  PROVE  BlocksShow(Append(list, x), turn, length + 1)
<1> DEFINE out == Append(list, x)
           N == Len(list)
           M == MessagesOf(list, turn)
           K == MessagesOf(out, turn)
<1>1. /\ N \in Nat /\ out \in Seq(TranscriptItems) /\ Len(out) = N + 1 /\ out[N + 1] = x /\ out # << >>
      /\ \A i \in 1 .. N : out[i] = list[i] /\ list[i] \in TranscriptItems
      /\ x \in TranscriptItems /\ x.kind = "message"
  <2>1. x \in TranscriptItems /\ x.kind = "message"
    BY DEF TranscriptItems, MessageItems
  <2> QED BY <2>1, AppendProperties
<1>2. /\ M \subseteq 1 .. N /\ IsFiniteSet(M) /\ Cardinality(M) \in Nat
  BY MessagesAre
<1>3. \A i \in 1 .. N : i \in M <=> list[i].kind = "message" /\ list[i].turn = turn
  BY DEF MessagesOf
<1>4. \A i : i \in K <=> i \in 1 .. N + 1 /\ out[i].kind = "message" /\ out[i].turn = turn
  BY <1>1 DEF MessagesOf
<1> HIDE DEF out, N, M, K
<1>5. \A i \in 1 .. N + 1 : i \in 1 .. N \/ i = N + 1
  BY <1>1
<1>6. K = M \cup {N + 1}
  <2>1. ASSUME NEW i \in K PROVE i \in M \cup {N + 1}
    BY <1>1, <1>3, <1>4, <1>5, <2>1
  <2>2. ASSUME NEW i \in M PROVE i \in K
    <3>1. i \in 1 .. N /\ i \in 1 .. N + 1 /\ out[i] = list[i]
      BY <1>1, <1>2
    <3> QED BY <1>3, <1>4, <3>1
  <2>3. N + 1 \in K
    BY <1>1, <1>4
  <2> QED BY <2>1, <2>2, <2>3
<1>7. Cardinality(K) = Cardinality(M) + 1
  <2>1. N + 1 \notin M
    BY <1>1, <1>2
  <2> QED BY <1>2, <1>6, <2>1, FS_AddElement
<1>8. TurnsGrow(out, turn)
  <2>1. \A i \in 1 .. N : list[i].turn <= turn
    BY DEF BlocksShow, TurnsGrow, N
  <2>2. \A i \in 1 .. N + 1 : out[i].turn <= turn
    BY <1>1, <1>5, <2>1
  <2>3. \A i, k \in 1 .. N + 1 : i <= k => out[i].turn <= out[k].turn
    <3> SUFFICES ASSUME NEW i \in 1 .. N + 1, NEW k \in 1 .. N + 1, i <= k PROVE out[i].turn <= out[k].turn
      OBVIOUS
    <3>1. CASE k = N + 1
      BY <1>1, <2>2, <3>1
    <3>2. CASE k # N + 1
      <4>1. i \in 1 .. N /\ k \in 1 .. N
        BY <1>1, <3>2
      <4> QED BY <1>1, <4>1 DEF BlocksShow, TurnsGrow, N
    <3> QED BY <3>1, <3>2
  <2> QED BY <1>1, <2>2, <2>3 DEF TurnsGrow
<1>9. TextShown(out, turn, length + 1)
  <2>1. PICK ends \in [0 .. N -> Nat] :
          /\ \A i \in 0 .. N :
               /\ (\A k \in M : i < k) => ends[i] = 0
               /\ (\A k \in M : k <= i) => ends[i] = length
          /\ \A i \in 1 .. N :
               ends[i - 1] <= ends[i] /\ OwnText(list[i], turn) = Segment(ends[i - 1], ends[i])
    BY DEF BlocksShow, TextShown, N, M
  <2> DEFINE more == [i \in 0 .. N + 1 |-> IF i = N + 1 THEN length + 1 ELSE ends[i]]
  <2>2. more \in [0 .. N + 1 -> Nat] /\ more[N + 1] = length + 1 /\ \A i \in 0 .. N : more[i] = ends[i]
    BY <1>1
  <2> HIDE DEF more
  <2>3. ends[N] = length /\ N \in 0 .. N
    BY <1>1, <1>2, <2>1
  <2>4. ASSUME NEW i \in 0 .. N + 1
        PROVE  /\ (\A k \in K : i < k) => more[i] = 0
               /\ (\A k \in K : k <= i) => more[i] = length + 1
    <3>1. CASE i \in 0 .. N
      <4>1. ~ \A k \in K : k <= i
        <5>1. N + 1 \in K /\ ~ (N + 1 <= i)
          BY <1>1, <1>6, <3>1
        <5> QED BY <5>1
      <4>2. (\A k \in K : i < k) => \A k \in M : i < k
        BY <1>6
      <4> QED BY <2>1, <2>2, <3>1, <4>1, <4>2
    <3>2. CASE i = N + 1
      <4>1. ~ \A k \in K : i < k
        <5>1. N + 1 \in K /\ ~ (i < N + 1)
          BY <1>1, <1>6, <3>2
        <5> QED BY <5>1
      <4> QED BY <2>2, <3>2, <4>1
    <3> QED BY <1>1, <3>1, <3>2
  <2>5. ASSUME NEW i \in 1 .. N + 1
        PROVE  more[i - 1] <= more[i] /\ OwnText(out[i], turn) = Segment(more[i - 1], more[i])
    <3>1. CASE i \in 1 .. N
      <4>1. i - 1 \in 0 .. N /\ i \in 0 .. N
        BY <1>1, <3>1
      <4> QED BY <1>1, <2>1, <2>2, <3>1, <4>1
    <3>2. CASE i = N + 1
      <4>1. more[i - 1] = length /\ more[i] = length + 1
        BY <1>1, <2>2, <2>3, <3>2
      <4>2. OwnText(out[i], turn) = << length + 1 >>
        BY <1>1, <3>2 DEF OwnText
      <4> QED BY <4>1, <4>2, OneMore
    <3> QED BY <1>5, <3>1, <3>2
  <2> QED BY <1>1, <2>2, <2>4, <2>5 DEF TextShown, K
<1>10. \A i \in M : i \in 1 .. N /\ out[i] = list[i] /\ i # N + 1
  BY <1>1, <1>2
<1>11. IdsDiffer(out, turn)
  <2>1. /\ \A i \in M : list[i].id < Cardinality(M)
        /\ \A i, k \in M : list[i].id = list[k].id => i = k
    BY DEF BlocksShow, IdsDiffer, M
  <2>2. \A i \in M : list[i].id \in Nat
    BY MessagesAre DEF M, MessageItems
  <2>3. out[N + 1].id = Cardinality(M)
    BY <1>1 DEF M
  <2>4. \A i \in K : out[i].id < Cardinality(K)
    BY <1>2, <1>6, <1>7, <1>10, <2>1, <2>2, <2>3
  <2>5. \A i, k \in K : out[i].id = out[k].id => i = k
    <3>1. \A i \in M : out[i].id # Cardinality(M)
      BY <1>2, <1>10, <2>1, <2>2
    <3> QED BY <1>6, <1>10, <2>1, <2>3, <3>1
  <2> QED BY <2>4, <2>5 DEF IdsDiffer, K
<1>12. OpenIsNewest(out, turn)
  <2>1. \A i \in M : ~ out[i].streaming
    BY <1>10 DEF M
  <2>2. \A i, k \in K : out[i].streaming => k <= i
    <3> SUFFICES ASSUME NEW i \in K, NEW k \in K, out[i].streaming PROVE k <= i
      OBVIOUS
    <3>1. i = N + 1 /\ k \in 1 .. N + 1
      BY <1>4, <1>6, <2>1
    <3> QED BY <1>1, <3>1
  <2> QED BY <2>2 DEF OpenIsNewest, K
<1> QED BY <1>8, <1>9, <1>11, <1>12 DEF BlocksShow, out

\* The open block is the newest, and goes on.
LEMMA BlocksGoOn ==
  ASSUME NEW list \in Seq(TranscriptItems), NEW out \in Seq(TranscriptItems), NEW turn \in Nat,
         NEW length \in Nat, NEW b \in MessagesOf(list, turn),
         BlocksShow(list, turn, length), list[b].streaming, Len(out) = Len(list),
         \A i \in 1 .. Len(list) : i # b => out[i] = list[i],
         out[b] \in MessageItems, out[b].turn = turn, out[b].id = list[b].id,
         out[b].text = list[b].text \o << length + 1 >>
  PROVE  BlocksShow(out, turn, length + 1)
<1> DEFINE N == Len(list)
           M == MessagesOf(list, turn)
<1>1. /\ N \in Nat /\ M \subseteq 1 .. N /\ b \in 1 .. N /\ b \in M
      /\ list[b] \in MessageItems /\ list[b].turn = turn /\ list[b].kind = "message"
  BY MessagesAre
<1>2. out[b].kind = "message"
  BY DEF MessageItems
<1>3. \A i \in 1 .. N : out[i].kind = list[i].kind /\ out[i].turn = list[i].turn
  BY <1>1, <1>2
<1>4. MessagesOf(out, turn) = M
  BY <1>3 DEF MessagesOf
<1>5. \A k \in M : k <= b
  BY DEF BlocksShow, OpenIsNewest
<1> HIDE DEF N, M
<1>6. TurnsGrow(out, turn)
  <2>1. out # << >> => list # << >> /\ N \in 1 .. N
    BY DEF N
  <2> QED BY <1>3, <2>1 DEF BlocksShow, TurnsGrow, N
<1>7. TextShown(out, turn, length + 1)
  <2>1. PICK ends \in [0 .. N -> Nat] :
          /\ \A i \in 0 .. N :
               /\ (\A k \in M : i < k) => ends[i] = 0
               /\ (\A k \in M : k <= i) => ends[i] = length
          /\ \A i \in 1 .. N :
               ends[i - 1] <= ends[i] /\ OwnText(list[i], turn) = Segment(ends[i - 1], ends[i])
    BY DEF BlocksShow, TextShown, N, M
  <2> DEFINE more == [i \in 0 .. N |-> IF b <= i THEN length + 1 ELSE ends[i]]
  <2>2. more \in [0 .. N -> Nat] /\ \A i \in 0 .. N : more[i] = IF b <= i THEN length + 1 ELSE ends[i]
    OBVIOUS
  <2> HIDE DEF more
  <2>3. \A i \in 0 .. N : b <= i => ends[i] = length
    <3> SUFFICES ASSUME NEW i \in 0 .. N, b <= i PROVE ends[i] = length
      OBVIOUS
    <3>1. \A k \in M : k <= i
      BY <1>1, <1>5
    <3> QED BY <2>1, <3>1
  <2>4. ASSUME NEW i \in 0 .. N
        PROVE  /\ (\A k \in M : i < k) => more[i] = 0
               /\ (\A k \in M : k <= i) => more[i] = length + 1
    <3>1. CASE b <= i
      <4>1. ~ \A k \in M : i < k
        BY <1>1, <3>1
      <4> QED BY <2>2, <3>1, <4>1
    <3>2. CASE ~ (b <= i)
      <4>1. ~ \A k \in M : k <= i
        BY <1>1, <3>2
      <4> QED BY <2>1, <2>2, <3>2, <4>1
    <3> QED BY <3>1, <3>2
  <2>5. ASSUME NEW i \in 1 .. N
        PROVE  more[i - 1] <= more[i] /\ OwnText(out[i], turn) = Segment(more[i - 1], more[i])
    <3>0. i - 1 \in 0 .. N /\ i \in 0 .. N
      BY <1>1
    <3>1. i - 1 \in 0 .. N /\ i \in 0 .. N /\ ends[i - 1] \in Nat /\ ends[i] \in Nat
      BY <3>0
    <3>2. CASE i < b
      <4>1. ~ (b <= i) /\ ~ (b <= i - 1) /\ i # b
        BY <1>1, <3>2
      <4>2. out[i] = list[i]
        BY <4>1 DEF N
      <4> QED BY <2>1, <2>2, <3>1, <4>1, <4>2
    <3>3. CASE i = b
      <4>1. more[i] = length + 1 /\ more[i - 1] = ends[i - 1] /\ ends[i] = length
        BY <1>1, <2>2, <2>3, <3>1, <3>3
      <4>2. ends[i - 1] <= length /\ list[b].text = Segment(ends[i - 1], length)
        BY <1>1, <2>1, <3>3, <4>1 DEF OwnText
      <4>3. OwnText(out[i], turn) = list[b].text \o << length + 1 >>
        BY <1>2, <3>3 DEF OwnText
      <4>4. Segment(ends[i - 1], length) \o Segment(length, length + 1) = Segment(ends[i - 1], length + 1)
        <5>1. length + 1 \in Nat /\ length <= length + 1
          OBVIOUS
        <5>2. \A a \in Nat : a <= length =>
                Segment(a, length) \o Segment(length, length + 1) = Segment(a, length + 1)
          BY <5>1, SegmentsJoin
        <5> QED BY <3>1, <4>2, <5>2
      <4>5. OwnText(out[i], turn) = Segment(more[i - 1], more[i])
        BY <4>1, <4>2, <4>3, <4>4, OneMore
      <4>6. more[i - 1] <= more[i]
        BY <3>1, <4>1, <4>2
      <4> QED BY <4>5, <4>6
    <3>4. CASE i > b
      <4>1. b <= i /\ b <= i - 1 /\ i # b
        BY <1>1, <3>4
      <4>2. more[i] = length + 1 /\ more[i - 1] = length + 1 /\ ends[i] = length /\ ends[i - 1] = length
        BY <2>2, <2>3, <3>1, <4>1
      <4>3. out[i] = list[i]
        BY <4>1 DEF N
      <4>4. OwnText(out[i], turn) = Segment(length, length)
        BY <2>1, <4>2, <4>3
      <4>5. Segment(length, length) = << >> /\ Segment(length + 1, length + 1) = << >>
        BY DEF Segment
      <4> QED BY <4>2, <4>4, <4>5
    <3> QED BY <1>1, <3>2, <3>3, <3>4
  <2> QED BY <1>4, <2>2, <2>4, <2>5 DEF TextShown, N
<1>8. \A i \in M : out[i].id = list[i].id
  BY <1>1 DEF N
<1>9. IdsDiffer(out, turn)
  BY <1>4, <1>8 DEF BlocksShow, IdsDiffer, M
<1>10. OpenIsNewest(out, turn)
  <2>1. \A i, k \in M : list[i].streaming => k <= i
    BY DEF BlocksShow, OpenIsNewest, M
  <2>2. \A i, k \in M : out[i].streaming => k <= i
    BY <1>1, <1>5, <2>1 DEF N
  <2> QED BY <1>4, <2>2 DEF OpenIsNewest
<1> QED BY <1>6, <1>7, <1>9, <1>10 DEF BlocksShow

\* A new turn begins with the prompt.
LEMMA BlocksBegin ==
  ASSUME NEW list \in Seq(TranscriptItems), NEW x \in TranscriptItems, NEW turn \in Nat, NEW length,
         BlocksShow(list, turn, length), x.kind # "message", x.turn = turn + 1
  PROVE  BlocksShow(Append(list, x), turn + 1, 0)
<1>1. /\ Len(list) \in Nat /\ turn + 1 \in Nat
      /\ \A i \in 1 .. Len(list) : list[i].turn <= turn /\ list[i].turn \in Nat
  BY ItemFacts DEF BlocksShow, TurnsGrow
<1>2. \A i \in 1 .. Len(list) : list[i].turn <= turn + 1 /\ list[i].turn # turn + 1
  BY <1>1
<1> DEFINE out == Append(list, x)
           N == Len(list)
<1>3. N \in Nat /\ out \in Seq(TranscriptItems) /\ Len(out) = N + 1 /\ out[N + 1] = x /\ out # << >>
      /\ \A i \in 1 .. N : out[i] = list[i] /\ list[i] \in TranscriptItems
  BY AppendProperties
<1>4. \A i, k \in 1 .. N : i <= k => list[i].turn <= list[k].turn
  BY DEF BlocksShow, TurnsGrow
<1> HIDE DEF out, N
<1>5. \A i \in 1 .. N + 1 : i \in 1 .. N \/ i = N + 1
  BY <1>3
<1>6. MessagesOf(out, turn + 1) = {}
  <2> SUFFICES ASSUME NEW i \in MessagesOf(out, turn + 1) PROVE FALSE
    OBVIOUS
  <2>1. i \in 1 .. N + 1 /\ out[i].kind = "message" /\ out[i].turn = turn + 1
    BY <1>3 DEF MessagesOf
  <2> QED BY <1>2, <1>3, <1>5, <2>1 DEF N
<1>7. TurnsGrow(out, turn + 1)
  <2>1. \A i \in 1 .. N + 1 : out[i].turn <= turn + 1
    BY <1>1, <1>2, <1>3, <1>5 DEF N
  <2>2. \A i, k \in 1 .. N + 1 : i <= k => out[i].turn <= out[k].turn
    <3> SUFFICES ASSUME NEW i \in 1 .. N + 1, NEW k \in 1 .. N + 1, i <= k PROVE out[i].turn <= out[k].turn
      OBVIOUS
    <3>1. CASE k = N + 1
      BY <1>3, <2>1, <3>1
    <3>2. CASE k # N + 1
      <4>1. i \in 1 .. N /\ k \in 1 .. N
        BY <1>3, <3>2
      <4> QED BY <1>3, <1>4, <4>1
    <3> QED BY <3>1, <3>2
  <2> QED BY <1>3, <2>1, <2>2 DEF TurnsGrow
<1>8. TextShown(out, turn + 1, 0)
  <2> DEFINE ends == [i \in 0 .. N + 1 |-> 0]
  <2>1. \A i \in 1 .. N + 1 : i - 1 \in 0 .. N + 1 /\ i \in 0 .. N + 1
    BY <1>3
  <2>2. ends \in [0 .. N + 1 -> Nat] /\ \A i \in 0 .. N + 1 : ends[i] = 0
    OBVIOUS
  <2> HIDE DEF ends
  <2>3. Segment(0, 0) = << >>
    BY DEF Segment
  <2>4. \A i \in 1 .. N + 1 : OwnText(out[i], turn + 1) = << >>
    <3>1. \A i \in 1 .. N + 1 : i \notin MessagesOf(out, turn + 1)
      BY <1>6
    <3> QED BY <1>3, <3>1 DEF OwnText, MessagesOf
  <2>5. \A i \in 1 .. N + 1 :
          ends[i - 1] <= ends[i] /\ OwnText(out[i], turn + 1) = Segment(ends[i - 1], ends[i])
    BY <2>1, <2>2, <2>3, <2>4
  <2> QED BY <1>3, <2>2, <2>5 DEF TextShown
<1>9. IdsDiffer(out, turn + 1) /\ OpenIsNewest(out, turn + 1)
  BY <1>6 DEF IdsDiffer, OpenIsNewest
<1> QED BY <1>7, <1>8, <1>9 DEF BlocksShow, out

\* message.delta.
LEMMA DeltaIs ==
  ASSUME NEW list \in Seq(TranscriptItems), NEW turn \in Nat, NEW length \in Nat, NEW m,
         BlocksShow(list, turn, length), m.turn = turn, m.text = << length + 1 >>
  PROVE  LET out == FoldDelta(list, m) IN
         /\ out \in Seq(TranscriptItems) /\ BlocksShow(out, turn, length + 1)
         /\ \A i \in 1 .. Len(out) :
              (i \in 1 .. Len(list) /\ out[i] = list[i]) \/ (out[i].kind = "message" /\ out[i].turn = turn)
<1> DEFINE open == {i \in MessagesOf(list, m.turn) : list[i].streaming}
           out == FoldDelta(list, m)
<1>1. CASE open # {}
  <2> DEFINE b == Newest(open)
             x == [list[b] EXCEPT !.text = @ \o m.text]
  <2>1. b \in open
    <3>1. open \subseteq 1 .. Len(list) /\ Len(list) \in Nat
      BY MessagesAre
    <3>2. Newest(open) \in open
      <4> HIDE DEF open
      <4> QED BY <1>1, <3>1, NewestIs
    <3> QED BY <3>2
  <2>2. b \in MessagesOf(list, turn) /\ list[b].streaming /\ b \in 1 .. Len(list) /\ list[b] \in MessageItems
        /\ list[b].turn = turn
    BY <2>1, MessagesAre
  <2>3. out = [list EXCEPT ![b] = x]
    <3>1. out = [list EXCEPT ![Newest(open)].text = @ \o m.text]
      BY <1>1 DEF FoldDelta
    <3> QED BY <3>1
  <2>4. list[b].text \in Seq(Nat) /\ list[b].text \o << length + 1 >> \in Seq(Nat)
    <3>1. list[b].text \in Seq(Nat)
      BY <2>2 DEF MessageItems
    <3> QED BY <3>1, OneMore, ConcatProperties
  <2> HIDE DEF open, b, out
  <2>5. x \in MessageItems /\ x.turn = turn /\ x.id = list[b].id /\ x.text = list[b].text \o << length + 1 >>
    BY <2>2, <2>4 DEF MessageItems
  <2>6. x \in TranscriptItems /\ x.kind = "message"
    BY <2>5 DEF TranscriptItems, MessageItems
  <2> HIDE DEF x
  <2>7. /\ out \in Seq(TranscriptItems) /\ Len(out) = Len(list)
        /\ \A i \in 1 .. Len(list) : out[i] = IF i = b THEN x ELSE list[i]
    BY <2>2, <2>3, <2>6, ExceptSeq
  <2>8. out[b] = x /\ \A i \in 1 .. Len(list) : i # b => out[i] = list[i]
    BY <2>2, <2>7
  <2>9. BlocksShow(out, turn, length + 1)
    BY <2>2, <2>5, <2>7, <2>8, BlocksGoOn
  <2> QED BY <2>5, <2>6, <2>7, <2>8, <2>9 DEF out
<1>2. CASE open = {}
  <2> DEFINE x == NewMessage(list, turn, m.text, TRUE)
  <2>1. out = Append(list, x)
    BY <1>2 DEF FoldDelta
  <2>2. \A i \in MessagesOf(list, turn) : ~ list[i].streaming
    BY <1>2
  <2>3. Cardinality(MessagesOf(list, turn)) \in Nat
    BY MessagesAre
  <2>4. x \in MessageItems /\ x.turn = turn /\ x.text = << length + 1 >> /\ x.kind = "message"
        /\ x.id = Cardinality(MessagesOf(list, turn))
    BY <2>3, OneMore DEF NewMessage, MessageItems
  <2>5. x \in TranscriptItems
    BY <2>4 DEF TranscriptItems
  <2> HIDE DEF open, x, out
  <2>6. BlocksShow(out, turn, length + 1)
    BY <2>1, <2>2, <2>4, BlocksSay
  <2>7. /\ out \in Seq(TranscriptItems) /\ Len(out) = Len(list) + 1 /\ out[Len(list) + 1] = x
        /\ \A i \in 1 .. Len(list) : out[i] = list[i]
    BY <2>1, <2>5, AppendProperties
  <2>8. \A i \in 1 .. Len(out) : i \in 1 .. Len(list) \/ i = Len(list) + 1
    BY <2>7
  <2> QED BY <2>4, <2>6, <2>7, <2>8 DEF out
<1> QED BY <1>1, <1>2

\* message.end, with the text of the whole turn.
LEMMA EndIs ==
  ASSUME NEW list \in Seq(TranscriptItems), NEW turn \in Nat, NEW length \in Nat, NEW m,
         BlocksShow(list, turn, length), length # 0, m.turn = turn, m.text = Segment(0, length)
  PROVE  LET out == FoldEnd(list, m) IN
         /\ out \in Seq(TranscriptItems) /\ Len(out) = Len(list)
         /\ \A i \in 1 .. Len(list) :
              /\ Quieter(list[i], out[i])
              /\ out[i] = list[i] \/ (out[i].kind = "message" /\ ~ out[i].streaming)
<1> DEFINE N == Len(list)
           M == MessagesOf(list, turn)
           b == Newest(M)
           x == [list[b] EXCEPT !.streaming = FALSE, !.text = IF Cardinality(M) = 1 THEN m.text ELSE @]
           out == FoldEnd(list, m)
<1>1. N \in Nat /\ M \subseteq 1 .. N /\ IsFiniteSet(M)
  BY MessagesAre
<1>2. PICK ends \in [0 .. N -> Nat] :
        /\ \A i \in 0 .. N :
             /\ (\A k \in M : i < k) => ends[i] = 0
             /\ (\A k \in M : k <= i) => ends[i] = length
        /\ \A i \in 1 .. N :
             ends[i - 1] <= ends[i] /\ OwnText(list[i], turn) = Segment(ends[i - 1], ends[i])
  BY DEF BlocksShow, TextShown
<1>3. M # {}
  <2> SUFFICES ASSUME M = {} PROVE FALSE
    OBVIOUS
  <2>1. ends[0] = 0 /\ ends[0] = length
    <3>1. 0 \in 0 .. N /\ (\A k \in M : 0 < k) /\ (\A k \in M : k <= 0)
      BY <1>1
    <3> HIDE DEF M, N
    <3> QED BY <1>2, <3>1
  <2> QED BY <2>1
<1>4. b \in M /\ \A k \in M : k <= b
  <2> HIDE DEF M, N
  <2> QED BY <1>1, <1>3, NewestIs
<1>5. list[b] \in MessageItems /\ list[b].turn = turn /\ list[b].kind = "message" /\ b \in 1 .. N
  BY <1>1, <1>4, MessagesAre
<1>6. out = [list EXCEPT ![b] = x]
  <2>1. out = [list EXCEPT ![Newest(M)].streaming = FALSE,
                           ![Newest(M)].text = IF Cardinality(M) = 1 THEN m.text ELSE @]
    BY <1>3 DEF FoldEnd
  <2> HIDE DEF M, out
  <2> QED BY <1>5, <2>1
<1> HIDE DEF M, b, out
<1>7. Cardinality(M) = 1 => m.text = list[b].text
  <2> SUFFICES ASSUME Cardinality(M) = 1 PROVE m.text = list[b].text
    OBVIOUS
  <2>1. M = {b}
    BY <1>1, <1>4, FS_Singleton
  <2>2. b - 1 \in 0 .. N /\ b \in 0 .. N /\ (\A k \in M : b - 1 < k) /\ (\A k \in M : k <= b)
    BY <1>5, <2>1
  <2>3. ends[b - 1] = 0 /\ ends[b] = length
    BY <1>2, <2>2
  <2>4. OwnText(list[b], turn) = list[b].text
    BY <1>5 DEF OwnText
  <2> QED BY <1>2, <1>5, <2>3, <2>4
<1>8. x \in MessageItems /\ x.turn = turn /\ x.id = list[b].id /\ x.text = list[b].text /\ ~ x.streaming
  BY <1>5, <1>7 DEF MessageItems
<1>9. x \in TranscriptItems /\ x.kind = "message"
  BY <1>8 DEF TranscriptItems, MessageItems
<1> HIDE DEF x
<1>10. Quieter(list[b], x)
  BY <1>5, <1>8, <1>9 DEF Quieter
<1>11. /\ out \in Seq(TranscriptItems) /\ Len(out) = N
       /\ \A i \in 1 .. N : out[i] = IF i = b THEN x ELSE list[i]
  BY <1>5, <1>6, <1>9, ExceptSeq
<1>12. \A i \in 1 .. N : list[i] \in TranscriptItems
  OBVIOUS
<1>13. \A i \in 1 .. N : /\ Quieter(list[i], out[i])
                         /\ out[i] = list[i] \/ (out[i].kind = "message" /\ ~ out[i].streaming)
  BY <1>8, <1>9, <1>10, <1>11, <1>12, QuieterSelf
<1> QED BY <1>11, <1>13 DEF out

-----------------------------------------------------------------------------
\* What the host holds of its session, and what an item says of it.

Accounts ==
  [number : Nat, live : BOOLEAN, end : {"none", "complete", "cancelled"},
   verdict : [Tools -> Settlements \cup {"none", "pending"}],
   status : [Tools -> {"none", "pending", "done", "interrupted"}],
   block : Nat, length : Nat, clicked : SUBSET Tools]

CardOk(x, c) ==
  LET v == c.verdict[x.tool] IN
  /\ v # "none"
  /\ v = "pending" => (x.settled = "none" /\ x.resolved = "none") \/ x.tool \in c.clicked
  /\ v \in {"allow", "deny"} => x.settled = "selected" /\ x.resolved = v
  /\ v \in {"cancelled", "expired", "superseded"} => x.settled = v /\ x.resolved = "none"

ToolOk(x, c) ==
  LET v == c.verdict[x.tool] IN
  /\ x.tool \in Edits =>
       v # "none" /\ x.status = IF v = "pending" THEN "pending" ELSE ToolStatusOf(v)
  /\ x.tool \notin Edits /\ x.turn = c.number =>
       c.status[x.tool] # "none" /\ (c.status[x.tool] = "done" => x.status = "done")

StreamOk(x, c) ==
  /\ x.kind = "message" /\ x.streaming => c.live
  /\ x.kind = "reasoning" /\ x.streaming => c.live /\ c.block # 0 /\ x.block = c.block

ItemOk(x, c) ==
  /\ 1 <= x.turn /\ StreamOk(x, c)
  /\ x.kind = "approval" => CardOk(x, c)
  /\ x.kind = "tool" => ToolOk(x, c)
  /\ ~ c.live /\ c.end # "complete" => ~ OpenItem(x)

Shows(list, c) ==
  /\ list \in Seq(TranscriptItems) /\ BlocksShow(list, c.number, c.length)
  /\ \A i \in 1 .. Len(list) : ItemOk(list[i], c)

LEMMA AccountFacts ==
  ASSUME NEW c \in Accounts
  PROVE  /\ c.number \in Nat /\ c.live \in BOOLEAN /\ c.block \in Nat /\ c.length \in Nat
         /\ c.end \in {"none", "complete", "cancelled"}
         /\ c.verdict \in [Tools -> Settlements \cup {"none", "pending"}]
         /\ c.status \in [Tools -> {"none", "pending", "done", "interrupted"}]
         /\ c.clicked \subseteq Tools
BY DEF Accounts

LEMMA ShowsAll ==
  ASSUME NEW c \in Accounts, NEW d \in Accounts, NEW list, NEW out \in Seq(TranscriptItems),
         Shows(list, c), d.number = c.number, d.length = c.length, Len(out) = Len(list),
         \A i \in 1 .. Len(list) : Quieter(list[i], out[i]) /\ ItemOk(out[i], d)
  PROVE  Shows(out, d)
<1>1. list \in Seq(TranscriptItems) /\ BlocksShow(list, c.number, c.length) /\ c.number \in Nat
  BY AccountFacts DEF Shows
<1>2. BlocksShow(out, c.number, c.length)
  BY <1>1, BlocksMap
<1> QED BY <1>2 DEF Shows

LEMMA ShowsMore ==
  ASSUME NEW c \in Accounts, NEW list, NEW x \in TranscriptItems,
         Shows(list, c), x.kind # "message", x.turn = c.number, ItemOk(x, c)
  PROVE  Shows(Append(list, x), c)
<1>1. list \in Seq(TranscriptItems) /\ BlocksShow(list, c.number, c.length) /\ c.number \in Nat
      /\ \A i \in 1 .. Len(list) : ItemOk(list[i], c)
  BY AccountFacts DEF Shows
<1>2. BlocksShow(Append(list, x), c.number, c.length)
  BY <1>1, BlocksAppend
<1>3. /\ Append(list, x) \in Seq(TranscriptItems) /\ Len(Append(list, x)) = Len(list) + 1
      /\ Append(list, x)[Len(list) + 1] = x /\ \A i \in 1 .. Len(list) : Append(list, x)[i] = list[i]
  BY <1>1, AppendProperties
<1>4. \A i \in 1 .. Len(list) + 1 : i \in 1 .. Len(list) \/ i = Len(list) + 1
  BY <1>1
<1>5. \A i \in 1 .. Len(list) + 1 : ItemOk(Append(list, x)[i], c)
  BY <1>1, <1>3, <1>4
<1> QED BY <1>2, <1>3, <1>5 DEF Shows

LEMMA ShowsCap ==
  ASSUME NEW c \in Accounts, NEW list, Shows(list, c)
  PROVE  Shows(Capped(list), c)
<1>1. list \in Seq(TranscriptItems) /\ BlocksShow(list, c.number, c.length) /\ c.number \in Nat
      /\ \A i \in 1 .. Len(list) : ItemOk(list[i], c)
  BY AccountFacts DEF Shows
<1>2. /\ Capped(list) \in Seq(TranscriptItems) /\ BlocksShow(Capped(list), c.number, c.length)
      /\ \A i \in 1 .. Len(Capped(list)) : \E k \in 1 .. Len(list) : Capped(list)[i] = list[k]
  BY <1>1, BlocksCap
<1>3. \A i \in 1 .. Len(Capped(list)) : ItemOk(Capped(list)[i], c)
  BY <1>1, <1>2
<1> QED BY <1>2, <1>3 DEF Shows

\* A change of what the host holds that every item allows.
LEMMA ShowsStill ==
  ASSUME NEW c \in Accounts, NEW d \in Accounts, NEW list, Shows(list, c),
         d.number = c.number, d.length = c.length,
         \A x \in TranscriptItems : x.turn <= c.number /\ ItemOk(x, c) => ItemOk(x, d)
  PROVE  Shows(list, d)
<1>1. list \in Seq(TranscriptItems) /\ \A i \in 1 .. Len(list) : ItemOk(list[i], c)
  BY DEF Shows
<1>2. \A i \in 1 .. Len(list) : list[i] \in TranscriptItems /\ list[i].turn <= c.number
  BY <1>1 DEF Shows, BlocksShow, TurnsGrow
<1>3. \A i \in 1 .. Len(list) : Quieter(list[i], list[i]) /\ ItemOk(list[i], d)
  BY <1>1, <1>2, QuieterSelf
<1> QED BY <1>1, <1>3, ShowsAll

LEMMA SilencedOk ==
  ASSUME NEW c, NEW x \in TranscriptItems, x.kind \in {"message", "reasoning"}, 1 <= x.turn
  PROVE  Silenced(x) \in TranscriptItems /\ Quieter(x, Silenced(x)) /\ ItemOk(Silenced(x), c)
<1>1. Silenced(x) \in TranscriptItems /\ Quieter(x, Silenced(x)) /\ ~ Silenced(x).streaming
  BY SilencedIs
<1>2. Silenced(x).kind = x.kind /\ Silenced(x).turn = x.turn
  BY <1>1 DEF Quieter
<1> QED BY <1>1, <1>2 DEF ItemOk, StreamOk, OpenItem, Streams

\* closeOpenMessages.
LEMMA ShowsClosed ==
  ASSUME NEW c \in Accounts, NEW list, Shows(list, c)
  PROVE  Shows(CloseOpenMessages(list), c)
<1> DEFINE F(i) == IF list[i].kind = "message" /\ list[i].streaming THEN Silenced(list[i]) ELSE list[i]
           out == [i \in 1 .. Len(list) |-> F(i)]
<1>1. list \in Seq(TranscriptItems) /\ Len(list) \in Nat
      /\ \A i \in 1 .. Len(list) : list[i] \in TranscriptItems /\ ItemOk(list[i], c)
  BY DEF Shows
<1>2. CloseOpenMessages(list) = out
  BY <1>1 DEF CloseOpenMessages, Mapped
<1>3. \A i \in 1 .. Len(list) : F(i) \in TranscriptItems /\ Quieter(list[i], F(i)) /\ ItemOk(F(i), c)
  BY <1>1, QuieterSelf, SilencedOk DEF ItemOk
<1> HIDE DEF F
<1>4. out \in Seq(TranscriptItems) /\ Len(out) = Len(list) /\ \A i \in 1 .. Len(list) : out[i] = F(i)
  BY <1>1, <1>3
<1>5. Shows(out, c)
  <2> HIDE DEF out
  <2> QED BY <1>3, <1>4, ShowsAll
<1> QED BY <1>2, <1>5

-----------------------------------------------------------------------------
\* What the host may post, and what it holds then.

Begins(m, c, d) ==
  /\ m.type = "user" /\ m.turn = c.number + 1 /\ ~ c.live
  /\ d.number = c.number + 1 /\ d.live /\ d.length = 0
  /\ d.verdict = c.verdict /\ d.clicked = c.clicked

AddsPlain(m, c, d) == m.type \in {"user", "result.summary"} /\ d = c
Thinks(m, c, d) == m.type = "reasoning.start" /\ c.live /\ c.block # 0 /\ m.block = c.block /\ d = c
StopsThinking(m, c, d) ==
  m.type = "reasoning.end" /\ m.block = c.block /\ d = [c EXCEPT !.block = 0]
Says(m, c, d) ==
  /\ m.type = "message.delta" /\ c.live /\ m.text = << c.length + 1 >>
  /\ d = [c EXCEPT !.length = @ + 1]
SaidAll(m, c, d) ==
  m.type = "message.end" /\ c.length # 0 /\ m.text = Segment(0, c.length) /\ d = c
StartsTool(m, c, d) ==
  /\ m.type = "tool.start" /\ c.live /\ d = c
  /\ IF m.tool \in Edits THEN c.verdict[m.tool] = "pending" /\ m.status = "pending"
     ELSE c.status[m.tool] = m.status
UpdatesTool(m, c, d) ==
  /\ m.type = "tool.update" /\ c.live /\ m.tool \notin Edits
  /\ d = [c EXCEPT !.status = [@ EXCEPT ![m.tool] = m.status]]
Asks(m, c, d) ==
  m.type = "approval.request" /\ c.live /\ c.verdict[m.tool] = "pending" /\ d = c
Settles(m, c, d) ==
  /\ m.type = "approval.settle" /\ c.verdict[m.tool] = "pending"
  /\ d = [c EXCEPT !.verdict = [@ EXCEPT ![m.tool] = m.status]]
Plans(m, c, d) == m.type = "plan.update" /\ c.live /\ d = c
EndsIt(m, c, d) ==
  /\ m.type = "turn.end" /\ (m.status = "complete" => c.block = 0)
  /\ \A t \in Tools : c.verdict[t] # "pending"
  /\ d = [c EXCEPT !.live = FALSE, !.end = m.status]

Legal(m, c, d) ==
  \/ Begins(m, c, d)
  \/ /\ m.turn = c.number /\ 1 <= c.number
     /\ \/ AddsPlain(m, c, d) \/ Thinks(m, c, d) \/ StopsThinking(m, c, d)
        \/ Says(m, c, d) \/ SaidAll(m, c, d)
        \/ StartsTool(m, c, d) \/ UpdatesTool(m, c, d) \/ Asks(m, c, d) \/ Settles(m, c, d)
        \/ Plans(m, c, d) \/ EndsIt(m, c, d)

LEMMA BeginsKeeps ==
  ASSUME NEW c \in Accounts, NEW d \in Accounts, NEW m \in HostPosts, NEW list,
         Shows(list, c), Begins(m, c, d)
  PROVE  Shows(Folded(list, m), d)
<1> DEFINE x == [kind |-> "user", turn |-> m.turn]
<1>1. Folded(list, m) = Append(list, x)
  BY DEF Folded, Begins
<1>2. c.number \in Nat /\ m.turn = c.number + 1 /\ d.number = c.number + 1 /\ ~ c.live /\ d.live /\ d.length = 0
      /\ d.verdict = c.verdict /\ d.clicked = c.clicked
  BY AccountFacts DEF Begins
<1>3. x \in TranscriptItems /\ x.kind = "user" /\ x.turn = c.number + 1 /\ 1 <= x.turn
  BY <1>2 DEF TranscriptItems, PlainItems
<1> HIDE DEF x
<1>4. list \in Seq(TranscriptItems) /\ BlocksShow(list, c.number, c.length)
      /\ \A i \in 1 .. Len(list) : list[i] \in TranscriptItems /\ ItemOk(list[i], c) /\ list[i].turn <= c.number
  BY DEF Shows, BlocksShow, TurnsGrow
<1>5. BlocksShow(Append(list, x), d.number, d.length)
  <2>1. BlocksShow(Append(list, x), c.number + 1, 0)
    BY <1>2, <1>3, <1>4, BlocksBegin
  <2> QED BY <1>2, <2>1
<1>6. ASSUME NEW y \in TranscriptItems, ItemOk(y, c), y.turn <= c.number PROVE ItemOk(y, d)
  <2>1. y.turn \in Nat /\ y.turn # d.number
    BY <1>2, <1>6, ItemFacts
  <2>2. StreamOk(y, d)
    BY <1>2, <1>6 DEF ItemOk, StreamOk
  <2>3. y.kind = "approval" => CardOk(y, d)
    BY <1>2, <1>6 DEF ItemOk, CardOk
  <2>4. y.kind = "tool" => ToolOk(y, d)
    BY <1>2, <1>6, <2>1 DEF ItemOk, ToolOk
  <2> QED BY <1>2, <1>6, <2>2, <2>3, <2>4 DEF ItemOk
<1>7. ItemOk(x, d)
  BY <1>2, <1>3 DEF ItemOk, StreamOk
<1>8. /\ Append(list, x) \in Seq(TranscriptItems) /\ Len(Append(list, x)) = Len(list) + 1
      /\ Append(list, x)[Len(list) + 1] = x /\ \A i \in 1 .. Len(list) : Append(list, x)[i] = list[i]
  BY <1>3, <1>4, AppendProperties
<1>9. \A i \in 1 .. Len(list) + 1 : i \in 1 .. Len(list) \/ i = Len(list) + 1
  BY <1>4
<1>10. \A i \in 1 .. Len(list) + 1 : ItemOk(Append(list, x)[i], d)
  BY <1>4, <1>6, <1>7, <1>8, <1>9
<1> QED BY <1>1, <1>5, <1>8, <1>10 DEF Shows

LEMMA AddsPlainKeeps ==
  ASSUME NEW c \in Accounts, NEW m \in HostPosts, NEW list,
         Shows(list, c), m.turn = c.number, 1 <= c.number, m.type \in {"user", "result.summary"}
  PROVE  Shows(Folded(list, m), c)
<1>1. CASE m.type = "user"
  <2> DEFINE x == [kind |-> "user", turn |-> m.turn]
  <2>1. Folded(list, m) = Append(list, x)
    BY <1>1 DEF Folded
  <2>2. x \in TranscriptItems /\ x.kind = "user" /\ x.turn = c.number
    BY AccountFacts DEF TranscriptItems, PlainItems
  <2> HIDE DEF x
  <2>3. ItemOk(x, c)
    BY <2>2 DEF ItemOk, StreamOk, OpenItem, Streams
  <2> QED BY <2>1, <2>2, <2>3, ShowsMore
<1>2. CASE m.type = "result.summary"
  <2> DEFINE x == [kind |-> "result", turn |-> m.turn]
  <2>1. Folded(list, m) = Append(CloseOpenMessages(list), x)
    BY <1>2 DEF Folded
  <2>2. x \in TranscriptItems /\ x.kind = "result" /\ x.turn = c.number
    BY AccountFacts DEF TranscriptItems, PlainItems
  <2> HIDE DEF x
  <2>3. ItemOk(x, c)
    BY <2>2 DEF ItemOk, StreamOk, OpenItem, Streams
  <2> QED BY <2>1, <2>2, <2>3, ShowsMore, ShowsClosed
<1> QED BY <1>1, <1>2

LEMMA ThinksKeeps ==
  ASSUME NEW c \in Accounts, NEW d \in Accounts, NEW m \in HostPosts, NEW list,
         Shows(list, c), m.turn = c.number, 1 <= c.number, Thinks(m, c, d)
  PROVE  Shows(Folded(list, m), d)
<1> DEFINE x == [kind |-> "reasoning", turn |-> m.turn, block |-> m.block, streaming |-> TRUE]
<1>1. Folded(list, m) = Append(CloseOpenMessages(list), x)
  BY DEF Folded, Thinks
<1>2. x \in TranscriptItems /\ x.kind = "reasoning" /\ x.turn = c.number /\ x.block = c.block
  BY AccountFacts DEF TranscriptItems, ReasoningItems, Thinks
<1> HIDE DEF x
<1>3. ItemOk(x, c)
  BY <1>2 DEF ItemOk, StreamOk, Thinks
<1>4. Shows(Append(CloseOpenMessages(list), x), c)
  BY <1>2, <1>3, ShowsMore, ShowsClosed
<1> QED BY <1>1, <1>4 DEF Thinks

LEMMA StopsThinkingKeeps ==
  ASSUME NEW c \in Accounts, NEW d \in Accounts, NEW m \in HostPosts, NEW list,
         Shows(list, c), m.turn = c.number, 1 <= c.number, StopsThinking(m, c, d)
  PROVE  Shows(Folded(list, m), d)
<1> DEFINE F(i) == IF list[i].kind = "reasoning" /\ list[i].block = m.block THEN Silenced(list[i]) ELSE list[i]
           out == [i \in 1 .. Len(list) |-> F(i)]
<1>1. list \in Seq(TranscriptItems) /\ Len(list) \in Nat
      /\ \A i \in 1 .. Len(list) : list[i] \in TranscriptItems /\ ItemOk(list[i], c)
  BY DEF Shows
<1>2. Folded(list, m) = out
  BY <1>1 DEF Folded, Mapped, StopsThinking
<1>3. /\ d.number = c.number /\ d.length = c.length /\ d.live = c.live /\ d.end = c.end
      /\ d.verdict = c.verdict /\ d.status = c.status /\ d.clicked = c.clicked /\ m.block = c.block
  BY DEF Accounts, StopsThinking
<1>4. ASSUME NEW y \in TranscriptItems, ItemOk(y, c), ~ (y.kind = "reasoning" /\ y.block = m.block)
      PROVE  ItemOk(y, d)
  <2>1. StreamOk(y, d)
    BY <1>3, <1>4 DEF ItemOk, StreamOk
  <2>2. y.kind = "approval" => CardOk(y, d)
    BY <1>3, <1>4 DEF ItemOk, CardOk
  <2>3. y.kind = "tool" => ToolOk(y, d)
    BY <1>3, <1>4 DEF ItemOk, ToolOk
  <2> QED BY <1>3, <1>4, <2>1, <2>2, <2>3 DEF ItemOk
<1>5. ASSUME NEW i \in 1 .. Len(list)
      PROVE  F(i) \in TranscriptItems /\ Quieter(list[i], F(i)) /\ ItemOk(F(i), d)
  <2>1. CASE list[i].kind = "reasoning" /\ list[i].block = m.block
    BY <1>1, <2>1, SilencedOk DEF ItemOk
  <2>2. CASE ~ (list[i].kind = "reasoning" /\ list[i].block = m.block)
    BY <1>1, <1>4, <2>2, QuieterSelf
  <2> QED BY <2>1, <2>2
<1> HIDE DEF F
<1>6. out \in Seq(TranscriptItems) /\ Len(out) = Len(list) /\ \A i \in 1 .. Len(list) : out[i] = F(i)
  BY <1>1, <1>5
<1>7. Shows(out, d)
  <2> HIDE DEF out
  <2>1. \A i \in 1 .. Len(list) : Quieter(list[i], out[i]) /\ ItemOk(out[i], d)
    BY <1>5, <1>6
  <2> QED BY <1>3, <1>6, <2>1, ShowsAll
<1> QED BY <1>2, <1>7

LEMMA SaysKeeps ==
  ASSUME NEW c \in Accounts, NEW d \in Accounts, NEW m \in HostPosts, NEW list,
         Shows(list, c), m.turn = c.number, 1 <= c.number, Says(m, c, d)
  PROVE  Shows(Folded(list, m), d)
<1> DEFINE out == FoldDelta(list, m)
<1>1. list \in Seq(TranscriptItems) /\ BlocksShow(list, c.number, c.length)
      /\ \A i \in 1 .. Len(list) : list[i] \in TranscriptItems /\ ItemOk(list[i], c)
  BY DEF Shows
<1>2. Folded(list, m) = out
  BY DEF Folded, Says
<1>3. /\ d.number = c.number /\ d.length = c.length + 1 /\ d.live = c.live /\ d.end = c.end
      /\ d.verdict = c.verdict /\ d.status = c.status /\ d.clicked = c.clicked /\ d.block = c.block
      /\ c.live
  BY DEF Accounts, Says
<1>4. /\ out \in Seq(TranscriptItems) /\ BlocksShow(out, c.number, c.length + 1)
      /\ \A i \in 1 .. Len(out) :
           (i \in 1 .. Len(list) /\ out[i] = list[i]) \/ (out[i].kind = "message" /\ out[i].turn = c.number)
  BY <1>1, AccountFacts, DeltaIs DEF Says
<1> HIDE DEF out
<1>5. ASSUME NEW y \in TranscriptItems, ItemOk(y, c) PROVE ItemOk(y, d)
  <2>1. StreamOk(y, d)
    BY <1>3, <1>5 DEF ItemOk, StreamOk
  <2>2. y.kind = "approval" => CardOk(y, d)
    BY <1>3, <1>5 DEF ItemOk, CardOk
  <2>3. y.kind = "tool" => ToolOk(y, d)
    BY <1>3, <1>5 DEF ItemOk, ToolOk
  <2> QED BY <1>3, <1>5, <2>1, <2>2, <2>3 DEF ItemOk
<1>6. ASSUME NEW y \in TranscriptItems, y.kind = "message", y.turn = c.number PROVE ItemOk(y, d)
  BY <1>3, <1>6 DEF ItemOk, StreamOk
<1>7. \A i \in 1 .. Len(out) : ItemOk(out[i], d)
  BY <1>1, <1>4, <1>5, <1>6
<1> QED BY <1>2, <1>3, <1>4, <1>7 DEF Shows

LEMMA SaidAllKeeps ==
  ASSUME NEW c \in Accounts, NEW d \in Accounts, NEW m \in HostPosts, NEW list,
         Shows(list, c), m.turn = c.number, 1 <= c.number, SaidAll(m, c, d)
  PROVE  Shows(Folded(list, m), d)
<1> DEFINE out == FoldEnd(list, m)
<1>1. list \in Seq(TranscriptItems) /\ BlocksShow(list, c.number, c.length)
      /\ \A i \in 1 .. Len(list) : list[i] \in TranscriptItems /\ ItemOk(list[i], c)
  BY DEF Shows
<1>2. Folded(list, m) = out
  BY DEF Folded, SaidAll
<1>3. /\ out \in Seq(TranscriptItems) /\ Len(out) = Len(list)
      /\ \A i \in 1 .. Len(list) :
           /\ Quieter(list[i], out[i])
           /\ out[i] = list[i] \/ (out[i].kind = "message" /\ ~ out[i].streaming)
  BY <1>1, AccountFacts, EndIs DEF SaidAll
<1> HIDE DEF out
<1>4. ASSUME NEW x, NEW y \in TranscriptItems, ItemOk(x, c), y.turn = x.turn, y.kind = "message", ~ y.streaming
      PROVE  ItemOk(y, c)
  BY <1>4 DEF ItemOk, StreamOk, OpenItem, Streams
<1>5. \A i \in 1 .. Len(list) : ItemOk(out[i], c)
  <2> SUFFICES ASSUME NEW i \in 1 .. Len(list) PROVE ItemOk(out[i], c)
    OBVIOUS
  <2>1. out[i] \in TranscriptItems /\ out[i].turn = list[i].turn
    BY <1>3 DEF Quieter
  <2> QED BY <1>1, <1>3, <1>4, <2>1
<1>6. Shows(out, c)
  BY <1>3, <1>5, ShowsAll
<1> QED BY <1>2, <1>6 DEF SaidAll

LEMMA StartsToolKeeps ==
  ASSUME NEW c \in Accounts, NEW d \in Accounts, NEW m \in HostPosts, NEW list,
         Shows(list, c), m.turn = c.number, 1 <= c.number, StartsTool(m, c, d)
  PROVE  Shows(Folded(list, m), d)
<1> DEFINE x == [kind |-> "tool", turn |-> m.turn, tool |-> m.tool, status |-> m.status, hunks |-> 0]
<1>1. Folded(list, m) = list \/ Folded(list, m) = Append(CloseOpenMessages(list), x)
  BY DEF Folded, FoldToolStart, StartsTool
<1>2. m \in ToolPosts
  BY PostFacts DEF StartsTool
<1>3. m.tool \in Tools /\ m.status \in {"pending", "done", "interrupted"} /\ m.turn \in Nat
  BY <1>2 DEF ToolPosts
<1>4. x \in TranscriptItems /\ x.kind = "tool" /\ x.turn = c.number /\ x.tool = m.tool /\ x.status = m.status
  BY <1>3 DEF TranscriptItems, ToolItems, ToolStatuses
<1> HIDE DEF x
<1>5. ToolOk(x, c)
  BY <1>3, <1>4 DEF ToolOk, StartsTool
<1>6. ItemOk(x, c)
  BY <1>4, <1>5 DEF ItemOk, StreamOk, StartsTool
<1>7. Shows(Append(CloseOpenMessages(list), x), c)
  BY <1>4, <1>6, ShowsMore, ShowsClosed
<1> QED BY <1>1, <1>7 DEF StartsTool

LEMMA AsksKeeps ==
  ASSUME NEW c \in Accounts, NEW d \in Accounts, NEW m \in HostPosts, NEW list,
         Shows(list, c), m.turn = c.number, 1 <= c.number, Asks(m, c, d)
  PROVE  Shows(Folded(list, m), d)
<1> DEFINE x == [kind |-> "approval", turn |-> m.turn, tool |-> m.tool, settled |-> "none", resolved |-> "none"]
<1>1. Folded(list, m) = Append(CloseOpenMessages(list), x)
  BY DEF Folded, FoldRequest, Asks
<1>2. m \in ToolPosts
  BY PostFacts DEF Asks
<1>3. m.tool \in Tools /\ m.turn \in Nat
  BY <1>2 DEF ToolPosts
<1>4. x \in TranscriptItems /\ x.kind = "approval" /\ x.turn = c.number /\ x.tool = m.tool
      /\ x.settled = "none" /\ x.resolved = "none"
  BY <1>3 DEF TranscriptItems, ApprovalItems
<1> HIDE DEF x
<1>5. CardOk(x, c)
  BY <1>4 DEF CardOk, Asks
<1>6. ItemOk(x, c)
  BY <1>4, <1>5 DEF ItemOk, StreamOk, Asks
<1>7. Shows(Append(CloseOpenMessages(list), x), c)
  BY <1>4, <1>6, ShowsMore, ShowsClosed
<1> QED BY <1>1, <1>7 DEF Asks

LEMMA UpdatesToolKeeps ==
  ASSUME NEW c \in Accounts, NEW d \in Accounts, NEW m \in HostPosts, NEW list,
         Shows(list, c), m.turn = c.number, 1 <= c.number, UpdatesTool(m, c, d)
  PROVE  Shows(Folded(list, m), d)
<1> DEFINE of(x) == x.kind = "tool" /\ x.tool = m.tool
           F(i) == IF of(list[i]) THEN [list[i] EXCEPT !.status = m.status] ELSE list[i]
           out == [i \in 1 .. Len(list) |-> F(i)]
<1>1. list \in Seq(TranscriptItems) /\ Len(list) \in Nat
      /\ \A i \in 1 .. Len(list) : list[i] \in TranscriptItems /\ ItemOk(list[i], c)
  BY DEF Shows
<1>2. Folded(list, m) = out
  BY <1>1 DEF Folded, FoldToolUpdate, Mapped, UpdatesTool
<1>3. m \in ToolPosts
  BY PostFacts DEF UpdatesTool
<1>4. m.tool \in Tools \ Edits /\ m.status \in {"pending", "done", "interrupted"}
  BY <1>3 DEF ToolPosts, UpdatesTool
<1>5. /\ d.number = c.number /\ d.length = c.length /\ d.live = c.live /\ d.end = c.end /\ d.block = c.block
      /\ d.verdict = c.verdict /\ d.clicked = c.clicked /\ c.live
      /\ d.status[m.tool] = m.status /\ \A t \in Tools : t # m.tool => d.status[t] = c.status[t]
  <2>1. c.status \in [Tools -> {"none", "pending", "done", "interrupted"}]
    BY AccountFacts
  <2>2. d.status = [c.status EXCEPT ![m.tool] = m.status]
    BY DEF Accounts, UpdatesTool
  <2>3. d.status[m.tool] = m.status /\ \A t \in Tools : t # m.tool => d.status[t] = c.status[t]
    BY <1>4, <2>1, <2>2
  <2>4. /\ d.number = c.number /\ d.length = c.length /\ d.live = c.live /\ d.end = c.end /\ d.block = c.block
        /\ d.verdict = c.verdict /\ d.clicked = c.clicked /\ c.live
    BY DEF Accounts, UpdatesTool
  <2> QED BY <2>3, <2>4
<1>6. ASSUME NEW y \in TranscriptItems, ItemOk(y, c), ~ of(y) PROVE ItemOk(y, d)
  <2>1. StreamOk(y, d)
    BY <1>5, <1>6 DEF ItemOk, StreamOk
  <2>2. y.kind = "approval" => CardOk(y, d)
    BY <1>5, <1>6 DEF ItemOk, CardOk
  <2>3. ASSUME y.kind = "tool" PROVE ToolOk(y, d)
    <3>1. y.tool \in Tools /\ y.tool # m.tool /\ ToolOk(y, c)
      BY <1>6, <2>3, ItemFacts DEF ToolItems, ItemOk
    <3> QED BY <1>5, <3>1 DEF ToolOk
  <2> QED BY <1>5, <1>6, <2>1, <2>2, <2>3 DEF ItemOk
<1>7. ASSUME NEW y \in TranscriptItems, ItemOk(y, c), of(y)
      PROVE  LET z == [y EXCEPT !.status = m.status] IN
             z \in TranscriptItems /\ Quieter(y, z) /\ ItemOk(z, d)
  <2> DEFINE z == [y EXCEPT !.status = m.status]
  <2>1. y \in ToolItems /\ m.status \in ToolStatuses
    BY <1>4, <1>7, ItemFacts DEF ToolStatuses
  <2>2. z \in ToolItems /\ Quieter(y, z) /\ z.status = m.status /\ z.tool = y.tool /\ z.kind = "tool"
        /\ z.turn = y.turn
    BY <2>1, StatusIs
  <2> HIDE DEF z
  <2>3. z.tool = m.tool /\ z.tool \notin Edits
    BY <1>4, <1>7, <2>2
  <2>4. ToolOk(z, d)
    BY <1>4, <1>5, <2>2, <2>3 DEF ToolOk
  <2>5. ItemOk(z, d)
    BY <1>5, <1>7, <2>2, <2>4 DEF ItemOk, StreamOk
  <2> QED BY <2>2, <2>5 DEF z, TranscriptItems
<1>8. ASSUME NEW i \in 1 .. Len(list)
      PROVE  F(i) \in TranscriptItems /\ Quieter(list[i], F(i)) /\ ItemOk(F(i), d)
  <2>1. CASE of(list[i])
    BY <1>1, <1>7, <2>1
  <2>2. CASE ~ of(list[i])
    BY <1>1, <1>6, <2>2, QuieterSelf
  <2> QED BY <2>1, <2>2
<1> HIDE DEF F
<1>9. out \in Seq(TranscriptItems) /\ Len(out) = Len(list) /\ \A i \in 1 .. Len(list) : out[i] = F(i)
  BY <1>1, <1>8
<1>10. Shows(out, d)
  <2> HIDE DEF out
  <2>1. \A i \in 1 .. Len(list) : Quieter(list[i], out[i]) /\ ItemOk(out[i], d)
    BY <1>8, <1>9
  <2> QED BY <1>5, <1>9, <2>1, ShowsAll
<1> QED BY <1>2, <1>10

LEMMA SettlesKeeps ==
  ASSUME NEW c \in Accounts, NEW d \in Accounts, NEW m \in HostPosts, NEW list,
         Shows(list, c), m.turn = c.number, 1 <= c.number, Settles(m, c, d)
  PROVE  Shows(Folded(list, m), d)
<1> DEFINE of(x) == x.kind \in {"approval", "tool"} /\ x.tool = m.tool
           selected == m.status \in {"allow", "deny"}
           Card(x) == [x EXCEPT !.settled = IF selected THEN "selected" ELSE m.status,
                                !.resolved = IF selected THEN m.status ELSE "none"]
           Tool(x) == [x EXCEPT !.status = IF @ = "pending" THEN ToolStatusOf(m.status) ELSE @]
           F(i) == IF of(list[i])
                   THEN IF list[i].kind = "approval" THEN Card(list[i]) ELSE Tool(list[i])
                   ELSE list[i]
           out == [i \in 1 .. Len(list) |-> F(i)]
<1>1. list \in Seq(TranscriptItems) /\ Len(list) \in Nat
      /\ \A i \in 1 .. Len(list) : list[i] \in TranscriptItems /\ ItemOk(list[i], c)
  BY DEF Shows
<1>2. Folded(list, m) = out
  BY <1>1 DEF Folded, FoldSettle, Mapped, Settles
<1>3. m \in SettlePosts
  BY PostFacts DEF Settles
<1>4. m.tool \in Tools /\ m.status \in Settlements /\ c.verdict[m.tool] = "pending"
  BY <1>3 DEF SettlePosts, Settles
<1>5. /\ d.number = c.number /\ d.length = c.length /\ d.live = c.live /\ d.end = c.end /\ d.block = c.block
      /\ d.status = c.status /\ d.clicked = c.clicked
      /\ d.verdict[m.tool] = m.status /\ \A t \in Tools : t # m.tool => d.verdict[t] = c.verdict[t]
  <2>1. c.verdict \in [Tools -> Settlements \cup {"none", "pending"}]
    BY AccountFacts
  <2>2. d.verdict = [c.verdict EXCEPT ![m.tool] = m.status]
    BY DEF Accounts, Settles
  <2>3. d.verdict[m.tool] = m.status /\ \A t \in Tools : t # m.tool => d.verdict[t] = c.verdict[t]
    BY <1>4, <2>1, <2>2
  <2>4. /\ d.number = c.number /\ d.length = c.length /\ d.live = c.live /\ d.end = c.end /\ d.block = c.block
        /\ d.status = c.status /\ d.clicked = c.clicked
    BY DEF Accounts, Settles
  <2> QED BY <2>3, <2>4
<1>6. ASSUME NEW y \in TranscriptItems, ItemOk(y, c), ~ of(y) PROVE ItemOk(y, d)
  <2>1. StreamOk(y, d)
    BY <1>5, <1>6 DEF ItemOk, StreamOk
  <2>2. ASSUME y.kind = "approval" PROVE CardOk(y, d)
    <3>1. y.tool \in Tools /\ y.tool # m.tool /\ CardOk(y, c)
      BY <1>6, <2>2, ItemFacts DEF ApprovalItems, ItemOk
    <3> QED BY <1>5, <3>1 DEF CardOk
  <2>3. ASSUME y.kind = "tool" PROVE ToolOk(y, d)
    <3>1. y.tool \in Tools /\ y.tool # m.tool /\ ToolOk(y, c)
      BY <1>6, <2>3, ItemFacts DEF ToolItems, ItemOk
    <3> QED BY <1>5, <3>1 DEF ToolOk
  <2> QED BY <1>5, <1>6, <2>1, <2>2, <2>3 DEF ItemOk
<1>7. ASSUME NEW y \in TranscriptItems, ItemOk(y, c), of(y), y.kind = "approval"
      PROVE  Card(y) \in TranscriptItems /\ Quieter(y, Card(y)) /\ ItemOk(Card(y), d)
  <2> DEFINE s == IF selected THEN "selected" ELSE m.status
             r == IF selected THEN m.status ELSE "none"
             z == [y EXCEPT !.settled = s, !.resolved = r]
  <2>1. y \in ApprovalItems /\ y.tool = m.tool
    BY <1>7, ItemFacts
  <2>2. s \in {"none", "selected", "cancelled", "expired", "superseded"} /\ r \in {"none", "allow", "deny"}
    BY <1>4 DEF Settlements
  <2>3. z \in ApprovalItems /\ Quieter(y, z) /\ z.settled = s /\ z.resolved = r
        /\ z.tool = y.tool /\ z.kind = "approval" /\ z.turn = y.turn
    <3> DEFINE u(a, b) == [y EXCEPT !.settled = a, !.resolved = b]
    <3>1. \A a \in {"none", "selected", "cancelled", "expired", "superseded"}, b \in {"none", "allow", "deny"} :
            /\ u(a, b) \in ApprovalItems /\ Quieter(y, u(a, b)) /\ u(a, b).settled = a /\ u(a, b).resolved = b
            /\ u(a, b).tool = y.tool /\ u(a, b).kind = "approval" /\ u(a, b).turn = y.turn
      BY <2>1, CardIs
    <3>2. z = u(s, r)
      OBVIOUS
    <3> HIDE DEF s, r, u, z
    <3> QED BY <2>2, <3>1, <3>2
  <2>4. Card(y) = z
    OBVIOUS
  <2> HIDE DEF z
  <2>5. CardOk(z, d)
    BY <1>4, <1>5, <2>1, <2>3 DEF CardOk, Settlements
  <2>6. s # "none"
    BY <1>4 DEF Settlements
  <2>7. ~ OpenItem(z)
    BY <2>3, <2>6 DEF OpenItem, Streams
  <2>8. ItemOk(z, d)
    BY <1>7, <2>3, <2>5, <2>7 DEF ItemOk, StreamOk
  <2> QED BY <2>3, <2>4, <2>8 DEF TranscriptItems
<1>8. ASSUME NEW y \in TranscriptItems, ItemOk(y, c), of(y), y.kind # "approval"
      PROVE  Tool(y) \in TranscriptItems /\ Quieter(y, Tool(y)) /\ ItemOk(Tool(y), d)
  <2> DEFINE s == IF y.status = "pending" THEN ToolStatusOf(m.status) ELSE y.status
             z == [y EXCEPT !.status = s]
  <2>1. y \in ToolItems /\ y.tool = m.tool /\ y.kind = "tool" /\ ToolOk(y, c)
    BY <1>8, ItemFacts DEF ItemOk
  <2>2. ToolStatusOf(m.status) \in {"approved", "denied", "interrupted"}
    BY <1>4 DEF Settlements, ToolStatusOf
  <2>3. s \in ToolStatuses
    BY <2>1, <2>2 DEF ToolStatuses, ToolItems
  <2>4. z \in ToolItems /\ Quieter(y, z) /\ z.status = s /\ z.tool = y.tool /\ z.kind = "tool" /\ z.turn = y.turn
    <3> HIDE DEF s
    <3> QED BY <2>1, <2>3, StatusIs
  <2>5. Tool(y) = z
    OBVIOUS
  <2> HIDE DEF z
  <2>6. ToolOk(z, d)
    <3>1. CASE m.tool \in Edits
      <4>1. y.status = "pending"
        BY <1>4, <2>1, <3>1 DEF ToolOk
      <4>2. z.status = ToolStatusOf(d.verdict[z.tool]) /\ d.verdict[z.tool] \in Settlements
        BY <1>4, <1>5, <2>1, <2>4, <4>1
      <4>3. d.verdict[z.tool] # "none" /\ d.verdict[z.tool] # "pending"
        BY <4>2 DEF Settlements
      <4> QED BY <2>1, <2>4, <3>1, <4>2, <4>3 DEF ToolOk
    <3>2. CASE m.tool \notin Edits
      BY <1>5, <2>1, <2>4, <3>2 DEF ToolOk
    <3> QED BY <3>1, <3>2
  <2>7. ~ c.live /\ c.end # "complete" => ~ OpenItem(z)
    BY <1>8, <2>1, <2>2, <2>4 DEF ItemOk, OpenItem, Streams
  <2>8. ItemOk(z, d)
    BY <1>5, <1>8, <2>4, <2>6, <2>7 DEF ItemOk, StreamOk
  <2> QED BY <2>4, <2>5, <2>8 DEF TranscriptItems
<1>9. ASSUME NEW i \in 1 .. Len(list)
      PROVE  F(i) \in TranscriptItems /\ Quieter(list[i], F(i)) /\ ItemOk(F(i), d)
  <2> HIDE DEF Card, Tool
  <2>1. CASE of(list[i])
    BY <1>1, <1>7, <1>8, <2>1
  <2>2. CASE ~ of(list[i])
    BY <1>1, <1>6, <2>2, QuieterSelf
  <2> QED BY <2>1, <2>2
<1> HIDE DEF F
<1>10. out \in Seq(TranscriptItems) /\ Len(out) = Len(list) /\ \A i \in 1 .. Len(list) : out[i] = F(i)
  BY <1>1, <1>9
<1>11. Shows(out, d)
  <2> HIDE DEF out
  <2>1. \A i \in 1 .. Len(list) : Quieter(list[i], out[i]) /\ ItemOk(out[i], d)
    BY <1>9, <1>10
  <2> QED BY <1>5, <1>10, <2>1, ShowsAll
<1> QED BY <1>2, <1>11

LEMMA PlansKeeps ==
  ASSUME NEW c \in Accounts, NEW d \in Accounts, NEW m \in HostPosts, NEW list,
         Shows(list, c), m.turn = c.number, 1 <= c.number, Plans(m, c, d)
  PROVE  Shows(Folded(list, m), d)
<1> DEFINE isCard(x) == x.kind = "plan" /\ x.turn = m.turn
           F(i) == IF isCard(list[i]) THEN [list[i] EXCEPT !.status = m.status] ELSE list[i]
           out == [i \in 1 .. Len(list) |-> F(i)]
           x == [kind |-> "plan", turn |-> m.turn, status |-> m.status]
<1>1. list \in Seq(TranscriptItems) /\ Len(list) \in Nat
      /\ \A i \in 1 .. Len(list) : list[i] \in TranscriptItems /\ ItemOk(list[i], c)
  BY DEF Shows
<1>2. Folded(list, m) = out \/ Folded(list, m) = Append(CloseOpenMessages(list), x)
  <2>1. Folded(list, m) = FoldPlan(list, m)
    BY DEF Folded, Plans
  <2>2. DOMAIN list = 1 .. Len(list)
    BY <1>1
  <2>3. CASE \E i \in DOMAIN list : isCard(list[i])
    <3>1. FoldPlan(list, m) = [i \in DOMAIN list |-> F(i)]
      BY <2>3 DEF FoldPlan, HasItem, Mapped
    <3> QED BY <2>1, <2>2, <3>1
  <2>4. CASE ~ \E i \in DOMAIN list : isCard(list[i])
    <3>1. FoldPlan(list, m) = Append(CloseOpenMessages(list), x)
      BY <2>4 DEF FoldPlan, HasItem
    <3> QED BY <2>1, <3>1
  <2> QED BY <2>3, <2>4
<1>3. m \in PlanPosts
  BY PostFacts DEF Plans
<1>4. m.status \in {"active", "done", "interrupted"} /\ m.turn \in Nat /\ c.live
  BY <1>3 DEF PlanPosts, Plans
<1>5. ASSUME NEW i \in 1 .. Len(list)
      PROVE  F(i) \in TranscriptItems /\ Quieter(list[i], F(i)) /\ ItemOk(F(i), c)
  <2>1. CASE isCard(list[i])
    <3> DEFINE y == list[i]
               z == [y EXCEPT !.status = m.status]
    <3>1. y \in PlanItems /\ 1 <= y.turn
      BY <1>1, <2>1, ItemFacts DEF ItemOk
    <3>2. z \in PlanItems /\ Quieter(y, z) /\ z.kind = "plan" /\ z.turn = y.turn
      <4> HIDE DEF y
      <4> QED BY <1>4, <3>1, PlanStatusIs
    <3>3. F(i) = z
      BY <2>1
    <3> HIDE DEF z
    <3>4. ItemOk(z, c)
      BY <1>4, <3>1, <3>2 DEF ItemOk, StreamOk
    <3> QED BY <3>2, <3>3, <3>4 DEF TranscriptItems
  <2>2. CASE ~ isCard(list[i])
    BY <1>1, <2>2, QuieterSelf
  <2> QED BY <2>1, <2>2
<1> HIDE DEF F
<1>6. out \in Seq(TranscriptItems) /\ Len(out) = Len(list) /\ \A i \in 1 .. Len(list) : out[i] = F(i)
  BY <1>1, <1>5
<1>7. Shows(out, c)
  <2> HIDE DEF out
  <2>1. \A i \in 1 .. Len(list) : Quieter(list[i], out[i]) /\ ItemOk(out[i], c)
    BY <1>5, <1>6
  <2> QED BY <1>6, <2>1, ShowsAll
<1>8. x \in TranscriptItems /\ x.kind = "plan" /\ x.turn = c.number
  BY <1>3, <1>4 DEF TranscriptItems, PlanItems
<1> HIDE DEF x
<1>9. ItemOk(x, c)
  BY <1>4, <1>8 DEF ItemOk, StreamOk
<1>10. Shows(Append(CloseOpenMessages(list), x), c)
  BY <1>8, <1>9, ShowsMore, ShowsClosed
<1> QED BY <1>2, <1>7, <1>10 DEF Plans

LEMMA EndsItKeeps ==
  ASSUME NEW c \in Accounts, NEW d \in Accounts, NEW m \in HostPosts, NEW list,
         Shows(list, c), m.turn = c.number, 1 <= c.number, EndsIt(m, c, d)
  PROVE  Shows(Folded(list, m), d)
<1>1. list \in Seq(TranscriptItems) /\ Len(list) \in Nat
      /\ \A i \in 1 .. Len(list) : list[i] \in TranscriptItems /\ ItemOk(list[i], c)
  BY DEF Shows
<1>2. /\ d.number = c.number /\ d.length = c.length /\ ~ d.live /\ d.end = m.status
      /\ d.verdict = c.verdict /\ d.status = c.status /\ d.clicked = c.clicked /\ d.block = c.block
      /\ (m.status = "complete" => c.block = 0) /\ \A t \in Tools : c.verdict[t] # "pending"
  BY DEF Accounts, EndsIt
<1>3. ASSUME NEW y \in TranscriptItems, ItemOk(y, c), ~ Streams(y), m.status = "complete" \/ ~ OpenItem(y)
      PROVE  ItemOk(y, d)
  <2>1. StreamOk(y, d)
    BY <1>3 DEF Streams, StreamOk
  <2>2. y.kind = "approval" => CardOk(y, d)
    BY <1>2, <1>3 DEF ItemOk, CardOk
  <2>3. y.kind = "tool" => ToolOk(y, d)
    BY <1>2, <1>3 DEF ItemOk, ToolOk
  <2> QED BY <1>2, <1>3, <2>1, <2>2, <2>3 DEF ItemOk
<1>4. CASE m.status = "complete"
  <2> DEFINE F(i) == IF list[i].kind = "message" /\ list[i].streaming THEN Silenced(list[i]) ELSE list[i]
             out == [i \in 1 .. Len(list) |-> F(i)]
  <2>1. Folded(list, m) = out
    BY <1>1, <1>4 DEF Folded, CloseOpenMessages, Mapped, EndsIt
  <2>2. ASSUME NEW i \in 1 .. Len(list)
        PROVE  F(i) \in TranscriptItems /\ Quieter(list[i], F(i)) /\ ItemOk(F(i), d)
    <3>1. CASE list[i].kind = "message" /\ list[i].streaming
      BY <1>1, <3>1, SilencedOk DEF ItemOk
    <3>2. CASE ~ (list[i].kind = "message" /\ list[i].streaming)
      <4>1. ~ Streams(list[i])
        BY <1>1, <1>2, <1>4, <3>2 DEF ItemOk, StreamOk, Streams
      <4> QED BY <1>1, <1>3, <1>4, <3>2, <4>1, QuieterSelf
    <3> QED BY <3>1, <3>2
  <2> HIDE DEF F
  <2>3. out \in Seq(TranscriptItems) /\ Len(out) = Len(list) /\ \A i \in 1 .. Len(list) : out[i] = F(i)
    BY <1>1, <2>2
  <2>4. Shows(out, d)
    <3> HIDE DEF out
    <3>1. \A i \in 1 .. Len(list) : Quieter(list[i], out[i]) /\ ItemOk(out[i], d)
      BY <2>2, <2>3
    <3> QED BY <1>2, <2>3, <3>1, ShowsAll
  <2> QED BY <2>1, <2>4
<1>5. CASE m.status # "complete"
  <2> DEFINE F(i) == IF OpenItem(list[i]) THEN Interrupted(list[i]) ELSE list[i]
             out == [i \in 1 .. Len(list) |-> F(i)]
  <2>1. Folded(list, m) = out
    BY <1>1, <1>5 DEF Folded, SettleOpenItems, Mapped, EndsIt
  <2>2. ASSUME NEW y \in TranscriptItems, ItemOk(y, c), OpenItem(y)
        PROVE  LET z == Interrupted(y) IN z \in TranscriptItems /\ Quieter(y, z) /\ ItemOk(z, d)
    <3>1. CASE Streams(y)
      <4>1. Interrupted(y) = Silenced(y) /\ y.kind \in {"message", "reasoning"} /\ 1 <= y.turn
        BY <2>2, <3>1 DEF Interrupted, Streams, ItemOk
      <4> QED BY <4>1, SilencedOk
    <3>2. CASE y.kind = "approval"
      <4>1. y \in ApprovalItems /\ CardOk(y, c) /\ y.tool \in Tools /\ y.settled = "none"
        BY <2>2, <3>2, ItemFacts DEF ItemOk, OpenItem, Streams, ApprovalItems
      <4>2. c.verdict[y.tool] \in Settlements
        <5>1. c.verdict[y.tool] \in Settlements \cup {"none", "pending"}
          BY <4>1, AccountFacts
        <5> QED BY <1>2, <4>1, <5>1 DEF CardOk
      <4> QED BY <4>1, <4>2 DEF CardOk, Settlements
    <3>3. CASE y.kind = "tool"
      <4> DEFINE z == [y EXCEPT !.status = "interrupted"]
      <4>1. y \in ToolItems /\ ToolOk(y, c) /\ y.tool \in Tools /\ y.status = "pending" /\ 1 <= y.turn
        BY <2>2, <3>3, ItemFacts DEF ItemOk, OpenItem, Streams, ToolItems
      <4>2. Interrupted(y) = z
        BY <3>3 DEF Interrupted, Streams
      <4>3. z \in ToolItems /\ Quieter(y, z) /\ z.status = "interrupted" /\ z.tool = y.tool /\ z.kind = "tool"
            /\ z.turn = y.turn
        BY <4>1, StatusIs DEF ToolStatuses
      <4> HIDE DEF z
      <4>4. y.tool \notin Edits
        <5> SUFFICES ASSUME y.tool \in Edits PROVE FALSE
          OBVIOUS
        <5>1. c.verdict[y.tool] \in Settlements
          <6>1. c.verdict[y.tool] \in Settlements \cup {"none", "pending"}
            BY <4>1, AccountFacts
          <6> QED BY <1>2, <4>1, <6>1 DEF ToolOk
        <5> QED BY <4>1, <5>1 DEF ToolOk, ToolStatusOf, Settlements
      <4>5. ToolOk(z, d)
        BY <1>2, <4>1, <4>3, <4>4 DEF ToolOk
      <4>6. ItemOk(z, d)
        BY <4>1, <4>3, <4>5 DEF ItemOk, StreamOk, OpenItem, Streams
      <4> QED BY <4>2, <4>3, <4>6 DEF TranscriptItems
    <3>4. CASE y.kind = "plan"
      <4> DEFINE z == [y EXCEPT !.status = "interrupted"]
      <4>1. y \in PlanItems /\ 1 <= y.turn
        BY <2>2, <3>4, ItemFacts DEF ItemOk
      <4>2. Interrupted(y) = z
        BY <3>4 DEF Interrupted, Streams
      <4>3. z \in PlanItems /\ Quieter(y, z) /\ z.status = "interrupted" /\ z.kind = "plan" /\ z.turn = y.turn
        BY <4>1, PlanStatusIs
      <4> HIDE DEF z
      <4>4. ItemOk(z, d)
        BY <4>1, <4>3 DEF ItemOk, StreamOk, OpenItem, Streams
      <4> QED BY <4>2, <4>3, <4>4 DEF TranscriptItems
    <3> QED BY <2>2, <3>1, <3>2, <3>3, <3>4 DEF OpenItem
  <2>3. ASSUME NEW i \in 1 .. Len(list)
        PROVE  F(i) \in TranscriptItems /\ Quieter(list[i], F(i)) /\ ItemOk(F(i), d)
    <3>1. CASE OpenItem(list[i])
      BY <1>1, <2>2, <3>1
    <3>2. CASE ~ OpenItem(list[i])
      <4>1. ~ Streams(list[i])
        BY <3>2 DEF OpenItem
      <4> QED BY <1>1, <1>3, <3>2, <4>1, QuieterSelf
    <3> QED BY <3>1, <3>2
  <2> HIDE DEF F
  <2>4. out \in Seq(TranscriptItems) /\ Len(out) = Len(list) /\ \A i \in 1 .. Len(list) : out[i] = F(i)
    BY <1>1, <2>3
  <2>5. Shows(out, d)
    <3> HIDE DEF out
    <3>1. \A i \in 1 .. Len(list) : Quieter(list[i], out[i]) /\ ItemOk(out[i], d)
      BY <2>3, <2>4
    <3> QED BY <1>2, <2>4, <3>1, ShowsAll
  <2> QED BY <2>1, <2>5
<1> QED BY <1>4, <1>5

\* What the webview shows follows what the host holds, post by post.
LEMMA LegalKeeps ==
  ASSUME NEW c \in Accounts, NEW d \in Accounts, NEW m \in HostPosts, NEW list,
         Shows(list, c), Legal(m, c, d)
  PROVE  Shows(Capped(Folded(list, m)), d)
<1>1. CASE Begins(m, c, d)
  BY <1>1, BeginsKeeps, ShowsCap
<1>2. CASE /\ m.turn = c.number /\ 1 <= c.number
           /\ AddsPlain(m, c, d) \/ Thinks(m, c, d) \/ StopsThinking(m, c, d)
              \/ Says(m, c, d) \/ SaidAll(m, c, d)
  BY <1>2, AddsPlainKeeps, ThinksKeeps, StopsThinkingKeeps, SaysKeeps, SaidAllKeeps, ShowsCap DEF AddsPlain
<1>3. CASE /\ m.turn = c.number /\ 1 <= c.number
           /\ StartsTool(m, c, d) \/ UpdatesTool(m, c, d) \/ Asks(m, c, d) \/ Settles(m, c, d)
              \/ Plans(m, c, d) \/ EndsIt(m, c, d)
  BY <1>3, StartsToolKeeps, UpdatesToolKeeps, AsksKeeps, SettlesKeeps, PlansKeeps, EndsItKeeps, ShowsCap
<1> QED BY <1>1, <1>2, <1>3 DEF Legal

-----------------------------------------------------------------------------
\* The posts of a handler, in their order.

LEMMA PathKeeps ==
  ASSUME NEW batch \in Seq(HostPosts), NEW cs \in [0 .. Len(batch) -> Accounts],
         Shows(items, cs[0]), \A n \in 1 .. Len(batch) : Legal(batch[n], cs[n - 1], cs[n]),
         Emits(batch)
  PROVE  Shows(items', cs[Len(batch)])
<1> DEFINE N == Len(batch)
           X == Seq(TranscriptItems)
           Step(n, x) == Capped(Folded(x, batch[n]))
           G == [n \in 1 .. N |-> [x \in X |-> IF Step(n, x) \in X THEN Step(n, x) ELSE x]]
           Eq(g) == g = [n \in 0 .. N |-> IF n = 0 THEN items ELSE Step(n, g[n - 1])]
           after == CHOOSE g : Eq(g)
<1>1. N \in Nat /\ (\A n \in 1 .. N : batch[n] \in HostPosts /\ n - 1 \in 0 .. N /\ n \in 0 .. N) /\ items \in X
  BY DEF Shows
<1>2. ASSUME NEW n \in 1 .. N, NEW x, Shows(x, cs[n - 1])
      PROVE  Shows(Step(n, x), cs[n]) /\ Step(n, x) \in X /\ x \in X
  <2>1. batch[n] \in HostPosts /\ cs[n - 1] \in Accounts /\ cs[n] \in Accounts
    BY <1>1
  <2>2. Shows(Step(n, x), cs[n])
    BY <1>2, <2>1, LegalKeeps
  <2> QED BY <1>2, <2>2 DEF Shows
<1>3. items' = after[N]
  BY DEF Emits
<1> HIDE DEF Step
<1>4. \A n \in 1 .. N, x \in X : G[n][x] \in X
  OBVIOUS
<1>5. \E f \in [0 .. N -> X] : f[0] = items /\ \A n \in 1 .. N : f[n] = G[n][f[n - 1]]
  <2>1. N \in Nat /\ items \in X
    BY <1>1
  <2> HIDE DEF G, X, N, Eq, after
  <2>2. Inside(G, N, X)
    BY <1>4 DEF Inside
  <2>3. HasRun(G, N, X, items)
    BY <2>1, <2>2, Recursion
  <2> QED BY <2>3 DEF HasRun
<1>6. PICK f \in [0 .. N -> X] : f[0] = items /\ \A n \in 1 .. N : f[n] = G[n][f[n - 1]]
  BY <1>5
<1>7. \A n \in 1 .. N, x \in X : Step(n, x) \in X => G[n][x] = Step(n, x)
  OBVIOUS
<1> HIDE DEF G, X, N
<1> DEFINE S(g) == {n \in Nat : n <= N => Shows(g[n], cs[n])}
<1>8. ASSUME NEW g, g[0] = items, \A n \in 1 .. N : Shows(g[n - 1], cs[n - 1]) => g[n] = Step(n, g[n - 1])
      PROVE  \A n \in 0 .. N : Shows(g[n], cs[n])
  <2>1. 0 \in S(g)
    BY <1>8
  <2>2. ASSUME NEW n \in Nat, n \in S(g) PROVE n + 1 \in S(g)
    <3> SUFFICES ASSUME n + 1 <= N PROVE Shows(g[n + 1], cs[n + 1])
      OBVIOUS
    <3>1. n + 1 \in 1 .. N /\ (n + 1) - 1 = n /\ n <= N
      BY <1>1
    <3>2. Shows(g[n], cs[n])
      BY <2>2, <3>1
    <3>3. g[n + 1] = Step(n + 1, g[n])
      BY <1>8, <3>1, <3>2
    <3>4. Shows(Step(n + 1, g[n]), cs[n + 1])
      BY <1>2, <3>1, <3>2
    <3> QED BY <3>3, <3>4
  <2>3. Nat \subseteq S(g)
    <3> HIDE DEF S
    <3> QED BY <2>1, <2>2, SetInduction
  <2>4. \A n \in 0 .. N : n \in Nat /\ n <= N
    BY <1>1
  <2> QED BY <2>3, <2>4
<1>9. \A n \in 0 .. N : Shows(f[n], cs[n])
  <2>1. ASSUME NEW n \in 1 .. N, Shows(f[n - 1], cs[n - 1]) PROVE f[n] = Step(n, f[n - 1])
    <3>1. Step(n, f[n - 1]) \in X /\ f[n - 1] \in X
      BY <1>2, <2>1
    <3> QED BY <1>6, <1>7, <3>1
  <2> QED BY <1>6, <1>8, <2>1
<1>10. Eq(f)
  <2>1. \A n \in 1 .. N : f[n] = Step(n, f[n - 1])
    <3> SUFFICES ASSUME NEW n \in 1 .. N PROVE f[n] = Step(n, f[n - 1])
      OBVIOUS
    <3>1. Shows(f[n - 1], cs[n - 1])
      BY <1>1, <1>9
    <3>2. Step(n, f[n - 1]) \in X /\ f[n - 1] \in X
      BY <1>2, <3>1
    <3> QED BY <1>6, <1>7, <3>2
  <2>2. \A n \in 0 .. N : f[n] = IF n = 0 THEN items ELSE Step(n, f[n - 1])
    <3>1. \A n \in 0 .. N : n = 0 \/ n \in 1 .. N
      BY <1>1
    <3> QED BY <1>6, <2>1, <3>1
  <2>3. f = [n \in 0 .. N |-> f[n]]
    BY <1>6
  <2> QED BY <2>2, <2>3
<1>11. Eq(after)
  <2> HIDE DEF Eq
  <2> QED BY <1>10
<1> HIDE DEF after
<1>12. after[0] = items /\ \A n \in 1 .. N : after[n] = Step(n, after[n - 1])
  <2>1. \A n \in 0 .. N : after[n] = IF n = 0 THEN items ELSE Step(n, after[n - 1])
    BY <1>11
  <2>2. 0 \in 0 .. N /\ \A n \in 1 .. N : n # 0
    BY <1>1
  <2> QED BY <1>1, <2>1, <2>2
<1>13. \A n \in 0 .. N : Shows(after[n], cs[n])
  BY <1>8, <1>12
<1>14. N \in 0 .. N
  BY <1>1
<1>15. Shows(after[N], cs[N])
  BY <1>13, <1>14
<1> QED BY <1>3, <1>15 DEF N

Reach(batch, c, d) ==
  /\ batch \in Seq(HostPosts)
  /\ \E cs \in [0 .. Len(batch) -> Accounts] :
       /\ cs[0] = c /\ cs[Len(batch)] = d
       /\ \A n \in 1 .. Len(batch) : Legal(batch[n], cs[n - 1], cs[n])

LEMMA ReachKeeps ==
  ASSUME NEW batch, NEW c, NEW d, Reach(batch, c, d), Shows(items, c), Emits(batch)
  PROVE  Shows(items', d)
<1>1. PICK cs \in [0 .. Len(batch) -> Accounts] :
        /\ cs[0] = c /\ cs[Len(batch)] = d
        /\ \A n \in 1 .. Len(batch) : Legal(batch[n], cs[n - 1], cs[n])
  BY DEF Reach
<1>2. batch \in Seq(HostPosts)
  BY DEF Reach
<1>3. Shows(items', cs[Len(batch)])
  BY <1>1, <1>2, PathKeeps
<1> QED BY <1>1, <1>3

LEMMA ReachNone ==
  ASSUME NEW c \in Accounts
  PROVE  Reach(<< >>, c, c)
<1> DEFINE cs == [n \in 0 .. 0 |-> c]
<1>1. cs \in [0 .. Len(<< >>) -> Accounts] /\ cs[0] = c /\ cs[Len(<< >>)] = c /\ << >> \in Seq(HostPosts)
  OBVIOUS
<1>2. \A n \in 1 .. Len(<< >>) : FALSE
  OBVIOUS
<1> HIDE DEF cs
<1> QED BY <1>1, <1>2 DEF Reach

LEMMA ReachOne ==
  ASSUME NEW c \in Accounts, NEW d \in Accounts, NEW m \in HostPosts, Legal(m, c, d)
  PROVE  Reach(<< m >>, c, d)
<1> DEFINE cs == [n \in 0 .. 1 |-> IF n = 0 THEN c ELSE d]
<1>1. cs \in [0 .. 1 -> Accounts] /\ cs[0] = c /\ cs[1] = d
  OBVIOUS
<1>2. << m >> \in Seq(HostPosts) /\ Len(<< m >>) = 1 /\ << m >>[1] = m
  OBVIOUS
<1>3. \A n \in 1 .. 1 : n = 1 /\ n - 1 = 0
  OBVIOUS
<1> HIDE DEF cs
<1> QED BY <1>1, <1>2, <1>3 DEF Reach

LEMMA ReachJoin ==
  ASSUME NEW a, NEW b, NEW c, NEW d, NEW e, Reach(a, c, d), Reach(b, d, e)
  PROVE  Reach(a \o b, c, e)
<1>1. PICK cs \in [0 .. Len(a) -> Accounts] :
        /\ cs[0] = c /\ cs[Len(a)] = d
        /\ \A n \in 1 .. Len(a) : Legal(a[n], cs[n - 1], cs[n])
  BY DEF Reach
<1>2. PICK ds \in [0 .. Len(b) -> Accounts] :
        /\ ds[0] = d /\ ds[Len(b)] = e
        /\ \A n \in 1 .. Len(b) : Legal(b[n], ds[n - 1], ds[n])
  BY DEF Reach
<1>3. a \in Seq(HostPosts) /\ b \in Seq(HostPosts)
  BY DEF Reach
<1> DEFINE M == Len(a)
           N == Len(b)
           es == [n \in 0 .. M + N |-> IF n <= M THEN cs[n] ELSE ds[n - M]]
<1>4. /\ a \o b \in Seq(HostPosts) /\ Len(a \o b) = M + N /\ M \in Nat /\ N \in Nat
      /\ \A n \in 1 .. M + N : (a \o b)[n] = IF n <= M THEN a[n] ELSE b[n - M]
  BY <1>3, ConcatProperties
<1> HIDE DEF M, N
<1>5. /\ \A n \in 0 .. M + N : n <= M => n \in 0 .. M
      /\ \A n \in 0 .. M + N : ~ (n <= M) => n - M \in 0 .. N
  BY <1>4
<1>6. cs \in [0 .. M -> Accounts] /\ ds \in [0 .. N -> Accounts]
  BY DEF M, N
<1>7. es \in [0 .. M + N -> Accounts]
      /\ \A n \in 0 .. M + N : es[n] = IF n <= M THEN cs[n] ELSE ds[n - M]
  BY <1>5, <1>6
<1> HIDE DEF es
<1>8. es[0] = c
  <2>1. 0 \in 0 .. M + N /\ 0 <= M
    BY <1>4
  <2> QED BY <1>1, <1>7, <2>1
<1>9. es[M + N] = e
  <2>1. M + N \in 0 .. M + N /\ M + N - M = N
    BY <1>4
  <2>2. CASE N = 0
    BY <1>1, <1>2, <1>4, <1>7, <2>1, <2>2 DEF M, N
  <2>3. CASE N # 0
    <3>1. ~ (M + N <= M)
      BY <1>4, <2>3
    <3>2. es[M + N] = ds[N]
      BY <1>7, <2>1, <3>1
    <3> QED BY <1>2, <3>2 DEF N
  <2> QED BY <2>2, <2>3
<1>10. ASSUME NEW n \in 1 .. M + N PROVE Legal((a \o b)[n], es[n - 1], es[n])
  <2>1. n \in 0 .. M + N /\ n - 1 \in 0 .. M + N
    BY <1>4
  <2>2. CASE n <= M
    <3>1. n \in 1 .. M /\ n - 1 <= M
      BY <1>4, <2>2
    <3>2. (a \o b)[n] = a[n] /\ es[n] = cs[n] /\ es[n - 1] = cs[n - 1]
      BY <1>4, <1>7, <2>1, <2>2, <3>1
    <3> QED BY <1>1, <3>1, <3>2 DEF M
  <2>3. CASE n = M + 1
    <3>1. n - M = 1 /\ 1 \in 1 .. N /\ n - 1 = M /\ n - 1 <= M /\ ~ (n <= M) /\ 1 - 1 = 0
      BY <1>4, <2>3
    <3>2. (a \o b)[n] = b[1] /\ es[n] = ds[1] /\ es[n - 1] = ds[0]
      <4>1. es[n - 1] = cs[M]
        BY <1>7, <2>1, <3>1
      <4>2. cs[M] = ds[0]
        BY <1>1, <1>2 DEF M
      <4> QED BY <1>4, <1>7, <2>1, <3>1, <4>1, <4>2
    <3> QED BY <1>2, <3>1, <3>2 DEF N
  <2>4. CASE n > M + 1
    <3>1. n - M \in 1 .. N /\ ~ (n - 1 <= M) /\ ~ (n <= M) /\ (n - 1) - M = (n - M) - 1
      BY <1>4, <2>4
    <3>2. (a \o b)[n] = b[n - M] /\ es[n] = ds[n - M] /\ es[n - 1] = ds[(n - M) - 1]
      BY <1>4, <1>7, <2>1, <3>1
    <3> QED BY <1>2, <3>1, <3>2 DEF N
  <2> QED BY <1>4, <2>2, <2>3, <2>4
<1> QED BY <1>4, <1>7, <1>8, <1>9, <1>10 DEF Reach

LEMMA ReachAdd ==
  ASSUME NEW a, NEW c, NEW d \in Accounts, NEW e \in Accounts, NEW m \in HostPosts,
         Reach(a, c, d), Legal(m, d, e)
  PROVE  Reach(Append(a, m), c, e)
<1>1. Reach(a \o << m >>, c, e)
  BY ReachOne, ReachJoin
<1>2. Append(a, m) = a \o << m >>
  BY AppendIsConcat DEF Reach
<1> QED BY <1>1, <1>2

-----------------------------------------------------------------------------
\* The cards and tools of a handler, in the order of their numbers.

Increasing(list) == \A i, k \in DOMAIN list : i < k => list[i] < list[k]

LEMMA SomeOrder ==
  ASSUME NEW N \in Nat, NEW T, T \subseteq 1 .. N
  PROVE  \E list \in [1 .. Cardinality(T) -> T] : Increasing(list)
<1> DEFINE HasOne(U) == \E list \in [1 .. Cardinality(U) -> U] : Increasing(list)
           S == {k \in Nat : \A U \in SUBSET (1 .. k) : HasOne(U)}
<1>1. 0 \in S
  <2> SUFFICES ASSUME NEW U, U \subseteq 1 .. 0 PROVE HasOne(U)
    OBVIOUS
  <2>1. U = {} /\ Cardinality(U) = 0
    <3>1. 1 .. 0 = {}
      OBVIOUS
    <3> QED BY <3>1, FS_EmptySet
  <2>2. [i \in 1 .. 0 |-> i] \in [1 .. 0 -> U] /\ Increasing([i \in 1 .. 0 |-> i])
    BY DEF Increasing
  <2> QED BY <2>1, <2>2
<1>2. ASSUME NEW k \in Nat, k \in S PROVE k + 1 \in S
  <2> HIDE DEF HasOne
  <2> SUFFICES ASSUME NEW U \in SUBSET (1 .. k + 1) PROVE HasOne(U)
    OBVIOUS
  <2>0. \A V : V \subseteq 1 .. k => HasOne(V)
    BY <1>2
  <2>1. CASE k + 1 \notin U
    <3>1. U \subseteq 1 .. k
      BY <2>1
    <3> QED BY <2>0, <3>1
  <2>2. CASE k + 1 \in U
    <3> DEFINE V == U \ {k + 1}
    <3>1. V \subseteq 1 .. k /\ U = V \cup {k + 1} /\ k + 1 \notin V
      BY <2>2
    <3>2. IsFiniteSet(V) /\ Cardinality(V) \in Nat
      <4>1. IsFiniteSet(1 .. k)
        BY FS_Interval
      <4> HIDE DEF V
      <4> QED BY <3>1, <4>1, FS_Subset, FS_CardinalityType
    <3> HIDE DEF V
    <3>3. Cardinality(U) = Cardinality(V) + 1
      BY <3>1, <3>2, FS_AddElement
    <3>4. PICK list \in [1 .. Cardinality(V) -> V] : Increasing(list)
      BY <2>0, <3>1 DEF HasOne
    <3> DEFINE n == Cardinality(V)
               more == [i \in 1 .. n + 1 |-> IF i = n + 1 THEN k + 1 ELSE list[i]]
    <3>5. n \in Nat /\ list \in [1 .. n -> V] /\ \A i \in 1 .. n + 1 : i = n + 1 \/ i \in 1 .. n
      BY <3>2, <3>4
    <3> HIDE DEF n
    <3>6. more \in [1 .. n + 1 -> U] /\ more[n + 1] = k + 1 /\ \A i \in 1 .. n : more[i] = list[i]
      <4>1. \A i \in 1 .. n + 1 : (IF i = n + 1 THEN k + 1 ELSE list[i]) \in U
        BY <3>1, <3>5
      <4>2. n + 1 \in 1 .. n + 1 /\ \A i \in 1 .. n : i \in 1 .. n + 1 /\ i # n + 1
        BY <3>5
      <4> QED BY <4>1, <4>2
    <3> HIDE DEF more
    <3>7. Increasing(more)
      <4>1. DOMAIN more = 1 .. n + 1 /\ DOMAIN list = 1 .. n
        BY <3>5, <3>6
      <4>2. ASSUME NEW i \in 1 .. n + 1, NEW j \in 1 .. n + 1, i < j PROVE more[i] < more[j]
        <5>1. i \in 1 .. n
          BY <3>5, <4>2
        <5>2. CASE j = n + 1
          <6>1. list[i] \in 1 .. k
            BY <3>1, <3>5, <5>1
          <6> QED BY <3>6, <5>1, <5>2, <6>1
        <5>3. CASE j \in 1 .. n
          BY <3>4, <3>6, <4>1, <4>2, <5>1, <5>3 DEF Increasing
        <5> QED BY <3>5, <5>2, <5>3
      <4> QED BY <4>1, <4>2 DEF Increasing
    <3>8. more \in [1 .. Cardinality(U) -> U]
      BY <3>3, <3>6 DEF n
    <3> QED BY <3>7, <3>8 DEF HasOne
  <2> QED BY <2>1, <2>2
<1>3. N \in S
  <2> HIDE DEF S
  <2> QED BY <1>1, <1>2, SetInduction
<1> QED BY <1>3

LEMMA InOrderIs ==
  ASSUME NEW cards, cards \subseteq Tools
  PROVE  /\ Cardinality(cards) \in Nat /\ InOrder(cards) \in [1 .. Cardinality(cards) -> cards]
         /\ \A i, k \in 1 .. Cardinality(cards) : InOrder(cards)[i] = InOrder(cards)[k] => i = k
         /\ \A t \in cards : \E i \in 1 .. Cardinality(cards) : InOrder(cards)[i] = t
<1> DEFINE n == Cardinality(cards)
           s == InOrder(cards)
<1>1. NumTools \in Nat /\ Tools = 1 .. NumTools
  BY TranscriptAssumption DEF Tools
<1>2. IsFiniteSet(cards) /\ n \in Nat
  <2>1. IsFiniteSet(1 .. NumTools)
    BY <1>1, FS_Interval
  <2> QED BY <1>1, <2>1, FS_Subset, FS_CardinalityType
<1>3. s \in [1 .. n -> cards] /\ Increasing(s)
  <2>1. \E list \in [1 .. n -> cards] : Increasing(list)
    BY <1>1, SomeOrder
  <2>2. s = CHOOSE list \in [1 .. n -> cards] : Increasing(list)
    BY DEF InOrder, Increasing
  <2> HIDE DEF s
  <2> QED BY <2>1, <2>2
<1> HIDE DEF n, s
<1>4. \A i \in 1 .. n : s[i] \in Nat
  <2>1. \A t \in cards : t \in Nat
    BY <1>1
  <2> QED BY <1>3, <2>1
<1>5. \A i, k \in 1 .. n : s[i] = s[k] => i = k
  <2> SUFFICES ASSUME NEW i \in 1 .. n, NEW k \in 1 .. n, s[i] = s[k], i # k PROVE FALSE
    OBVIOUS
  <2>1. DOMAIN s = 1 .. n
    BY <1>3
  <2>2. i < k \/ k < i
    BY <1>2
  <2>3. s[i] < s[k] \/ s[k] < s[i]
    BY <1>3, <2>1, <2>2 DEF Increasing
  <2> QED BY <1>4, <2>3
<1>6. \A t \in cards : \E i \in 1 .. n : s[i] = t
  <2>1. s \in Injection(1 .. n, cards)
    BY <1>3, <1>5 DEF Injection, IsInjective
  <2>2. Cardinality(1 .. n) = n
    BY <1>2, FS_Interval
  <2>3. s \in Surjection(1 .. n, cards)
    BY <1>2, <2>1, <2>2, FS_Injection DEF n
  <2> QED BY <2>3 DEF Surjection
<1> QED BY <1>2, <1>3, <1>5, <1>6 DEF n, s

LEMMA ReachSettles ==
  ASSUME NEW c \in Accounts, NEW d \in Accounts, NEW cards, NEW outcome \in Settlements,
         cards \subseteq Tools, \A t \in cards : c.verdict[t] = "pending",
         c.number = hostTurn.number, 1 <= c.number,
         d = [c EXCEPT !.verdict = [t \in Tools |-> IF t \in cards THEN outcome ELSE c.verdict[t]]]
  PROVE  Reach(SettleMessages(cards, outcome), c, d)
<1> DEFINE n == Cardinality(cards)
           s == InOrder(cards)
           batch == SettleMessages(cards, outcome)
           V(k) == [t \in Tools |-> IF \E i \in 1 .. k : s[i] = t THEN outcome ELSE c.verdict[t]]
           D(k) == [c EXCEPT !.verdict = V(k)]
           cs == [k \in 0 .. n |-> D(k)]
<1>1. /\ n \in Nat /\ s \in [1 .. n -> cards]
      /\ \A i, k \in 1 .. n : s[i] = s[k] => i = k
      /\ \A t \in cards : \E i \in 1 .. n : s[i] = t
  BY InOrderIs
<1>2. batch = [i \in 1 .. n |-> OfTool("approval.settle", s[i], outcome)]
  <2>1. DOMAIN s = 1 .. n
    BY <1>1
  <2> QED BY <2>1 DEF SettleMessages
<1> HIDE DEF n, s, batch
<1>3. \A i \in 1 .. n : OfTool("approval.settle", s[i], outcome) \in HostPosts
  <2> SUFFICES ASSUME NEW i \in 1 .. n PROVE OfTool("approval.settle", s[i], outcome) \in HostPosts
    OBVIOUS
  <2>1. s[i] \in Tools /\ hostTurn.number \in Nat
    BY <1>1, AccountFacts
  <2> QED BY <2>1 DEF OfTool, HostPosts, SettlePosts
<1>4. batch \in Seq(HostPosts) /\ Len(batch) = n /\ \A i \in 1 .. n : batch[i] = OfTool("approval.settle", s[i], outcome)
  <2> DEFINE M(i) == OfTool("approval.settle", s[i], outcome)
  <2>1. \A i \in 1 .. n : M(i) \in HostPosts
    BY <1>3
  <2>2. batch = [i \in 1 .. n |-> M(i)]
    BY <1>2
  <2> HIDE DEF M
  <2>3. batch \in Seq(HostPosts) /\ Len(batch) = n /\ \A i \in 1 .. n : batch[i] = M(i)
    BY <1>1, <2>1, <2>2
  <2> QED BY <2>3 DEF M
<1>5. c.verdict \in [Tools -> Settlements \cup {"none", "pending"}]
  BY AccountFacts
<1>6. \A k \in 0 .. n : D(k) \in Accounts /\ D(k).verdict = V(k)
  <2> SUFFICES ASSUME NEW k \in 0 .. n PROVE D(k) \in Accounts /\ D(k).verdict = V(k)
    OBVIOUS
  <2>1. V(k) \in [Tools -> Settlements \cup {"none", "pending"}]
    BY <1>5
  <2> HIDE DEF V
  <2> QED BY <2>1 DEF Accounts
<1>7. D(0) = c
  <2>1. V(0) = c.verdict
    <3>1. \A t \in Tools : V(0)[t] = c.verdict[t]
      OBVIOUS
    <3> QED BY <1>5, <3>1
  <2> HIDE DEF V
  <2> QED BY <2>1 DEF Accounts
<1>8. D(n) = d
  <2>1. \A t \in Tools : (\E i \in 1 .. n : s[i] = t) <=> t \in cards
    BY <1>1
  <2>2. V(n) = [t \in Tools |-> IF t \in cards THEN outcome ELSE c.verdict[t]]
    BY <2>1
  <2> QED BY <2>2
<1>9. ASSUME NEW k \in 1 .. n PROVE Legal(batch[k], D(k - 1), D(k))
  <2>1. k \in 0 .. n /\ k - 1 \in 0 .. n /\ s[k] \in cards
    BY <1>1
  <2>2. D(k - 1).verdict[s[k]] = "pending"
    <3>1. ~ \E i \in 1 .. k - 1 : s[i] = s[k]
      BY <1>1
    <3> QED BY <1>6, <2>1, <3>1
  <2>3. V(k) = [V(k - 1) EXCEPT ![s[k]] = outcome]
    <3>1. \A t \in Tools : (\E i \in 1 .. k : s[i] = t) <=> (\E i \in 1 .. k - 1 : s[i] = t) \/ t = s[k]
      <4>1. \A i \in 1 .. k : i \in 1 .. k - 1 \/ i = k
        BY <1>1
      <4>2. \A i \in 1 .. k - 1 : i \in 1 .. k
        BY <1>1
      <4>3. k \in 1 .. k
        OBVIOUS
      <4> QED BY <4>1, <4>2, <4>3
    <3>2. s[k] \in Tools
      BY <2>1
    <3> QED BY <3>1, <3>2
  <2> HIDE DEF V
  <2>4. D(k) = [D(k - 1) EXCEPT !.verdict = [@ EXCEPT ![s[k]] = outcome]]
    BY <2>3 DEF Accounts
  <2>5. D(k - 1).number = c.number
    BY DEF Accounts
  <2> HIDE DEF D
  <2>6. batch[k].type = "approval.settle" /\ batch[k].turn = c.number /\ batch[k].tool = s[k] /\ batch[k].status = outcome
    BY <1>4 DEF OfTool
  <2>7. Settles(batch[k], D(k - 1), D(k))
    BY <2>2, <2>4, <2>6 DEF Settles
  <2> QED BY <2>5, <2>6, <2>7 DEF Legal
<1> HIDE DEF D
<1>10. cs \in [0 .. n -> Accounts] /\ \A k \in 0 .. n : cs[k] = D(k)
  BY <1>6
<1> HIDE DEF cs
<1>11. \A k \in 1 .. n : k \in 0 .. n /\ k - 1 \in 0 .. n
  BY <1>1
<1>12. \A k \in 1 .. n : Legal(batch[k], cs[k - 1], cs[k])
  BY <1>9, <1>10, <1>11
<1>13. cs[0] = c /\ cs[n] = d
  <2>1. 0 \in 0 .. n /\ n \in 0 .. n
    BY <1>1
  <2> QED BY <1>7, <1>8, <1>10, <2>1
<1>14. Reach(batch, c, d)
  BY <1>4, <1>10, <1>12, <1>13 DEF Reach
<1> QED BY <1>14 DEF batch

LEMMA ReachInterrupts ==
  ASSUME NEW c \in Accounts, NEW d \in Accounts, c.live,
         c.number = hostTurn.number, 1 <= c.number, \A t \in Edits : translator.status[t] # "pending",
         d = [c EXCEPT !.status = [t \in Tools |-> IF t \in InFlight THEN "interrupted" ELSE c.status[t]]]
  PROVE  Reach(Interrupts, c, d)
<1> DEFINE n == Cardinality(InFlight)
           s == InOrder(InFlight)
           batch == Interrupts
           V(k) == [t \in Tools |-> IF \E i \in 1 .. k : s[i] = t THEN "interrupted" ELSE c.status[t]]
           D(k) == [c EXCEPT !.status = V(k)]
           cs == [k \in 0 .. n |-> D(k)]
<1>0. InFlight \subseteq Tools /\ \A t \in InFlight : t \notin Edits
  BY DEF InFlight
<1>1. /\ n \in Nat /\ s \in [1 .. n -> InFlight]
      /\ \A i, k \in 1 .. n : s[i] = s[k] => i = k
      /\ \A t \in InFlight : \E i \in 1 .. n : s[i] = t
  BY <1>0, InOrderIs
<1>2. batch = [i \in 1 .. n |-> OfTool("tool.update", s[i], "interrupted")]
  <2>1. DOMAIN s = 1 .. n
    BY <1>1
  <2> QED BY <2>1 DEF Interrupts
<1> HIDE DEF n, s, batch
<1>3. \A i \in 1 .. n : OfTool("tool.update", s[i], "interrupted") \in HostPosts
  <2> SUFFICES ASSUME NEW i \in 1 .. n PROVE OfTool("tool.update", s[i], "interrupted") \in HostPosts
    OBVIOUS
  <2>1. s[i] \in Tools /\ hostTurn.number \in Nat
    BY <1>0, <1>1, AccountFacts
  <2> QED BY <2>1 DEF OfTool, HostPosts, ToolPosts
<1>4. batch \in Seq(HostPosts) /\ Len(batch) = n
      /\ \A i \in 1 .. n : batch[i] = OfTool("tool.update", s[i], "interrupted")
  <2> DEFINE M(i) == OfTool("tool.update", s[i], "interrupted")
  <2>1. \A i \in 1 .. n : M(i) \in HostPosts
    BY <1>3
  <2>2. batch = [i \in 1 .. n |-> M(i)]
    BY <1>2
  <2> HIDE DEF M
  <2>3. batch \in Seq(HostPosts) /\ Len(batch) = n /\ \A i \in 1 .. n : batch[i] = M(i)
    BY <1>1, <2>1, <2>2
  <2> QED BY <2>3 DEF M
<1>5. c.status \in [Tools -> {"none", "pending", "done", "interrupted"}]
  BY AccountFacts
<1>6. \A k \in 0 .. n : D(k) \in Accounts /\ D(k).status = V(k)
  <2> SUFFICES ASSUME NEW k \in 0 .. n PROVE D(k) \in Accounts /\ D(k).status = V(k)
    OBVIOUS
  <2>1. V(k) \in [Tools -> {"none", "pending", "done", "interrupted"}]
    BY <1>5
  <2> HIDE DEF V
  <2> QED BY <2>1 DEF Accounts
<1>7. D(0) = c
  <2>1. V(0) = c.status
    <3>1. \A t \in Tools : V(0)[t] = c.status[t]
      OBVIOUS
    <3> QED BY <1>5, <3>1
  <2> HIDE DEF V
  <2> QED BY <2>1 DEF Accounts
<1>8. D(n) = d
  <2>1. \A t \in Tools : (\E i \in 1 .. n : s[i] = t) <=> t \in InFlight
    BY <1>1
  <2>2. V(n) = [t \in Tools |-> IF t \in InFlight THEN "interrupted" ELSE c.status[t]]
    BY <2>1
  <2> QED BY <2>2
<1>9. ASSUME NEW k \in 1 .. n PROVE Legal(batch[k], D(k - 1), D(k))
  <2>1. k \in 0 .. n /\ k - 1 \in 0 .. n /\ s[k] \in InFlight
    BY <1>1
  <2>3. V(k) = [V(k - 1) EXCEPT ![s[k]] = "interrupted"]
    <3>1. \A t \in Tools : (\E i \in 1 .. k : s[i] = t) <=> (\E i \in 1 .. k - 1 : s[i] = t) \/ t = s[k]
      <4>1. \A i \in 1 .. k : i \in 1 .. k - 1 \/ i = k
        BY <1>1
      <4>2. \A i \in 1 .. k - 1 : i \in 1 .. k
        BY <1>1
      <4>3. k \in 1 .. k
        OBVIOUS
      <4> QED BY <4>1, <4>2, <4>3
    <3>2. s[k] \in Tools
      BY <1>0, <2>1
    <3> QED BY <3>1, <3>2
  <2> HIDE DEF V
  <2>4. D(k) = [D(k - 1) EXCEPT !.status = [@ EXCEPT ![s[k]] = "interrupted"]]
    BY <2>3 DEF Accounts
  <2>5. D(k - 1).number = c.number /\ D(k - 1).live
    BY DEF Accounts
  <2> HIDE DEF D
  <2>6. batch[k].type = "tool.update" /\ batch[k].turn = c.number /\ batch[k].tool = s[k]
        /\ batch[k].status = "interrupted"
    BY <1>4 DEF OfTool
  <2>7. s[k] \notin Edits
    BY <1>0, <2>1
  <2>8. UpdatesTool(batch[k], D(k - 1), D(k))
    BY <2>4, <2>5, <2>6, <2>7 DEF UpdatesTool
  <2> QED BY <2>5, <2>6, <2>8 DEF Legal
<1> HIDE DEF D
<1>10. cs \in [0 .. n -> Accounts] /\ \A k \in 0 .. n : cs[k] = D(k)
  BY <1>6
<1> HIDE DEF cs
<1>11. \A k \in 1 .. n : k \in 0 .. n /\ k - 1 \in 0 .. n
  BY <1>1
<1>12. \A k \in 1 .. n : Legal(batch[k], cs[k - 1], cs[k])
  BY <1>9, <1>10, <1>11
<1>13. cs[0] = c /\ cs[n] = d
  <2>1. 0 \in 0 .. n /\ n \in 0 .. n
    BY <1>1
  <2> QED BY <1>7, <1>8, <1>10, <2>1
<1>14. Reach(batch, c, d)
  BY <1>4, <1>10, <1>12, <1>13 DEF Reach
<1> QED BY <1>14 DEF batch

-----------------------------------------------------------------------------
\* The invariant.

Clicks == [tool : Tools, pick : {"allow", "deny", "accept"}]

\* Cards that the webview may show as decided before the host says so.
Clicked == {t \in Tools : \E i \in 1 .. Len(posts) : posts[i].tool = t /\ posts[i].pick # "accept"}

TranscriptHost ==
  /\ hostTurn \in [number : Nat, live : BOOLEAN, stopped : BOOLEAN, end : {"none", "complete", "cancelled"}]
  /\ translator \in [buffer : Seq(Nat), block : Nat,
                     status : [Tools -> {"none", "pending", "done", "interrupted"}]]
  /\ thoughts \in Nat /\ translator.block <= thoughts
  /\ events \in 0 .. MaxEvents /\ hostTurn.number <= events
  /\ verdict \in [Tools -> Settlements \cup {"none", "pending"}]
  /\ decided \in [Tools -> 0 .. Hunks - 1]
  /\ posts \in Seq(Clicks)
  /\ translator.buffer = Segment(0, Len(translator.buffer))
  /\ \A t \in Edits : translator.status[t] = "none"
  /\ hostTurn.live => 1 <= hostTurn.number
  /\ ~ hostTurn.live => \A t \in Tools : verdict[t] # "pending"

Account ==
  [number |-> hostTurn.number, live |-> hostTurn.live, end |-> hostTurn.end, verdict |-> verdict,
   status |-> translator.status, block |-> translator.block, length |-> Len(translator.buffer),
   clicked |-> Clicked]

TranscriptInv == TranscriptHost /\ Shows(items, Account)

LEMMA HostFacts ==
  ASSUME TranscriptHost
  PROVE  /\ hostTurn.number \in Nat /\ hostTurn.live \in BOOLEAN /\ hostTurn.end \in {"none", "complete", "cancelled"}
         /\ translator.buffer \in Seq(Nat) /\ translator.block \in Nat /\ Len(translator.buffer) \in Nat
         /\ translator.status \in [Tools -> {"none", "pending", "done", "interrupted"}]
         /\ Account \in Accounts
         /\ Account.number = hostTurn.number /\ Account.live = hostTurn.live /\ Account.end = hostTurn.end
         /\ Account.verdict = verdict /\ Account.status = translator.status
         /\ Account.block = translator.block /\ Account.length = Len(translator.buffer)
         /\ Account.clicked = Clicked
<1>1. /\ hostTurn.number \in Nat /\ hostTurn.live \in BOOLEAN /\ hostTurn.end \in {"none", "complete", "cancelled"}
      /\ translator.buffer \in Seq(Nat) /\ translator.block \in Nat
      /\ translator.status \in [Tools -> {"none", "pending", "done", "interrupted"}]
      /\ verdict \in [Tools -> Settlements \cup {"none", "pending"}]
  BY DEF TranscriptHost
<1>2. Len(translator.buffer) \in Nat
  BY <1>1
<1>3. Clicked \subseteq Tools
  BY DEF Clicked
<1>4. Account \in Accounts
  BY <1>1, <1>2, <1>3 DEF Account, Accounts
<1> QED BY <1>1, <1>2, <1>4 DEF Account

LEMMA ReachClosing ==
  ASSUME TranscriptHost, 1 <= hostTurn.number, NEW c \in Accounts,
         c.number = hostTurn.number, c.block = translator.block
  PROVE  [c EXCEPT !.block = 0] \in Accounts /\ Reach(Closing, c, [c EXCEPT !.block = 0])
<1> DEFINE d == [c EXCEPT !.block = 0]
<1>1. d \in Accounts
  BY DEF Accounts
<1>2. CASE translator.block = 0
  <2>1. d = c /\ Closing = << >>
    BY <1>2 DEF Accounts, Closing
  <2> HIDE DEF d
  <2>2. Reach(<< >>, c, c)
    BY ReachNone
  <2>3. Reach(Closing, c, d)
    BY <2>1, <2>2
  <2> QED BY <1>1, <2>3 DEF d
<1>3. CASE translator.block # 0
  <2> DEFINE m == [type |-> "reasoning.end", turn |-> hostTurn.number, block |-> translator.block]
  <2>1. Closing = << m >>
    BY <1>3 DEF Closing
  <2>2. m \in HostPosts
    BY HostFacts DEF HostPosts, ReasoningPosts
  <2>3. Legal(m, c, d)
    BY DEF Legal, StopsThinking
  <2> HIDE DEF d, m
  <2>4. Reach(<< m >>, c, d)
    BY <1>1, <2>2, <2>3, ReachOne
  <2> QED BY <1>1, <2>1, <2>4 DEF d
<1> QED BY <1>2, <1>3

LEMMA ClickedStays == posts' = posts => Clicked' = Clicked
BY DEF Clicked

\* A handler whose posts lead from what the host held to what it holds.
LEMMA EmitsKeeps ==
  ASSUME NEW batch, NEW c, Shows(items, c), Reach(batch, c, Account'), Emits(batch), TranscriptHost'
  PROVE  TranscriptInv'
<1>1. Shows(items', Account')
  BY ReachKeeps
<1> QED BY <1>1 DEF TranscriptInv

LEMMA StartTurnKeeps == ASSUME TranscriptInv, StartTurn PROVE TranscriptInv'
<1> DEFINE m == [type |-> "user", turn |-> hostTurn.number + 1]
<1>1. /\ ~ hostTurn.live /\ events < MaxEvents /\ events' = events + 1
      /\ hostTurn' = [number |-> hostTurn.number + 1, live |-> TRUE, stopped |-> FALSE, end |-> "none"]
      /\ translator' = NoTranslator /\ Emits(<< m >>)
      /\ thoughts' = thoughts /\ verdict' = verdict /\ decided' = decided /\ posts' = posts
  <2>1. StartTurn => hostTurn'.number = hostTurn.number + 1
    BY DEF StartTurn
  <2> QED BY <2>1 DEF StartTurn, Counted
<1>2. TranscriptHost /\ Shows(items, Account)
  BY DEF TranscriptInv
<1>3. MaxEvents \in Nat /\ hostTurn.number \in Nat /\ events \in Nat /\ hostTurn.number <= events
  BY <1>2, TranscriptAssumption, HostFacts DEF TranscriptHost
<1>4. TranscriptHost'
  <2>1. hostTurn' \in [number : Nat, live : BOOLEAN, stopped : BOOLEAN, end : {"none", "complete", "cancelled"}]
        /\ hostTurn'.number = hostTurn.number + 1 /\ hostTurn'.live
    BY <1>1, <1>3
  <2>2. translator' \in [buffer : Seq(Nat), block : Nat,
                         status : [Tools -> {"none", "pending", "done", "interrupted"}]]
        /\ translator'.block = 0 /\ translator'.buffer = << >>
        /\ \A t \in Tools : translator'.status[t] = "none"
    BY <1>1 DEF NoTranslator
  <2>3. Segment(0, Len(<< >>)) = << >>
    BY DEF Segment
  <2>4. events' \in 0 .. MaxEvents /\ hostTurn'.number <= events' /\ 1 <= hostTurn'.number
    BY <1>1, <1>3, <2>1
  <2>5. Edits \subseteq Tools
    BY TranscriptAssumption DEF Tools
  <2>6. /\ thoughts \in Nat /\ verdict \in [Tools -> Settlements \cup {"none", "pending"}]
        /\ decided \in [Tools -> 0 .. Hunks - 1] /\ posts \in Seq(Clicks)
    BY <1>2 DEF TranscriptHost
  <2>7. thoughts' \in Nat /\ translator'.block <= thoughts'
    BY <1>1, <2>2, <2>6
  <2> QED BY <1>1, <2>1, <2>2, <2>3, <2>4, <2>5, <2>6, <2>7 DEF TranscriptHost
<1>5. Account \in Accounts /\ Account' \in Accounts
  <2>1. Account \in Accounts
    BY <1>2, HostFacts
  <2>2. Clicked' \subseteq Tools
    BY DEF Clicked
  <2>3. Account' \in Accounts
    BY <1>4, <2>2 DEF TranscriptHost, Account, Accounts
  <2> QED BY <2>1, <2>3
<1>6. Legal(m, Account, Account')
  <2>1. Account'.number = hostTurn.number + 1 /\ Account'.live /\ Account'.length = 0
        /\ Account'.verdict = verdict /\ Account'.clicked = Clicked
    BY <1>1, ClickedStays DEF Account, NoTranslator
  <2>2. Account.number = hostTurn.number /\ ~ Account.live /\ Account.verdict = verdict /\ Account.clicked = Clicked
    BY <1>1 DEF Account
  <2> QED BY <2>1, <2>2 DEF Legal, Begins
<1>7. m \in HostPosts
  BY <1>3 DEF HostPosts, PlainPosts
<1> HIDE DEF m
<1>8. Reach(<< m >>, Account, Account')
  BY <1>5, <1>6, <1>7, ReachOne
<1> QED BY <1>1, <1>2, <1>4, <1>8, EmitsKeeps

\* What the host holds after a step, of the types of an account.
LEMMA AccountTyped == ASSUME TranscriptHost' PROVE Account' \in Accounts
<1>1. Clicked' \subseteq Tools
  BY DEF Clicked
<1>2. /\ hostTurn'.number \in Nat /\ hostTurn'.live \in BOOLEAN /\ hostTurn'.end \in {"none", "complete", "cancelled"}
      /\ translator'.buffer \in Seq(Nat) /\ translator'.block \in Nat
      /\ translator'.status \in [Tools -> {"none", "pending", "done", "interrupted"}]
      /\ verdict' \in [Tools -> Settlements \cup {"none", "pending"}]
  BY DEF TranscriptHost
<1>3. Len(translator'.buffer) \in Nat
  BY <1>2
<1> QED BY <1>1, <1>2, <1>3 DEF Account, Accounts

LEMMA AgentTextKeeps == ASSUME TranscriptInv, AgentText PROVE TranscriptInv'
<1> DEFINE n == Len(translator.buffer)
           m == [type |-> "message.delta", turn |-> hostTurn.number, text |-> << n + 1 >>]
           c == Account
           d == [c EXCEPT !.block = 0]
           e == [d EXCEPT !.length = @ + 1]
<1>1. TranscriptHost /\ Shows(items, c)
  BY DEF TranscriptInv
<1>2. /\ hostTurn.live /\ events < MaxEvents /\ events' = events + 1
      /\ translator' = [translator EXCEPT !.buffer = Append(@, n + 1), !.block = 0]
      /\ Emits(Append(Closing, m))
      /\ hostTurn' = hostTurn /\ verdict' = verdict /\ decided' = decided /\ posts' = posts
      /\ thoughts' = thoughts
  BY DEF AgentText, AgentUpdate, Counted
<1>3. /\ MaxEvents \in Nat /\ events \in Nat /\ hostTurn.number <= events /\ n \in Nat /\ hostTurn.number \in Nat
      /\ 1 <= hostTurn.number /\ translator.buffer \in Seq(Nat) /\ translator.buffer = Segment(0, n)
  BY <1>1, <1>2, TranscriptAssumption, HostFacts DEF TranscriptHost
<1>4. /\ translator'.buffer = Append(translator.buffer, n + 1) /\ translator'.block = 0
      /\ translator'.status = translator.status
      /\ translator' \in [buffer : Seq(Nat), block : Nat,
                          status : [Tools -> {"none", "pending", "done", "interrupted"}]]
  <2>1. Append(translator.buffer, n + 1) \in Seq(Nat)
    BY <1>3
  <2>2. translator \in [buffer : Seq(Nat), block : Nat,
                        status : [Tools -> {"none", "pending", "done", "interrupted"}]]
    BY <1>1 DEF TranscriptHost
  <2> HIDE DEF n
  <2> QED BY <1>2, <2>1, <2>2
<1>5. Len(translator'.buffer) = n + 1
  BY <1>3, <1>4, AppendProperties
<1>6. translator'.buffer = Segment(0, n + 1)
  <2> HIDE DEF n
  <2>0. n + 1 \in Nat
    BY <1>3
  <2>1. Append(translator.buffer, n + 1) = translator.buffer \o << n + 1 >>
    BY <1>3, <2>0, AppendIsConcat
  <2>2. Segment(0, n) \o Segment(n, n + 1) = Segment(0, n + 1)
    <3>1. 0 \in Nat /\ n + 1 \in Nat /\ 0 <= n /\ n <= n + 1
      BY <1>3
    <3> QED BY <1>3, <3>1, SegmentsJoin
  <2> QED BY <1>3, <1>4, <2>1, <2>2, OneMore
<1> HIDE DEF n
<1>7. TranscriptHost'
  <2>1. /\ hostTurn \in [number : Nat, live : BOOLEAN, stopped : BOOLEAN, end : {"none", "complete", "cancelled"}]
        /\ thoughts \in Nat /\ verdict \in [Tools -> Settlements \cup {"none", "pending"}]
        /\ decided \in [Tools -> 0 .. Hunks - 1] /\ posts \in Seq(Clicks)
        /\ \A t \in Edits : translator.status[t] = "none"
    BY <1>1 DEF TranscriptHost
  <2>2. events' \in 0 .. MaxEvents /\ hostTurn'.number <= events' /\ translator'.block <= thoughts
    BY <1>2, <1>3, <1>4, <2>1
  <2> QED BY <1>2, <1>3, <1>4, <1>5, <1>6, <2>1, <2>2 DEF TranscriptHost
<1>8. c \in Accounts /\ c.number = hostTurn.number /\ c.block = translator.block /\ c.live /\ c.length = n
  BY <1>1, <1>2, HostFacts DEF n
<1>9. d \in Accounts /\ Reach(Closing, c, d)
  BY <1>1, <1>3, <1>8, ReachClosing
<1>10. e \in Accounts /\ d.number = hostTurn.number /\ d.live /\ d.length = n
  <2>1. d.number = hostTurn.number /\ d.live /\ d.length = n
    BY <1>8 DEF Accounts
  <2>2. d \in Accounts /\ n + 1 \in Nat
    BY <1>3, <1>9
  <2> HIDE DEF d
  <2>3. e \in Accounts
    BY <2>1, <2>2 DEF Accounts
  <2> QED BY <2>1, <2>3
<1>11. Account' = e
  <2> DEFINE r == [number |-> hostTurn.number, live |-> hostTurn.live, end |-> hostTurn.end, verdict |-> verdict,
                   status |-> translator.status, block |-> 0, length |-> n + 1, clicked |-> Clicked]
  <2>1. d = [number |-> hostTurn.number, live |-> hostTurn.live, end |-> hostTurn.end, verdict |-> verdict,
             status |-> translator.status, block |-> 0, length |-> n, clicked |-> Clicked]
    BY DEF Account, n
  <2>2. e = r
    <3> HIDE DEF d
    <3>1. d.length = n
      BY <2>1
    <3>2. e = [d EXCEPT !.length = n + 1]
      BY <3>1
    <3> HIDE DEF e
    <3> QED BY <2>1, <3>2
  <2>3. Account' = r
    BY <1>2, <1>4, <1>5, ClickedStays DEF Account
  <2> QED BY <2>2, <2>3
<1>12. m \in HostPosts
  <2>1. << n + 1 >> \in Seq(Nat)
    BY <1>3
  <2> QED BY <1>3, <2>1 DEF HostPosts, TextPosts
<1> HIDE DEF c
<1>13. Legal(m, d, e)
  <2> HIDE DEF d
  <2> QED BY <1>3, <1>10 DEF Legal, Says
<1> HIDE DEF d, e, m
<1>14. Reach(Append(Closing, m), c, e)
  BY <1>9, <1>10, <1>12, <1>13, ReachAdd
<1> QED BY <1>1, <1>2, <1>7, <1>11, <1>14, EmitsKeeps

LEMMA SameAccount ==
  ASSUME NEW c \in Accounts, NEW d \in Accounts,
         c.number = d.number, c.live = d.live, c.end = d.end, c.verdict = d.verdict,
         c.status = d.status, c.block = d.block, c.length = d.length, c.clicked = d.clicked
  PROVE  c = d
BY DEF Accounts

\* The types of the host after a step of the agent or a bubble of the user.
LEMMA UpdateKeepsHost ==
  ASSUME TranscriptHost, hostTurn.live, Counted, hostTurn' = hostTurn, verdict' = verdict,
         decided' = decided, posts' = posts, thoughts' \in Nat,
         translator' \in [buffer : Seq(Nat), block : Nat,
                          status : [Tools -> {"none", "pending", "done", "interrupted"}]],
         translator'.block <= thoughts', translator'.buffer = translator.buffer,
         \A t \in Edits : translator'.status[t] = "none"
  PROVE  TranscriptHost'
<1>1. MaxEvents \in Nat /\ events \in Nat /\ hostTurn.number <= events /\ hostTurn.number \in Nat
  BY TranscriptAssumption, HostFacts DEF TranscriptHost
<1>2. events' \in 0 .. MaxEvents /\ hostTurn'.number <= events'
  BY <1>1 DEF Counted
<1>3. /\ hostTurn \in [number : Nat, live : BOOLEAN, stopped : BOOLEAN, end : {"none", "complete", "cancelled"}]
      /\ verdict \in [Tools -> Settlements \cup {"none", "pending"}]
      /\ decided \in [Tools -> 0 .. Hunks - 1] /\ posts \in Seq(Clicks)
      /\ translator.buffer = Segment(0, Len(translator.buffer)) /\ 1 <= hostTurn.number
  BY DEF TranscriptHost
<1> QED BY <1>2, <1>3 DEF TranscriptHost

LEMMA LiveFacts ==
  ASSUME TranscriptInv, hostTurn.live
  PROVE  /\ TranscriptHost /\ Shows(items, Account) /\ Account \in Accounts
         /\ 1 <= hostTurn.number /\ hostTurn.number \in Nat
         /\ Account.number = hostTurn.number /\ Account.live /\ Account.block = translator.block
         /\ translator \in [buffer : Seq(Nat), block : Nat,
                            status : [Tools -> {"none", "pending", "done", "interrupted"}]]
         /\ thoughts \in Nat /\ translator.block <= thoughts
         /\ \A t \in Edits : translator.status[t] = "none"
BY HostFacts DEF TranscriptInv, TranscriptHost

LEMMA AgentThinksKeeps == ASSUME TranscriptInv, AgentThinks PROVE TranscriptInv'
<1> DEFINE b == IF translator.block = 0 THEN thoughts + 1 ELSE translator.block
           m == [type |-> "reasoning.start", turn |-> hostTurn.number, block |-> b]
           c == Account
<1>1. /\ hostTurn.live /\ Counted
      /\ translator' = [translator EXCEPT !.block = b]
      /\ Emits(IF translator.block = 0 THEN << m >> ELSE << >>)
      /\ hostTurn' = hostTurn /\ verdict' = verdict /\ decided' = decided /\ posts' = posts
      /\ thoughts' = IF translator.block = 0 THEN b ELSE thoughts
  BY DEF AgentThinks, AgentUpdate
<1>2. /\ TranscriptHost /\ Shows(items, c) /\ c \in Accounts /\ c.number = hostTurn.number /\ c.live
      /\ c.block = translator.block /\ 1 <= hostTurn.number /\ hostTurn.number \in Nat
      /\ translator \in [buffer : Seq(Nat), block : Nat,
                         status : [Tools -> {"none", "pending", "done", "interrupted"}]]
      /\ thoughts \in Nat /\ translator.block <= thoughts
      /\ \A t \in Edits : translator.status[t] = "none"
  BY <1>1, LiveFacts
<1>3. b \in Nat /\ b # 0 /\ thoughts' \in Nat /\ b <= thoughts'
  BY <1>1, <1>2
<1> HIDE DEF b
<1>4. /\ translator' \in [buffer : Seq(Nat), block : Nat,
                          status : [Tools -> {"none", "pending", "done", "interrupted"}]]
      /\ translator'.block = b /\ translator'.buffer = translator.buffer
      /\ translator'.status = translator.status
  BY <1>1, <1>2, <1>3
<1>5. TranscriptHost'
  BY <1>1, <1>2, <1>3, <1>4, UpdateKeepsHost
<1>6. Account' \in Accounts
  BY <1>5, AccountTyped
<1>7. /\ Account'.number = c.number /\ Account'.live = c.live /\ Account'.end = c.end
      /\ Account'.verdict = c.verdict /\ Account'.status = c.status /\ Account'.length = c.length
      /\ Account'.clicked = c.clicked /\ Account'.block = b
  BY <1>1, <1>4, ClickedStays DEF Account
<1>8. CASE translator.block # 0
  <2>1. b = translator.block
    BY <1>8 DEF b
  <2>2. Account' = c
    <3> HIDE DEF c
    <3> QED BY <1>2, <1>6, <1>7, <2>1, SameAccount
  <2>3. Reach(<< >>, c, Account')
    BY <1>2, <2>2, ReachNone
  <2>4. Emits(<< >>)
    BY <1>1, <1>8
  <2> QED BY <1>2, <1>5, <2>3, <2>4, EmitsKeeps
<1>9. CASE translator.block = 0
  <2>1. Emits(<< m >>)
    BY <1>1, <1>9
  <2>2. ASSUME NEW d \in Accounts, d.number = c.number, d.live = c.live, d.end = c.end,
               d.verdict = c.verdict, d.status = c.status, d.length = c.length, d.clicked = c.clicked,
               d.block = b
        PROVE  Shows(items, d) /\ Legal(m, d, d)
    <3> HIDE DEF c
    <3>1. ASSUME NEW x \in TranscriptItems, ItemOk(x, c) PROVE ItemOk(x, d)
      <4>1. StreamOk(x, d)
        BY <1>2, <1>9, <2>2, <3>1 DEF ItemOk, StreamOk
      <4>2. x.kind = "approval" => CardOk(x, d)
        BY <2>2, <3>1 DEF ItemOk, CardOk
      <4>3. x.kind = "tool" => ToolOk(x, d)
        BY <2>2, <3>1 DEF ItemOk, ToolOk
      <4> QED BY <2>2, <3>1, <4>1, <4>2, <4>3 DEF ItemOk
    <3>2. Shows(items, d)
      BY <1>2, <2>2, <3>1, ShowsStill
    <3>3. Legal(m, d, d)
      BY <1>2, <1>3, <2>2 DEF Legal, Thinks
    <3> QED BY <3>2, <3>3
  <2>3. m \in HostPosts
    BY <1>2, <1>3 DEF HostPosts, ReasoningPosts
  <2> HIDE DEF m, c
  <2>4. Shows(items, Account') /\ Legal(m, Account', Account')
    BY <1>6, <1>7, <2>2
  <2>5. Reach(<< m >>, Account', Account')
    BY <1>6, <2>3, <2>4, ReachOne
  <2> QED BY <1>5, <2>1, <2>4, <2>5, EmitsKeeps
<1> QED BY <1>8, <1>9

LEMMA AgentToolKeeps == ASSUME TranscriptInv, AgentTool PROVE TranscriptInv'
<1> DEFINE c == Account
<1>1. PICK t \in Tools \ Edits, status \in {"pending", "done"} :
        /\ hostTurn.live /\ Counted
        /\ translator' = [translator EXCEPT !.status[t] = status, !.block = 0]
        /\ Emits(Append(Closing, OfTool(IF translator.status[t] = "none" THEN "tool.start" ELSE "tool.update",
                                        t, status)))
        /\ hostTurn' = hostTurn /\ verdict' = verdict /\ decided' = decided /\ posts' = posts
        /\ thoughts' = thoughts
  BY DEF AgentTool, AgentUpdate
<1>2. /\ TranscriptHost /\ Shows(items, c) /\ c \in Accounts /\ c.number = hostTurn.number /\ c.live
      /\ c.block = translator.block /\ 1 <= hostTurn.number /\ hostTurn.number \in Nat
      /\ translator \in [buffer : Seq(Nat), block : Nat,
                         status : [Tools -> {"none", "pending", "done", "interrupted"}]]
      /\ thoughts \in Nat /\ translator.block <= thoughts
      /\ \A u \in Edits : translator.status[u] = "none"
  BY <1>1, LiveFacts
<1>3. /\ translator' \in [buffer : Seq(Nat), block : Nat,
                          status : [Tools -> {"none", "pending", "done", "interrupted"}]]
      /\ translator'.block = 0 /\ translator'.buffer = translator.buffer
      /\ translator'.status = [translator.status EXCEPT ![t] = status]
  <2> DEFINE s == [translator.status EXCEPT ![t] = status]
  <2>1. s \in [Tools -> {"none", "pending", "done", "interrupted"}]
    BY <1>2
  <2>2. translator' = [translator EXCEPT !.status = s, !.block = 0]
    BY <1>1, <1>2
  <2> HIDE DEF s
  <2>3. /\ translator' \in [buffer : Seq(Nat), block : Nat,
                            status : [Tools -> {"none", "pending", "done", "interrupted"}]]
        /\ translator'.block = 0 /\ translator'.buffer = translator.buffer /\ translator'.status = s
    BY <1>2, <2>1, <2>2
  <2> QED BY <2>3 DEF s
<1>4. TranscriptHost'
  <2>1. \A u \in Edits : translator'.status[u] = "none"
    <3>1. Edits \subseteq Tools
      BY TranscriptAssumption DEF Tools
    <3> QED BY <1>2, <1>3, <3>1
  <2>2. translator'.block <= thoughts' /\ thoughts' \in Nat
    BY <1>1, <1>2, <1>3
  <2> QED BY <1>1, <1>2, <1>3, <2>1, <2>2, UpdateKeepsHost
<1>5. Account' \in Accounts
  BY <1>4, AccountTyped
<1>6. /\ Account'.number = c.number /\ Account'.live = c.live /\ Account'.end = c.end
      /\ Account'.verdict = c.verdict /\ Account'.length = c.length
      /\ Account'.clicked = c.clicked /\ Account'.block = 0
      /\ Account'.status = [translator.status EXCEPT ![t] = status] /\ c.status = translator.status
  BY <1>1, <1>3, ClickedStays DEF Account
<1> HIDE DEF c
<1>7. CASE translator.status[t] = "none"
  <2> DEFINE m == OfTool("tool.start", t, status)
             d == [c EXCEPT !.status = [@ EXCEPT ![t] = status]]
  <2>1. Emits(Append(Closing, m))
    BY <1>1, <1>7
  <2>2. /\ d.status = [c.status EXCEPT ![t] = status] /\ d.number = c.number /\ d.live = c.live
        /\ d.end = c.end /\ d.verdict = c.verdict /\ d.length = c.length /\ d.clicked = c.clicked
        /\ d.block = c.block /\ d \in Accounts
    <3>1. [c.status EXCEPT ![t] = status] \in [Tools -> {"none", "pending", "done", "interrupted"}]
      BY <1>2, <1>6
    <3> QED BY <1>2, <3>1 DEF Accounts
  <2> HIDE DEF d
  <2>3. d.status[t] = status /\ \A u \in Tools : u # t => d.status[u] = c.status[u]
    BY <1>2, <1>6, <2>2
  <2>4. ASSUME NEW x \in TranscriptItems, ItemOk(x, c) PROVE ItemOk(x, d)
    <3>1. StreamOk(x, d)
      BY <2>2, <2>4 DEF ItemOk, StreamOk
    <3>2. x.kind = "approval" => CardOk(x, d)
      BY <2>2, <2>4 DEF ItemOk, CardOk
    <3>3. ASSUME x.kind = "tool" PROVE ToolOk(x, d)
      <4>1. x.tool \in Tools /\ ToolOk(x, c)
        BY <2>4, <3>3, ItemFacts DEF ToolItems, ItemOk
      <4>2. x.tool = t => ~ (x.tool \notin Edits /\ x.turn = c.number)
        BY <1>6, <1>7, <4>1 DEF ToolOk
      <4> QED BY <2>2, <2>3, <4>1, <4>2 DEF ToolOk
    <3> QED BY <2>2, <2>4, <3>1, <3>2, <3>3 DEF ItemOk
  <2>5. Shows(items, d)
    BY <1>2, <2>2, <2>4, ShowsStill
  <2>6. m \in HostPosts /\ m.type = "tool.start" /\ m.turn = hostTurn.number /\ m.tool = t /\ m.status = status
    BY <1>2 DEF OfTool, HostPosts, ToolPosts
  <2> DEFINE e == [d EXCEPT !.block = 0]
  <2>7. e \in Accounts /\ Reach(Closing, d, e)
    BY <1>2, <2>2, ReachClosing
  <2>8. /\ e.status = d.status /\ e.number = d.number /\ e.live = d.live /\ e.end = d.end
        /\ e.verdict = d.verdict /\ e.length = d.length /\ e.clicked = d.clicked /\ e.block = 0
    BY <2>2 DEF Accounts
  <2> HIDE DEF e, m
  <2>9. Legal(m, e, e)
    BY <1>2, <2>2, <2>3, <2>6, <2>8 DEF Legal, StartsTool
  <2>10. Account' = e
    BY <1>5, <1>6, <2>2, <2>7, <2>8, SameAccount
  <2>11. Reach(Append(Closing, m), d, Account')
    BY <2>6, <2>7, <2>9, <2>10, ReachAdd
  <2> QED BY <1>4, <2>1, <2>5, <2>11, EmitsKeeps
<1>8. CASE translator.status[t] # "none"
  <2> DEFINE m == OfTool("tool.update", t, status)
             e == [c EXCEPT !.block = 0]
             d == [e EXCEPT !.status = [@ EXCEPT ![t] = status]]
  <2>1. Emits(Append(Closing, m))
    BY <1>1, <1>8
  <2>2. e \in Accounts /\ Reach(Closing, c, e)
    BY <1>2, ReachClosing
  <2>3. /\ e.status = c.status /\ e.number = c.number /\ e.live = c.live /\ e.end = c.end
        /\ e.verdict = c.verdict /\ e.length = c.length /\ e.clicked = c.clicked /\ e.block = 0
    BY <1>2 DEF Accounts
  <2> HIDE DEF e
  <2>4. /\ d.status = [e.status EXCEPT ![t] = status] /\ d.number = e.number /\ d.live = e.live
        /\ d.end = e.end /\ d.verdict = e.verdict /\ d.length = e.length /\ d.clicked = e.clicked
        /\ d.block = e.block /\ d \in Accounts
    <3>1. [e.status EXCEPT ![t] = status] \in [Tools -> {"none", "pending", "done", "interrupted"}]
      BY <1>2, <1>6, <2>3
    <3> QED BY <2>2, <3>1 DEF Accounts
  <2>5. m \in HostPosts /\ m.type = "tool.update" /\ m.turn = hostTurn.number /\ m.tool = t /\ m.status = status
    BY <1>2 DEF OfTool, HostPosts, ToolPosts
  <2>6. Legal(m, e, d)
    <3> HIDE DEF m
    <3>1. d = [e EXCEPT !.status = [@ EXCEPT ![m.tool] = m.status]]
      BY <2>5
    <3> HIDE DEF d
    <3> QED BY <1>2, <2>3, <2>5, <3>1 DEF Legal, UpdatesTool
  <2> HIDE DEF d, m
  <2>7. Account' = d
    BY <1>5, <1>6, <2>3, <2>4, SameAccount
  <2>8. Reach(Append(Closing, m), c, Account')
    BY <2>2, <2>4, <2>5, <2>6, <2>7, ReachAdd
  <2> QED BY <1>2, <1>4, <2>1, <2>8, EmitsKeeps
<1> QED BY <1>7, <1>8

\* A step of the agent or a bubble that closes the open block and adds one post.
LEMMA AddsKeeps ==
  ASSUME TranscriptInv, hostTurn.live, Counted, NEW m \in HostPosts,
         hostTurn' = hostTurn, verdict' = verdict, decided' = decided, posts' = posts,
         thoughts' = thoughts, translator' = [translator EXCEPT !.block = 0],
         Emits(Append(Closing, m)),
         \A e \in Accounts : e.live /\ e.number = hostTurn.number => Legal(m, e, e)
  PROVE  TranscriptInv'
<1> DEFINE c == Account
           e == [c EXCEPT !.block = 0]
<1>1. /\ TranscriptHost /\ Shows(items, c) /\ c \in Accounts /\ c.number = hostTurn.number /\ c.live
      /\ c.block = translator.block /\ 1 <= hostTurn.number /\ hostTurn.number \in Nat
      /\ translator \in [buffer : Seq(Nat), block : Nat,
                         status : [Tools -> {"none", "pending", "done", "interrupted"}]]
      /\ thoughts \in Nat /\ \A u \in Edits : translator.status[u] = "none"
  BY LiveFacts
<1>2. /\ translator' \in [buffer : Seq(Nat), block : Nat,
                          status : [Tools -> {"none", "pending", "done", "interrupted"}]]
      /\ translator'.block = 0 /\ translator'.buffer = translator.buffer
      /\ translator'.status = translator.status
  BY <1>1
<1>3. TranscriptHost'
  <2>1. translator'.block <= thoughts' /\ thoughts' \in Nat /\ \A u \in Edits : translator'.status[u] = "none"
    BY <1>1, <1>2
  <2> QED BY <1>1, <1>2, <2>1, UpdateKeepsHost
<1>4. Account' \in Accounts
  BY <1>3, AccountTyped
<1>5. /\ Account'.number = c.number /\ Account'.live = c.live /\ Account'.end = c.end
      /\ Account'.verdict = c.verdict /\ Account'.length = c.length
      /\ Account'.clicked = c.clicked /\ Account'.block = 0 /\ Account'.status = c.status
  BY <1>2, ClickedStays DEF Account
<1> HIDE DEF c
<1>6. e \in Accounts /\ Reach(Closing, c, e)
  BY <1>1, ReachClosing
<1>7. /\ e.status = c.status /\ e.number = c.number /\ e.live = c.live /\ e.end = c.end
      /\ e.verdict = c.verdict /\ e.length = c.length /\ e.clicked = c.clicked /\ e.block = 0
  BY <1>1 DEF Accounts
<1> HIDE DEF e
<1>8. Account' = e
  BY <1>4, <1>5, <1>6, <1>7, SameAccount
<1>9. Legal(m, e, e)
  BY <1>1, <1>6, <1>7
<1>10. Reach(Append(Closing, m), c, Account')
  BY <1>6, <1>8, <1>9, ReachAdd
<1> QED BY <1>1, <1>3, <1>10, EmitsKeeps

LEMMA AgentPlansKeeps == ASSUME TranscriptInv, AgentPlans PROVE TranscriptInv'
<1>1. PICK status \in {"active", "done"} :
        /\ AgentUpdate(Append(Closing, [type |-> "plan.update", turn |-> hostTurn.number, status |-> status]),
                       [translator EXCEPT !.block = 0])
        /\ thoughts' = thoughts
  BY DEF AgentPlans
<1> DEFINE m == [type |-> "plan.update", turn |-> hostTurn.number, status |-> status]
<1>2. /\ hostTurn.live /\ Counted /\ hostTurn' = hostTurn /\ verdict' = verdict /\ decided' = decided
      /\ posts' = posts /\ thoughts' = thoughts /\ translator' = [translator EXCEPT !.block = 0]
      /\ Emits(Append(Closing, m))
  BY <1>1 DEF AgentUpdate
<1>3. hostTurn.number \in Nat /\ 1 <= hostTurn.number
  BY <1>2, LiveFacts
<1>4. m \in HostPosts
  BY <1>3 DEF HostPosts, PlanPosts
<1>5. \A e \in Accounts : e.live /\ e.number = hostTurn.number => Legal(m, e, e)
  BY <1>3 DEF Legal, Plans
<1> HIDE DEF m
<1> QED BY <1>2, <1>4, <1>5, AddsKeeps

LEMMA UserBubbleKeeps == ASSUME TranscriptInv, UserBubble PROVE TranscriptInv'
<1>1. PICK goesOn \in BOOLEAN :
        /\ hostTurn.live /\ Counted
        /\ Emits((IF goesOn THEN Closing ELSE << >>) \o << Posted("user") >>)
        /\ translator' = IF goesOn THEN [translator EXCEPT !.block = 0] ELSE translator
        /\ hostTurn' = hostTurn /\ thoughts' = thoughts /\ verdict' = verdict /\ decided' = decided
        /\ posts' = posts
  BY DEF UserBubble
<1> DEFINE m == Posted("user")
           c == Account
<1>2. /\ TranscriptHost /\ Shows(items, c) /\ c \in Accounts /\ c.number = hostTurn.number /\ c.live
      /\ 1 <= hostTurn.number /\ hostTurn.number \in Nat
      /\ translator \in [buffer : Seq(Nat), block : Nat,
                         status : [Tools -> {"none", "pending", "done", "interrupted"}]]
      /\ thoughts \in Nat /\ translator.block <= thoughts
      /\ \A u \in Edits : translator.status[u] = "none"
  BY <1>1, LiveFacts
<1>3. m \in HostPosts /\ m.type = "user" /\ m.turn = hostTurn.number
  BY <1>2 DEF Posted, HostPosts, PlainPosts
<1>4. \A e \in Accounts : e.live /\ e.number = hostTurn.number => Legal(m, e, e)
  <2> HIDE DEF m
  <2> QED BY <1>2, <1>3 DEF Legal, AddsPlain
<1>5. CASE goesOn
  <2>1. Closing \in Seq(HostPosts)
    <3>1. Reach(Closing, c, [c EXCEPT !.block = 0])
      BY <1>1, <1>2, LiveFacts, ReachClosing
    <3> QED BY <3>1 DEF Reach
  <2> HIDE DEF m
  <2>2. Append(Closing, m) = Closing \o << m >>
    BY <1>3, <2>1, AppendIsConcat
  <2>3. Emits(Append(Closing, m)) /\ translator' = [translator EXCEPT !.block = 0]
    BY <1>1, <1>5, <2>2 DEF m
  <2> QED BY <1>1, <1>3, <1>4, <2>3, AddsKeeps
<1>6. CASE ~ goesOn
  <2>1. << >> \o << m >> = << m >>
    OBVIOUS
  <2>2. Emits(<< m >>) /\ translator' = translator
    BY <1>1, <1>6, <2>1
  <2>3. TranscriptHost'
    <3>1. translator'.block <= thoughts' /\ thoughts' \in Nat /\ \A u \in Edits : translator'.status[u] = "none"
      BY <1>1, <1>2, <2>2
    <3> QED BY <1>1, <1>2, <2>2, <3>1, UpdateKeepsHost
  <2>4. Account' = c
    BY <1>1, <2>2, ClickedStays DEF Account
  <2> HIDE DEF m, c
  <2>5. Reach(<< m >>, c, c)
    BY <1>2, <1>3, <1>4, ReachOne
  <2>6. Reach(<< m >>, c, Account')
    BY <2>4, <2>5
  <2> QED BY <1>2, <2>2, <2>3, <2>6, EmitsKeeps
<1> QED BY <1>5, <1>6

\* emitApprovalCard: the card is pending before its request is folded.
LEMMA AskApprovalKeeps == ASSUME TranscriptInv, NEW t \in Tools, AskApproval(t) PROVE TranscriptInv'
<1> DEFINE c == Account
           a == OfTool("tool.start", t, "pending")
           b == OfTool("approval.request", t, "pending")
           batch == (IF t \in Edits THEN << a >> ELSE << >>) \o << b >>
<1>1. /\ hostTurn.live /\ verdict[t] = "none" /\ Counted
      /\ verdict' = [verdict EXCEPT ![t] = "pending"] /\ Emits(batch)
      /\ hostTurn' = hostTurn /\ translator' = translator /\ thoughts' = thoughts
      /\ decided' = decided /\ posts' = posts
  BY DEF AskApproval
<1>2. /\ TranscriptHost /\ Shows(items, c) /\ c \in Accounts /\ c.number = hostTurn.number /\ c.live
      /\ 1 <= hostTurn.number /\ hostTurn.number \in Nat
  BY <1>1, LiveFacts
<1>3. verdict' \in [Tools -> Settlements \cup {"none", "pending"}] /\ verdict'[t] = "pending"
      /\ \A u \in Tools : u # t => verdict'[u] = verdict[u]
  BY <1>1, <1>2 DEF TranscriptHost
<1>4. TranscriptHost'
  <2>1. MaxEvents \in Nat /\ events \in Nat /\ hostTurn.number <= events
    BY <1>2, TranscriptAssumption DEF TranscriptHost
  <2>2. events' \in 0 .. MaxEvents /\ hostTurn'.number <= events'
    BY <1>1, <1>2, <2>1 DEF Counted
  <2> QED BY <1>1, <1>2, <1>3, <2>2 DEF TranscriptHost
<1> DEFINE d == Account'
<1>5. d \in Accounts
  BY <1>4, AccountTyped
<1>6. /\ d.number = c.number /\ d.live = c.live /\ d.end = c.end /\ d.status = c.status
      /\ d.block = c.block /\ d.length = c.length /\ d.clicked = c.clicked
      /\ d.verdict = verdict' /\ c.verdict = verdict
  BY <1>1, ClickedStays DEF Account
<1> HIDE DEF c, d
<1>7. ASSUME NEW x \in TranscriptItems, ItemOk(x, c) PROVE ItemOk(x, d)
  <2>1. StreamOk(x, d)
    BY <1>6, <1>7 DEF ItemOk, StreamOk
  <2>2. ASSUME x.kind = "approval" PROVE CardOk(x, d)
    <3>1. x.tool \in Tools /\ CardOk(x, c)
      BY <1>7, <2>2, ItemFacts DEF ApprovalItems, ItemOk
    <3>2. x.tool # t
      BY <1>1, <1>6, <3>1 DEF CardOk
    <3> QED BY <1>3, <1>6, <3>1, <3>2 DEF CardOk
  <2>3. ASSUME x.kind = "tool" PROVE ToolOk(x, d)
    <3>1. x.tool \in Tools /\ ToolOk(x, c)
      BY <1>7, <2>3, ItemFacts DEF ToolItems, ItemOk
    <3>2. x.tool \in Edits => x.tool # t
      BY <1>1, <1>6, <3>1 DEF ToolOk
    <3> QED BY <1>3, <1>6, <3>1, <3>2 DEF ToolOk
  <2> QED BY <1>6, <1>7, <2>1, <2>2, <2>3 DEF ItemOk
<1>8. Shows(items, d)
  BY <1>2, <1>5, <1>6, <1>7, ShowsStill
<1>9. /\ b \in HostPosts /\ b.type = "approval.request" /\ b.turn = hostTurn.number /\ b.tool = t
      /\ a \in HostPosts /\ a.type = "tool.start" /\ a.turn = hostTurn.number /\ a.tool = t /\ a.status = "pending"
  BY <1>2 DEF OfTool, HostPosts, ToolPosts
<1> HIDE DEF a, b
<1>10. Reach(<< b >>, d, d)
  <2>1. Legal(b, d, d)
    BY <1>2, <1>3, <1>6, <1>9 DEF Legal, Asks
  <2> QED BY <1>5, <1>9, <2>1, ReachOne
<1>11. Reach(batch, d, d)
  <2>1. CASE t \in Edits
    <3>1. Legal(a, d, d)
      BY <1>2, <1>3, <1>6, <1>9, <2>1 DEF Legal, StartsTool
    <3>2. Reach(<< a >>, d, d)
      BY <1>5, <1>9, <3>1, ReachOne
    <3>3. Reach(<< a >> \o << b >>, d, d)
      BY <1>10, <3>2, ReachJoin
    <3> QED BY <2>1, <3>3
  <2>2. CASE t \notin Edits
    <3>1. << >> \o << b >> = << b >>
      OBVIOUS
    <3> QED BY <1>10, <2>2, <3>1
  <2> QED BY <2>1, <2>2
<1> HIDE DEF batch
<1>12. Reach(batch, d, Account')
  BY <1>11 DEF d
<1> QED BY <1>1, <1>4, <1>8, <1>12, EmitsKeeps

\* settlePendingApprovals.
LEMMA SettledIs ==
  ASSUME TranscriptHost, NEW cards, NEW outcome \in Settlements, SettleCards(cards, outcome)
  PROVE  /\ verdict' = [t \in Tools |-> IF t \in cards THEN outcome ELSE verdict[t]]
         /\ verdict' \in [Tools -> Settlements \cup {"none", "pending"}]
         /\ decided' \in [Tools -> 0 .. Hunks - 1]
         /\ \A t \in Tools : verdict'[t] = "pending" => verdict[t] = "pending" /\ t \notin cards
<1>1. verdict \in [Tools -> Settlements \cup {"none", "pending"}] /\ decided \in [Tools -> 0 .. Hunks - 1]
  BY DEF TranscriptHost
<1>2. verdict' = [t \in Tools |-> IF t \in cards THEN outcome ELSE verdict[t]]
      /\ decided' = [t \in Tools |-> IF t \in cards THEN 0 ELSE decided[t]]
  BY DEF SettleCards
<1>3. 0 \in 0 .. Hunks - 1
  BY TranscriptAssumption
<1>4. outcome # "pending"
  BY DEF Settlements
<1> QED BY <1>1, <1>2, <1>3, <1>4

LEMMA ApprovalExpiresKeeps ==
  ASSUME TranscriptInv, NEW t \in Tools, ApprovalExpires(t) PROVE TranscriptInv'
<1> DEFINE c == Account
           batch == SettleMessages({t}, "expired")
           d == [c EXCEPT !.verdict = [u \in Tools |-> IF u \in {t} THEN "expired" ELSE c.verdict[u]]]
<1>1. /\ verdict[t] = "pending" /\ SettleCards({t}, "expired") /\ Emits(batch)
      /\ hostTurn' = hostTurn /\ translator' = translator /\ thoughts' = thoughts
      /\ events' = events /\ posts' = posts
  BY DEF ApprovalExpires, PendingCards
<1>2. hostTurn.live
  BY <1>1 DEF TranscriptInv, TranscriptHost
<1>3. /\ TranscriptHost /\ Shows(items, c) /\ c \in Accounts /\ c.number = hostTurn.number /\ c.live
      /\ 1 <= hostTurn.number /\ hostTurn.number \in Nat
  BY <1>2, LiveFacts
<1>4. /\ verdict' = [u \in Tools |-> IF u \in {t} THEN "expired" ELSE verdict[u]]
      /\ verdict' \in [Tools -> Settlements \cup {"none", "pending"}]
      /\ decided' \in [Tools -> 0 .. Hunks - 1]
  BY <1>1, <1>3, SettledIs DEF Settlements
<1>5. TranscriptHost'
  BY <1>1, <1>2, <1>3, <1>4 DEF TranscriptHost
<1>6. Account' \in Accounts
  BY <1>5, AccountTyped
<1>7. /\ Account'.number = c.number /\ Account'.live = c.live /\ Account'.end = c.end
      /\ Account'.status = c.status /\ Account'.block = c.block /\ Account'.length = c.length
      /\ Account'.clicked = c.clicked /\ Account'.verdict = verdict' /\ c.verdict = verdict
  BY <1>1, ClickedStays DEF Account
<1> HIDE DEF c
<1>8. /\ d.number = c.number /\ d.live = c.live /\ d.end = c.end
      /\ d.status = c.status /\ d.block = c.block /\ d.length = c.length
      /\ d.clicked = c.clicked /\ d.verdict = verdict' /\ d \in Accounts
  <2>1. [u \in Tools |-> IF u \in {t} THEN "expired" ELSE c.verdict[u]] = verdict'
    BY <1>4, <1>7
  <2>2. d = [c EXCEPT !.verdict = verdict']
    BY <2>1
  <2> HIDE DEF d
  <2> QED BY <1>3, <1>4, <2>2 DEF Accounts
<1>9. Reach(batch, c, d)
  <2>1. "expired" \in Settlements /\ {t} \subseteq Tools /\ \A u \in {t} : c.verdict[u] = "pending"
    BY <1>1, <1>7 DEF Settlements
  <2>2. d = [c EXCEPT !.verdict = [u \in Tools |-> IF u \in {t} THEN "expired" ELSE c.verdict[u]]]
    OBVIOUS
  <2> HIDE DEF d
  <2> QED BY <1>3, <1>8, <2>1, <2>2, ReachSettles
<1> HIDE DEF d, batch
<1>10. Account' = d
  BY <1>6, <1>7, <1>8, SameAccount
<1>11. Reach(batch, c, Account')
  BY <1>9, <1>10
<1> QED BY <1>1, <1>3, <1>5, <1>11, EmitsKeeps

\* cancel(): the tools in flight, then the cards.
LEMMA StopTurnKeeps == ASSUME TranscriptInv, StopTurn PROVE TranscriptInv'
<1> DEFINE c == Account
           S == [t \in Tools |-> IF t \in InFlight THEN "interrupted" ELSE translator.status[t]]
           d == [c EXCEPT !.status = [t \in Tools |-> IF t \in InFlight THEN "interrupted" ELSE c.status[t]]]
           e == [d EXCEPT !.verdict = [t \in Tools |-> IF t \in PendingCards THEN "cancelled" ELSE d.verdict[t]]]
           batch == SettleMessages(PendingCards, "cancelled")
<1>1. /\ hostTurn.live /\ hostTurn' = [hostTurn EXCEPT !.stopped = TRUE]
      /\ translator' = [translator EXCEPT !.status =
                          [t \in Tools |-> IF t \in InFlight THEN "interrupted" ELSE @[t]]]
      /\ SettleCards(PendingCards, "cancelled") /\ Emits(Interrupts \o batch)
      /\ thoughts' = thoughts /\ events' = events /\ posts' = posts
  BY DEF StopTurn
<1>2. /\ TranscriptHost /\ Shows(items, c) /\ c \in Accounts /\ c.number = hostTurn.number /\ c.live
      /\ 1 <= hostTurn.number /\ hostTurn.number \in Nat
      /\ translator \in [buffer : Seq(Nat), block : Nat,
                         status : [Tools -> {"none", "pending", "done", "interrupted"}]]
      /\ \A t \in Edits : translator.status[t] = "none"
  BY <1>1, LiveFacts
<1>3. /\ verdict' = [t \in Tools |-> IF t \in PendingCards THEN "cancelled" ELSE verdict[t]]
      /\ verdict' \in [Tools -> Settlements \cup {"none", "pending"}]
      /\ decided' \in [Tools -> 0 .. Hunks - 1]
  BY <1>1, <1>2, SettledIs DEF Settlements
<1>4. S \in [Tools -> {"none", "pending", "done", "interrupted"}] /\ \A t \in Edits : S[t] = "none"
  <2>1. Edits \subseteq Tools
    BY TranscriptAssumption DEF Tools
  <2>2. \A t \in Edits : t \in Tools /\ t \notin InFlight
    BY <1>2, <2>1 DEF InFlight
  <2> QED BY <1>2, <2>2
<1>5. /\ translator' \in [buffer : Seq(Nat), block : Nat,
                          status : [Tools -> {"none", "pending", "done", "interrupted"}]]
      /\ translator'.status = S /\ translator'.buffer = translator.buffer /\ translator'.block = translator.block
  <2>1. translator' = [translator EXCEPT !.status = S]
    BY <1>1
  <2> HIDE DEF S
  <2> QED BY <1>2, <1>4, <2>1
<1>6. TranscriptHost'
  <2>1. /\ hostTurn' \in [number : Nat, live : BOOLEAN, stopped : BOOLEAN, end : {"none", "complete", "cancelled"}]
        /\ hostTurn'.live = hostTurn.live /\ hostTurn'.number = hostTurn.number
    BY <1>1, <1>2 DEF TranscriptHost
  <2> HIDE DEF S
  <2> QED BY <1>1, <1>2, <1>3, <1>4, <1>5, <2>1 DEF TranscriptHost
<1>7. Account' \in Accounts
  BY <1>6, AccountTyped
<1>8. hostTurn'.number = hostTurn.number /\ hostTurn'.live = hostTurn.live /\ hostTurn'.end = hostTurn.end
  BY <1>1, <1>2 DEF TranscriptHost
<1>9. /\ Account'.number = c.number /\ Account'.live = c.live /\ Account'.end = c.end
      /\ Account'.status = S /\ Account'.block = c.block /\ Account'.length = c.length
      /\ Account'.clicked = c.clicked /\ Account'.verdict = verdict' /\ c.verdict = verdict
      /\ c.status = translator.status
  <2> HIDE DEF S
  <2> QED BY <1>1, <1>5, <1>8, ClickedStays DEF Account
<1> HIDE DEF c
<1>10. /\ d.number = c.number /\ d.live = c.live /\ d.end = c.end /\ d.status = S
       /\ d.block = c.block /\ d.length = c.length /\ d.clicked = c.clicked
       /\ d.verdict = c.verdict /\ d \in Accounts
  <2>1. [t \in Tools |-> IF t \in InFlight THEN "interrupted" ELSE c.status[t]] = S
    BY <1>9
  <2>2. d = [c EXCEPT !.status = S]
    BY <2>1
  <2> HIDE DEF d, S
  <2> QED BY <1>2, <1>4, <2>2 DEF Accounts
<1>11. Reach(Interrupts, c, d)
  <2>1. \A t \in Edits : translator.status[t] # "pending"
    BY <1>2
  <2>2. d = [c EXCEPT !.status = [t \in Tools |-> IF t \in InFlight THEN "interrupted" ELSE c.status[t]]]
    OBVIOUS
  <2> HIDE DEF d, S
  <2> QED BY <1>2, <1>10, <2>1, <2>2, ReachInterrupts
<1> HIDE DEF d, S
<1>12. /\ e.number = d.number /\ e.live = d.live /\ e.end = d.end /\ e.status = d.status
       /\ e.block = d.block /\ e.length = d.length /\ e.clicked = d.clicked
       /\ e.verdict = verdict' /\ e \in Accounts
  <2>1. [t \in Tools |-> IF t \in PendingCards THEN "cancelled" ELSE d.verdict[t]] = verdict'
    BY <1>3, <1>9, <1>10
  <2>2. e = [d EXCEPT !.verdict = verdict']
    BY <2>1
  <2> HIDE DEF e
  <2> QED BY <1>3, <1>10, <2>2 DEF Accounts
<1>13. Reach(batch, d, e)
  <2>1. /\ "cancelled" \in Settlements /\ PendingCards \subseteq Tools
        /\ \A t \in PendingCards : d.verdict[t] = "pending"
    BY <1>9, <1>10 DEF Settlements, PendingCards
  <2>2. e = [d EXCEPT !.verdict = [t \in Tools |-> IF t \in PendingCards THEN "cancelled" ELSE d.verdict[t]]]
    OBVIOUS
  <2> HIDE DEF e
  <2> QED BY <1>2, <1>10, <1>12, <2>1, <2>2, ReachSettles
<1> HIDE DEF e, batch
<1>14. Account' = e
  BY <1>7, <1>9, <1>10, <1>12, SameAccount
<1>15. Reach(Interrupts \o batch, c, Account')
  BY <1>11, <1>13, <1>14, ReachJoin
<1> QED BY <1>1, <1>2, <1>6, <1>15, EmitsKeeps

\* emitTurnEnd, after posts that close the open block or leave it.
LEMMA EndsTurnKeeps ==
  ASSUME TranscriptInv, NEW before, NEW status \in {"complete", "cancelled"}, NEW d \in Accounts,
         EndsTurn(before, status), Reach(before, Account, d),
         d.number = Account.number, d.live = Account.live, d.end = Account.end,
         d.verdict = Account.verdict, d.status = Account.status, d.length = Account.length,
         d.clicked = Account.clicked, d.block = translator'.block,
         translator' \in [buffer : Seq(Nat), block : Nat,
                          status : [Tools -> {"none", "pending", "done", "interrupted"}]],
         translator'.buffer = translator.buffer, translator'.status = translator.status,
         translator'.block <= translator.block, status = "complete" => translator'.block = 0
  PROVE  TranscriptInv'
<1> DEFINE outcome == IF status = "complete" THEN "superseded" ELSE "cancelled"
           m == [type |-> "turn.end", turn |-> hostTurn.number, status |-> status]
           batch == SettleMessages(PendingCards, outcome)
           e == [d EXCEPT !.verdict = [t \in Tools |-> IF t \in PendingCards THEN outcome ELSE d.verdict[t]]]
           f == [e EXCEPT !.live = FALSE, !.end = status]
<1>1. /\ hostTurn.live /\ hostTurn' = [hostTurn EXCEPT !.live = FALSE, !.end = status]
      /\ SettleCards(PendingCards, outcome) /\ Emits(before \o batch \o << m >>)
      /\ thoughts' = thoughts /\ events' = events /\ posts' = posts
  BY DEF EndsTurn
<1>2. /\ TranscriptHost /\ Shows(items, Account) /\ Account \in Accounts /\ Account.number = hostTurn.number
      /\ 1 <= hostTurn.number /\ hostTurn.number \in Nat /\ translator.block \in Nat
      /\ thoughts \in Nat /\ translator.block <= thoughts /\ \A t \in Edits : translator.status[t] = "none"
  BY <1>1, LiveFacts
<1>3. outcome \in Settlements
  BY DEF Settlements
<1>4. /\ verdict' = [t \in Tools |-> IF t \in PendingCards THEN outcome ELSE verdict[t]]
      /\ verdict' \in [Tools -> Settlements \cup {"none", "pending"}]
      /\ decided' \in [Tools -> 0 .. Hunks - 1]
      /\ \A t \in Tools : verdict'[t] # "pending"
  BY <1>1, <1>2, <1>3, SettledIs DEF PendingCards
<1>5. /\ hostTurn' \in [number : Nat, live : BOOLEAN, stopped : BOOLEAN, end : {"none", "complete", "cancelled"}]
      /\ ~ hostTurn'.live /\ hostTurn'.number = hostTurn.number /\ hostTurn'.end = status
  BY <1>1, <1>2 DEF TranscriptHost
<1> HIDE DEF outcome
<1>6. TranscriptHost'
  <2>1. translator'.block <= thoughts'
    BY <1>1, <1>2
  <2> QED BY <1>1, <1>2, <1>4, <1>5, <2>1 DEF TranscriptHost
<1>7. Account' \in Accounts
  BY <1>6, AccountTyped
<1>8. /\ Account'.number = d.number /\ Account'.live = FALSE /\ Account'.end = status
      /\ Account'.status = d.status /\ Account'.block = d.block /\ Account'.length = d.length
      /\ Account'.clicked = d.clicked /\ Account'.verdict = verdict' /\ d.verdict = verdict
  BY <1>1, <1>5, ClickedStays DEF Account
<1>9. /\ e.number = d.number /\ e.live = d.live /\ e.end = d.end /\ e.status = d.status
      /\ e.block = d.block /\ e.length = d.length /\ e.clicked = d.clicked
      /\ e.verdict = verdict' /\ e \in Accounts
  <2>1. [t \in Tools |-> IF t \in PendingCards THEN outcome ELSE d.verdict[t]] = verdict'
    BY <1>4, <1>8
  <2>2. e = [d EXCEPT !.verdict = verdict']
    BY <2>1
  <2> HIDE DEF e
  <2> QED BY <1>4, <2>2 DEF Accounts
<1>10. Reach(batch, d, e)
  <2>1. PendingCards \subseteq Tools /\ \A t \in PendingCards : d.verdict[t] = "pending"
    BY <1>8 DEF PendingCards
  <2>2. e = [d EXCEPT !.verdict = [t \in Tools |-> IF t \in PendingCards THEN outcome ELSE d.verdict[t]]]
    OBVIOUS
  <2> HIDE DEF e
  <2> QED BY <1>2, <1>3, <1>9, <2>1, <2>2, ReachSettles
<1> HIDE DEF e
<1>11. /\ f.number = e.number /\ f.live = FALSE /\ f.end = status /\ f.status = e.status
       /\ f.block = e.block /\ f.length = e.length /\ f.clicked = e.clicked
       /\ f.verdict = e.verdict /\ f \in Accounts
  BY <1>9 DEF Accounts
<1>12. m \in HostPosts /\ m.type = "turn.end" /\ m.turn = hostTurn.number /\ m.status = status
  BY <1>2 DEF HostPosts, EndPosts
<1>13. Legal(m, e, f)
  <2>1. f = [e EXCEPT !.live = FALSE, !.end = m.status]
    OBVIOUS
  <2> HIDE DEF f, m
  <2>2. m.status = "complete" => e.block = 0
    BY <1>9, <1>12
  <2> QED BY <1>2, <1>4, <1>9, <1>12, <2>1, <2>2 DEF Legal, EndsIt
<1> HIDE DEF f, m, batch
<1>14. Account' = f
  <2> DEFINE g == Account'
  <2>1. /\ g \in Accounts /\ g.number = d.number /\ g.live = FALSE /\ g.end = status
        /\ g.status = d.status /\ g.block = d.block /\ g.length = d.length
        /\ g.clicked = d.clicked /\ g.verdict = verdict'
    BY <1>7, <1>8
  <2> HIDE DEF g
  <2>2. /\ g.number = f.number /\ g.end = f.end /\ g.verdict = f.verdict /\ g.status = f.status
        /\ g.block = f.block /\ g.length = f.length /\ g.clicked = f.clicked
    BY <1>9, <1>11, <2>1
  <2>3. g.live = f.live
    BY <1>11, <2>1
  <2>4. g = f
    BY <1>11, <2>1, <2>2, <2>3, SameAccount
  <2> QED BY <2>4 DEF g
<1>15. Reach(<< m >>, e, f)
  BY <1>9, <1>11, <1>12, <1>13, ReachOne
<1>16. Reach(before \o batch, Account, e)
  BY <1>10, ReachJoin
<1>17. Reach((before \o batch) \o << m >>, Account, Account')
  BY <1>14, <1>15, <1>16, ReachJoin
<1> QED BY <1>1, <1>2, <1>6, <1>17, EmitsKeeps

LEMMA TurnBreaksKeeps == ASSUME TranscriptInv, TurnBreaks PROVE TranscriptInv'
<1>1. EndsTurn(<< >>, "cancelled") /\ translator' = translator /\ hostTurn.live
  BY DEF TurnBreaks, EndsTurn
<1>2. /\ Account \in Accounts /\ Account.block = translator.block
      /\ translator \in [buffer : Seq(Nat), block : Nat,
                         status : [Tools -> {"none", "pending", "done", "interrupted"}]]
  BY <1>1, LiveFacts
<1>3. Reach(<< >>, Account, Account)
  BY <1>2, ReachNone
<1>4. translator'.block <= translator.block
  BY <1>1, <1>2
<1> QED BY <1>1, <1>2, <1>3, <1>4, EndsTurnKeeps

LEMMA PromptAnsweredKeeps == ASSUME TranscriptInv, PromptAnswered PROVE TranscriptInv'
<1> DEFINE c == Account
           d == [c EXCEPT !.block = 0]
           m == [type |-> "message.end", turn |-> hostTurn.number, text |-> translator.buffer]
           said == IF translator.buffer = << >> THEN << >> ELSE << m >>
           r == Posted("result.summary")
<1>1. PICK status \in {"complete", "cancelled"} :
        EndsTurn(Append(Closing \o said, r), status) /\ translator' = [translator EXCEPT !.block = 0]
  BY DEF PromptAnswered, Finish
<1>2. hostTurn.live
  BY <1>1 DEF EndsTurn
<1>3. /\ TranscriptHost /\ Shows(items, c) /\ c \in Accounts /\ c.number = hostTurn.number
      /\ c.block = translator.block /\ 1 <= hostTurn.number /\ hostTurn.number \in Nat
      /\ translator \in [buffer : Seq(Nat), block : Nat,
                         status : [Tools -> {"none", "pending", "done", "interrupted"}]]
      /\ c.length = Len(translator.buffer) /\ translator.buffer = Segment(0, Len(translator.buffer))
  BY <1>2, LiveFacts, HostFacts DEF TranscriptHost
<1> HIDE DEF c
<1>4. d \in Accounts /\ Reach(Closing, c, d)
  BY <1>3, ReachClosing
<1>5. /\ d.number = c.number /\ d.live = c.live /\ d.end = c.end /\ d.verdict = c.verdict
      /\ d.status = c.status /\ d.block = 0 /\ d.length = c.length /\ d.clicked = c.clicked
  BY <1>3 DEF Accounts
<1> HIDE DEF d
<1>6. Reach(said, d, d)
  <2>1. CASE translator.buffer = << >>
    BY <1>4, <2>1, ReachNone
  <2>2. CASE translator.buffer # << >>
    <3>1. m \in HostPosts /\ m.type = "message.end" /\ m.turn = hostTurn.number /\ m.text = translator.buffer
      BY <1>3 DEF HostPosts, TextPosts
    <3>2. Len(translator.buffer) # 0
      BY <1>3, <2>2
    <3> HIDE DEF m
    <3>3. m.text = Segment(0, d.length)
      BY <1>3, <1>5, <3>1
    <3>4. Legal(m, d, d)
      BY <1>3, <1>5, <3>1, <3>2, <3>3 DEF Legal, SaidAll
    <3>5. Reach(<< m >>, d, d)
      BY <1>4, <3>1, <3>4, ReachOne
    <3> QED BY <2>2, <3>5
  <2> QED BY <2>1, <2>2
<1> HIDE DEF said
<1>7. r \in HostPosts /\ r.type = "result.summary" /\ r.turn = hostTurn.number
  BY <1>3 DEF Posted, HostPosts, PlainPosts
<1> HIDE DEF r
<1>8. Legal(r, d, d)
  BY <1>3, <1>5, <1>7 DEF Legal, AddsPlain
<1>9. Reach(Closing \o said, c, d)
  BY <1>4, <1>6, ReachJoin
<1>10. Reach(Append(Closing \o said, r), c, d)
  BY <1>4, <1>7, <1>8, <1>9, ReachAdd
<1>11. /\ translator' \in [buffer : Seq(Nat), block : Nat,
                           status : [Tools -> {"none", "pending", "done", "interrupted"}]]
       /\ translator'.buffer = translator.buffer /\ translator'.status = translator.status
       /\ translator'.block = 0 /\ translator'.block <= translator.block
  BY <1>1, <1>3
<1>12. /\ Reach(Append(Closing \o said, r), Account, d) /\ d.number = Account.number /\ d.live = Account.live
       /\ d.end = Account.end /\ d.verdict = Account.verdict /\ d.status = Account.status
       /\ d.length = Account.length /\ d.clicked = Account.clicked /\ d.block = translator'.block
  BY <1>5, <1>10, <1>11 DEF c
<1> QED BY <1>1, <1>4, <1>11, <1>12, EndsTurnKeeps

\* A click that is handled leaves; the others stay.
LEMMA ClickedTail ==
  ASSUME posts \in Seq(Clicks), posts # << >>, posts' = Tail(posts)
  PROVE  /\ Head(posts) \in Clicks /\ posts' \in Seq(Clicks) /\ Clicked' \subseteq Clicked
         /\ \A t \in Clicked : t # Head(posts).tool => t \in Clicked'
         /\ Head(posts).pick = "accept" => Clicked' = Clicked
<1>1. /\ Head(posts) \in Clicks /\ Tail(posts) \in Seq(Clicks) /\ Len(Tail(posts)) = Len(posts) - 1
      /\ \A i \in 1 .. Len(Tail(posts)) : Tail(posts)[i] = posts[i + 1]
      /\ Len(posts) \in Nat /\ Len(posts) # 0 /\ Head(posts) = posts[1]
  BY HeadTailProperties
<1>2. Clicked' \subseteq Clicked
  <2> SUFFICES ASSUME NEW t \in Clicked' PROVE t \in Clicked
    OBVIOUS
  <2>1. PICK i \in 1 .. Len(Tail(posts)) : Tail(posts)[i].tool = t /\ Tail(posts)[i].pick # "accept"
    BY DEF Clicked
  <2>2. i + 1 \in 1 .. Len(posts) /\ posts[i + 1].tool = t /\ posts[i + 1].pick # "accept"
    BY <1>1, <2>1
  <2>3. t \in Tools
    BY DEF Clicked
  <2> QED BY <2>2, <2>3 DEF Clicked
<1>3. ASSUME NEW t \in Clicked, t # Head(posts).tool \/ Head(posts).pick = "accept" PROVE t \in Clicked'
  <2>1. t \in Tools /\ \E i \in 1 .. Len(posts) : posts[i].tool = t /\ posts[i].pick # "accept"
    BY DEF Clicked
  <2>2. PICK i \in 1 .. Len(posts) : posts[i].tool = t /\ posts[i].pick # "accept"
    BY <2>1
  <2>3. i # 1
    BY <1>1, <1>3, <2>2
  <2>4. i - 1 \in 1 .. Len(Tail(posts)) /\ (i - 1) + 1 = i
    BY <1>1, <2>2, <2>3
  <2>5. Tail(posts)[i - 1] = posts[i]
    BY <1>1, <2>4
  <2> QED BY <2>1, <2>2, <2>4, <2>5 DEF Clicked
<1> QED BY <1>1, <1>2, <1>3

\* Once the host has heard a click, its card is settled or the click changed nothing.
LEMMA HeardStill ==
  ASSUME NEW c \in Accounts, NEW d \in Accounts, NEW list, NEW T, Shows(list, c),
         d.number = c.number, d.live = c.live, d.end = c.end, d.verdict = c.verdict,
         d.status = c.status, d.block = c.block, d.length = c.length,
         c.verdict[T] # "pending", \A t \in c.clicked : t # T => t \in d.clicked
  PROVE  Shows(list, d)
<1>1. ASSUME NEW x \in TranscriptItems, ItemOk(x, c) PROVE ItemOk(x, d)
  <2>1. StreamOk(x, d)
    BY <1>1 DEF ItemOk, StreamOk
  <2>2. ASSUME x.kind = "approval" PROVE CardOk(x, d)
    <3>1. CardOk(x, c)
      BY <1>1, <2>2 DEF ItemOk
    <3> QED BY <3>1 DEF CardOk
  <2>3. x.kind = "tool" => ToolOk(x, d)
    BY <1>1 DEF ItemOk, ToolOk
  <2> QED BY <1>1, <2>1, <2>2, <2>3 DEF ItemOk
<1> QED BY <1>1, ShowsStill

LEMMA HostHandlesKeeps == ASSUME TranscriptInv, HostHandles PROVE TranscriptInv'
<1> DEFINE c == Account
           T == Head(posts).tool
           action == Head(posts).pick
           all == decided[T] + 1
           choice == IF action # "accept" THEN action ELSE IF all = Hunks THEN "allow" ELSE "none"
<1>1. /\ posts # << >> /\ posts' = Tail(posts)
      /\ IF T \notin PendingCards THEN verdict' = verdict /\ decided' = decided /\ items' = items
         ELSE IF choice = "none"
         THEN decided' = [decided EXCEPT ![T] = all] /\ verdict' = verdict /\ items' = items
         ELSE SettleCards({T}, choice) /\ Emits(SettleMessages({T}, choice))
      /\ hostTurn' = hostTurn /\ translator' = translator /\ thoughts' = thoughts /\ events' = events
  BY DEF HostHandles
<1>2. TranscriptHost /\ Shows(items, c) /\ c \in Accounts /\ c.number = hostTurn.number /\ c.verdict = verdict
  BY HostFacts DEF TranscriptInv
<1>3. /\ T \in Tools /\ action \in {"allow", "deny", "accept"} /\ posts' \in Seq(Clicks)
      /\ \A t \in Clicked : t # T => t \in Clicked'
      /\ action = "accept" => Clicked' = Clicked
  <2>1. posts \in Seq(Clicks)
    BY <1>2 DEF TranscriptHost
  <2>2. Head(posts) \in Clicks
    BY <1>1, <2>1, ClickedTail
  <2> QED BY <1>1, <2>1, <2>2, ClickedTail DEF Clicks
<1>4. Hunks \in Nat /\ decided \in [Tools -> 0 .. Hunks - 1] /\ all \in 1 .. Hunks
  <2>1. Hunks \in Nat /\ decided \in [Tools -> 0 .. Hunks - 1]
    BY <1>2, TranscriptAssumption DEF TranscriptHost
  <2>2. decided[T] \in 0 .. Hunks - 1
    BY <1>3, <2>1
  <2> QED BY <2>1, <2>2
<1> HIDE DEF T, action, all
<1>5. ASSUME verdict' = verdict, decided' \in [Tools -> 0 .. Hunks - 1], items' = items,
             verdict[T] # "pending" \/ Clicked' = Clicked
      PROVE  TranscriptInv'
  <2>1. TranscriptHost'
    BY <1>1, <1>2, <1>3, <1>5 DEF TranscriptHost
  <2>2. Account' \in Accounts
    BY <2>1, AccountTyped
  <2>3. /\ Account'.number = c.number /\ Account'.live = c.live /\ Account'.end = c.end
        /\ Account'.verdict = c.verdict /\ Account'.status = c.status /\ Account'.block = c.block
        /\ Account'.length = c.length /\ c.clicked = Clicked /\ Account'.clicked = Clicked'
    BY <1>1, <1>5 DEF Account
  <2> HIDE DEF c
  <2>4. Shows(items, Account')
    <3>1. CASE Clicked' = Clicked
      <4>1. Account' = c
        BY <1>2, <2>2, <2>3, <3>1, SameAccount
      <4> QED BY <1>2, <4>1
    <3>2. CASE verdict[T] # "pending"
      <4>1. \A t \in c.clicked : t # T => t \in Account'.clicked
        BY <1>3, <2>3
      <4> QED BY <1>2, <2>2, <2>3, <3>2, <4>1, HeardStill
    <3> QED BY <1>5, <3>1, <3>2
  <2>5. Shows(items', Account')
    BY <1>5, <2>4
  <2> QED BY <2>1, <2>5 DEF TranscriptInv
<1>6. CASE T \notin PendingCards
  <2>1. verdict[T] # "pending"
    BY <1>3, <1>6 DEF PendingCards
  <2> HIDE DEF choice
  <2> QED BY <1>1, <1>4, <1>5, <1>6, <2>1
<1>7. CASE T \in PendingCards /\ choice = "none"
  <2>1. action = "accept" /\ all # Hunks
    BY <1>3, <1>7
  <2>2. all \in 0 .. Hunks - 1
    BY <1>4, <2>1
  <2>3. [decided EXCEPT ![T] = all] \in [Tools -> 0 .. Hunks - 1]
    BY <1>4, <2>2
  <2>4. verdict' = verdict /\ decided' = [decided EXCEPT ![T] = all] /\ items' = items
    BY <1>1, <1>7
  <2> HIDE DEF choice
  <2> QED BY <1>3, <1>5, <2>1, <2>3, <2>4
<1>8. CASE T \in PendingCards /\ choice # "none"
  <2> DEFINE batch == SettleMessages({T}, choice)
             d == [c EXCEPT !.verdict = [u \in Tools |-> IF u \in {T} THEN choice ELSE c.verdict[u]]]
  <2>1. choice \in {"allow", "deny"}
    BY <1>3, <1>8
  <2>2. SettleCards({T}, choice) /\ Emits(batch)
    BY <1>1, <1>8
  <2> HIDE DEF choice
  <2>3. choice \in Settlements /\ choice # "pending"
    BY <2>1 DEF Settlements
  <2>4. verdict[T] = "pending"
    BY <1>8 DEF PendingCards
  <2>5. hostTurn.live
    BY <1>2, <1>3, <2>4 DEF TranscriptHost
  <2>6. /\ verdict' = [u \in Tools |-> IF u \in {T} THEN choice ELSE verdict[u]]
        /\ verdict' \in [Tools -> Settlements \cup {"none", "pending"}]
        /\ decided' \in [Tools -> 0 .. Hunks - 1]
    BY <1>2, <2>2, <2>3, SettledIs
  <2>7. TranscriptHost'
    BY <1>1, <1>2, <1>3, <2>5, <2>6 DEF TranscriptHost
  <2>8. Account' \in Accounts
    BY <2>7, AccountTyped
  <2>9. /\ Account'.number = c.number /\ Account'.live = c.live /\ Account'.end = c.end
        /\ Account'.verdict = verdict' /\ Account'.status = c.status /\ Account'.block = c.block
        /\ Account'.length = c.length /\ c.clicked = Clicked /\ Account'.clicked = Clicked'
    BY <1>1 DEF Account
  <2> HIDE DEF c
  <2>10. /\ d.number = c.number /\ d.live = c.live /\ d.end = c.end /\ d.status = c.status
         /\ d.block = c.block /\ d.length = c.length /\ d.clicked = c.clicked
         /\ d.verdict = verdict' /\ d \in Accounts
    <3>1. [u \in Tools |-> IF u \in {T} THEN choice ELSE c.verdict[u]] = verdict'
      BY <1>2, <2>6
    <3>2. d = [c EXCEPT !.verdict = verdict']
      BY <3>1
    <3> HIDE DEF d
    <3> QED BY <1>2, <2>6, <3>2 DEF Accounts
  <2>11. Reach(batch, c, d)
    <3>1. {T} \subseteq Tools /\ \A u \in {T} : c.verdict[u] = "pending"
      BY <1>2, <1>3, <2>4
    <3>2. d = [c EXCEPT !.verdict = [u \in Tools |-> IF u \in {T} THEN choice ELSE c.verdict[u]]]
      OBVIOUS
    <3>3. 1 <= c.number
      BY <1>2, <2>5 DEF TranscriptHost
    <3> HIDE DEF d
    <3> QED BY <1>2, <2>3, <2>10, <3>1, <3>2, <3>3, ReachSettles
  <2> HIDE DEF d, batch
  <2>12. Shows(items', d)
    BY <1>2, <2>2, <2>11, ReachKeeps
  <2>13. d.verdict[T] # "pending"
    BY <1>3, <2>3, <2>6, <2>10
  <2>14. \A t \in d.clicked : t # T => t \in Account'.clicked
    BY <1>3, <2>9, <2>10
  <2> DEFINE g == Account'
             list == items'
  <2>15. /\ Shows(list, d) /\ g \in Accounts /\ g.number = d.number /\ g.live = d.live /\ g.end = d.end
         /\ g.verdict = d.verdict /\ g.status = d.status /\ g.block = d.block /\ g.length = d.length
         /\ \A t \in d.clicked : t # T => t \in g.clicked
    BY <2>8, <2>9, <2>10, <2>12, <2>14
  <2> HIDE DEF g, list
  <2>16. Shows(list, g)
    BY <2>10, <2>13, <2>15, HeardStill
  <2> QED BY <2>7, <2>16 DEF TranscriptInv, g, list
<1> QED BY <1>6, <1>7, <1>8

\* A click on a card.
LEMMA ClickKeepsHost ==
  ASSUME TranscriptHost, Counted, NEW click \in Clicks, posts' = Append(posts, click),
         hostTurn' = hostTurn, translator' = translator, thoughts' = thoughts,
         verdict' = verdict, decided' = decided
  PROVE  /\ TranscriptHost' /\ Account' \in Accounts
         /\ Account'.number = Account.number /\ Account'.live = Account.live /\ Account'.end = Account.end
         /\ Account'.verdict = verdict /\ Account'.status = Account.status
         /\ Account'.block = Account.block /\ Account'.length = Account.length
         /\ Account.clicked \subseteq Account'.clicked
         /\ click.pick # "accept" => click.tool \in Account'.clicked
<1>1. posts \in Seq(Clicks) /\ Len(posts) \in Nat
  BY DEF TranscriptHost
<1>2. /\ posts' \in Seq(Clicks) /\ Len(posts') = Len(posts) + 1 /\ posts'[Len(posts) + 1] = click
      /\ \A i \in 1 .. Len(posts) : posts'[i] = posts[i]
  BY <1>1, AppendProperties
<1>3. TranscriptHost'
  <2>1. MaxEvents \in Nat /\ events \in Nat /\ hostTurn.number <= events /\ hostTurn.number \in Nat
    BY TranscriptAssumption, HostFacts DEF TranscriptHost
  <2>2. events' \in 0 .. MaxEvents /\ hostTurn'.number <= events'
    BY <2>1 DEF Counted
  <2> QED BY <1>2, <2>2 DEF TranscriptHost
<1>4. Account' \in Accounts
  BY <1>3, AccountTyped
<1>5. Clicked \subseteq Clicked'
  <2> SUFFICES ASSUME NEW t \in Clicked PROVE t \in Clicked'
    OBVIOUS
  <2>1. t \in Tools /\ \E i \in 1 .. Len(posts) : posts[i].tool = t /\ posts[i].pick # "accept"
    BY DEF Clicked
  <2>2. PICK i \in 1 .. Len(posts) : posts[i].tool = t /\ posts[i].pick # "accept"
    BY <2>1
  <2>3. i \in 1 .. Len(posts') /\ posts'[i] = posts[i]
    BY <1>1, <1>2, <2>2
  <2> QED BY <2>1, <2>2, <2>3 DEF Clicked
<1>6. click.pick # "accept" => click.tool \in Clicked'
  <2>1. Len(posts) + 1 \in 1 .. Len(posts') /\ click.tool \in Tools
    BY <1>1, <1>2 DEF Clicks
  <2> QED BY <1>2, <2>1 DEF Clicked
<1> QED BY <1>3, <1>4, <1>5, <1>6 DEF Account

LEMMA ClickedOk ==
  ASSUME NEW c, NEW d, NEW x, ItemOk(x, c),
         d.number = c.number, d.live = c.live, d.end = c.end, d.verdict = c.verdict,
         d.status = c.status, d.block = c.block, c.clicked \subseteq d.clicked
  PROVE  ItemOk(x, d)
<1>1. StreamOk(x, d)
  BY DEF ItemOk, StreamOk
<1>2. x.kind = "approval" => CardOk(x, d)
  BY DEF ItemOk, CardOk
<1>3. x.kind = "tool" => ToolOk(x, d)
  BY DEF ItemOk, ToolOk
<1> QED BY <1>1, <1>2, <1>3 DEF ItemOk

\* A card that takes a click is pending.
LEMMA LiveCardPending ==
  ASSUME NEW c \in Accounts, NEW x \in TranscriptItems, ItemOk(x, c), LiveCard(x)
  PROVE  x \in ApprovalItems /\ x.tool \in Tools /\ c.verdict[x.tool] = "pending"
<1>1. x \in ApprovalItems /\ x.tool \in Tools /\ x.settled = "none" /\ CardOk(x, c) /\ x.kind = "approval"
  BY ItemFacts DEF LiveCard, ApprovalItems, ItemOk
<1>2. c.verdict[x.tool] \in Settlements \cup {"none", "pending"}
  BY <1>1, AccountFacts
<1> QED BY <1>1, <1>2 DEF CardOk, Settlements

\* A card on which something was clicked.
LEMMA PickedOk ==
  ASSUME NEW c \in Accounts, NEW d \in Accounts, NEW x \in ApprovalItems, ItemOk(x, c),
         NEW s \in {"none", "selected"}, NEW r \in {"allow", "deny"},
         c.verdict[x.tool] = "pending", c.live, d.live = c.live, d.verdict = c.verdict,
         x.tool \in d.clicked
  PROVE  LET y == [x EXCEPT !.settled = s, !.resolved = r] IN
         Quieter(x, y) /\ ItemOk(y, d) /\ y \in TranscriptItems
<1> DEFINE y == [x EXCEPT !.settled = s, !.resolved = r]
<1>1. /\ y \in ApprovalItems /\ y.tool = x.tool /\ y.kind = "approval" /\ x.kind = "approval"
      /\ y.turn = x.turn
  BY DEF ApprovalItems
<1> HIDE DEF y
<1>2. StreamOk(y, d) /\ CardOk(y, d)
  BY <1>1 DEF StreamOk, CardOk
<1>3. 1 <= y.turn
  BY <1>1 DEF ItemOk
<1>4. ItemOk(y, d)
  BY <1>1, <1>2, <1>3 DEF ItemOk
<1>5. Quieter(x, y)
  BY <1>1 DEF Quieter, TranscriptItems
<1> QED BY <1>1, <1>4, <1>5 DEF y, TranscriptItems

LEMMA PickOptionKeeps == ASSUME TranscriptInv, PickOption PROVE TranscriptInv'
<1> DEFINE c == Account
           d == Account'
<1>1. PICK i \in DOMAIN items, option \in {"allow", "deny"} :
        /\ LiveCard(items[i]) /\ Counted
        /\ items' = [items EXCEPT ![i].resolved = option]
        /\ posts' = Append(posts, [tool |-> items[i].tool, pick |-> option])
        /\ hostTurn' = hostTurn /\ translator' = translator /\ thoughts' = thoughts
        /\ verdict' = verdict /\ decided' = decided
  BY DEF PickOption
<1>2. TranscriptHost /\ Shows(items, c) /\ c \in Accounts /\ c.verdict = verdict /\ c.live = hostTurn.live
  BY HostFacts DEF TranscriptInv
<1>3. /\ items \in Seq(TranscriptItems) /\ DOMAIN items = 1 .. Len(items) /\ Len(items) \in Nat
      /\ \A k \in 1 .. Len(items) : items[k] \in TranscriptItems /\ ItemOk(items[k], c)
  BY <1>2 DEF Shows
<1> DEFINE x == items[i]
           T == x.tool
           y == [x EXCEPT !.settled = "none", !.resolved = option]
           out == [items EXCEPT ![i] = y]
<1>4. x \in ApprovalItems /\ T \in Tools /\ verdict[T] = "pending" /\ ItemOk(x, c) /\ x.settled = "none"
  BY <1>1, <1>2, <1>3, LiveCardPending DEF LiveCard
<1>5. hostTurn.live
  BY <1>2, <1>4 DEF TranscriptHost
<1>6. /\ TranscriptHost' /\ d \in Accounts
      /\ d.number = c.number /\ d.live = c.live /\ d.end = c.end /\ d.verdict = verdict
      /\ d.status = c.status /\ d.block = c.block /\ d.length = c.length
      /\ c.clicked \subseteq d.clicked /\ T \in d.clicked
  <2> DEFINE click == [tool |-> T, pick |-> option]
  <2>1. click \in Clicks /\ click.pick # "accept" /\ click.tool = T /\ posts' = Append(posts, click)
    BY <1>1, <1>4 DEF Clicks
  <2> HIDE DEF click
  <2> QED BY <1>1, <1>2, <2>1, ClickKeepsHost
<1> HIDE DEF c, d
<1>7. items' = out
  <2>1. y = [x EXCEPT !.resolved = option]
    BY <1>4 DEF ApprovalItems
  <2> HIDE DEF y
  <2> QED BY <1>1, <2>1
<1>8. Quieter(x, y) /\ ItemOk(y, d) /\ y \in TranscriptItems
  <2> HIDE DEF x
  <2> QED BY <1>2, <1>4, <1>5, <1>6, PickedOk
<1> HIDE DEF y
<1>9. /\ out \in Seq(TranscriptItems) /\ Len(out) = Len(items)
      /\ \A k \in 1 .. Len(items) : out[k] = IF k = i THEN y ELSE items[k]
  BY <1>3, <1>8, ExceptSeq
<1>10. \A k \in 1 .. Len(items) : Quieter(items[k], out[k]) /\ ItemOk(out[k], d)
  <2> SUFFICES ASSUME NEW k \in 1 .. Len(items) PROVE Quieter(items[k], out[k]) /\ ItemOk(out[k], d)
    OBVIOUS
  <2> HIDE DEF out
  <2>1. Quieter(items[k], items[k]) /\ ItemOk(items[k], d)
    BY <1>2, <1>3, <1>6, QuieterSelf, ClickedOk
  <2> QED BY <1>8, <1>9, <2>1
<1> HIDE DEF out, x, T
<1>11. Shows(out, d)
  BY <1>2, <1>6, <1>9, <1>10, ShowsAll
<1>12. Shows(items', d)
  BY <1>7, <1>11
<1> QED BY <1>6, <1>12 DEF TranscriptInv, d

LEMMA PickHunkKeeps == ASSUME TranscriptInv, PickHunk PROVE TranscriptInv'
<1> DEFINE c == Account
           d == Account'
<1>1. PICK i \in DOMAIN items, action \in {"accept", "deny"} :
        /\ items[i].kind = "tool" /\ Counted
        /\ HasItem(items, LAMBDA a : LiveCard(a) /\ a.tool = items[i].tool)
        /\ items' = [k \in DOMAIN items |->
             IF k = i THEN [items[k] EXCEPT !.hunks = @ + 1]
             ELSE IF action = "deny" /\ items[k].kind = "approval" /\ items[k].tool = items[i].tool
             THEN [items[k] EXCEPT !.resolved = "deny", !.settled = "selected"]
             ELSE items[k]]
        /\ posts' = Append(posts, [tool |-> items[i].tool, pick |-> action])
        /\ hostTurn' = hostTurn /\ translator' = translator /\ thoughts' = thoughts
        /\ verdict' = verdict /\ decided' = decided
  BY DEF PickHunk
<1>2. TranscriptHost /\ Shows(items, c) /\ c \in Accounts /\ c.verdict = verdict /\ c.live = hostTurn.live
  BY HostFacts DEF TranscriptInv
<1>3. /\ items \in Seq(TranscriptItems) /\ DOMAIN items = 1 .. Len(items) /\ Len(items) \in Nat
      /\ \A k \in 1 .. Len(items) : items[k] \in TranscriptItems /\ ItemOk(items[k], c)
  BY <1>2 DEF Shows
<1> DEFINE x == items[i]
           T == x.tool
           y == [x EXCEPT !.hunks = @ + 1]
           F(k) == IF k = i THEN y
                   ELSE IF action = "deny" /\ items[k].kind = "approval" /\ items[k].tool = T
                   THEN [items[k] EXCEPT !.settled = "selected", !.resolved = "deny"]
                   ELSE items[k]
           out == [k \in 1 .. Len(items) |-> F(k)]
<1>4. T \in Tools /\ verdict[T] = "pending"
  <2>1. PICK k \in 1 .. Len(items) : LiveCard(items[k]) /\ items[k].tool = T
    BY <1>1, <1>3 DEF HasItem
  <2> QED BY <1>2, <1>3, <2>1, LiveCardPending
<1>5. hostTurn.live
  BY <1>2, <1>4 DEF TranscriptHost
<1>6. /\ TranscriptHost' /\ d \in Accounts
      /\ d.number = c.number /\ d.live = c.live /\ d.end = c.end /\ d.verdict = verdict
      /\ d.status = c.status /\ d.block = c.block /\ d.length = c.length
      /\ c.clicked \subseteq d.clicked /\ (action = "deny" => T \in d.clicked)
  <2> DEFINE click == [tool |-> T, pick |-> action]
  <2>1. click \in Clicks /\ click.pick = action /\ click.tool = T /\ posts' = Append(posts, click)
    BY <1>1, <1>4 DEF Clicks
  <2> HIDE DEF click
  <2> QED BY <1>1, <1>2, <2>1, ClickKeepsHost
<1> HIDE DEF c, d
<1>7. \A k \in 1 .. Len(items) : items[k] \in ApprovalItems =>
        [items[k] EXCEPT !.settled = "selected", !.resolved = "deny"]
          = [items[k] EXCEPT !.resolved = "deny", !.settled = "selected"]
  BY DEF ApprovalItems
<1>8. items' = out
  <2>1. \A k \in 1 .. Len(items) : items[k].kind = "approval" => items[k] \in ApprovalItems
    BY <1>3, ItemFacts
  <2> QED BY <1>1, <1>3, <1>7, <2>1
<1>9. ASSUME NEW k \in 1 .. Len(items)
      PROVE  F(k) \in TranscriptItems /\ Quieter(items[k], F(k)) /\ ItemOk(F(k), d)
  <2>1. items[k] \in TranscriptItems /\ ItemOk(items[k], c) /\ ItemOk(items[k], d)
    BY <1>2, <1>3, <1>6, ClickedOk
  <2>2. CASE k = i
    <3>1. x \in ToolItems /\ ItemOk(x, d)
      BY <1>1, <2>1, <2>2, ItemFacts
    <3> HIDE DEF x
    <3>2. /\ y \in ToolItems /\ y.kind = "tool" /\ x.kind = "tool" /\ y.turn = x.turn /\ y.tool = x.tool
          /\ y.status = x.status
      BY <3>1 DEF ToolItems
    <3> HIDE DEF y
    <3>3. ItemOk(y, d)
      <4>1. StreamOk(y, d)
        BY <3>2 DEF StreamOk
      <4>2. ToolOk(y, d)
        BY <3>1, <3>2 DEF ItemOk, ToolOk
      <4>3. ~ d.live => FALSE
        BY <1>2, <1>5, <1>6
      <4> QED BY <3>1, <3>2, <4>1, <4>2, <4>3 DEF ItemOk
    <3>4. Quieter(x, y) /\ y \in TranscriptItems
      BY <3>2 DEF Quieter, TranscriptItems
    <3> QED BY <2>2, <3>3, <3>4 DEF x
  <2>3. CASE k # i /\ action = "deny" /\ items[k].kind = "approval" /\ items[k].tool = T
    <3>1. items[k] \in ApprovalItems
      BY <2>1, <2>3, ItemFacts
    <3> DEFINE w == items[k]
               z == [w EXCEPT !.settled = "selected", !.resolved = "deny"]
    <3>2. F(k) = z
      BY <2>3
    <3> HIDE DEF F
    <3>3. w \in ApprovalItems /\ ItemOk(w, c) /\ w.tool = T
      BY <2>1, <2>3, <3>1
    <3> HIDE DEF w, T, x
    <3>4. Quieter(w, z) /\ ItemOk(z, d) /\ z \in TranscriptItems
      BY <1>2, <1>4, <1>5, <1>6, <2>3, <3>3, PickedOk
    <3> QED BY <3>2, <3>4 DEF w
  <2>4. CASE k # i /\ ~ (action = "deny" /\ items[k].kind = "approval" /\ items[k].tool = T)
    <3>1. F(k) = items[k]
      BY <2>4
    <3> HIDE DEF F
    <3> QED BY <2>1, <3>1, QuieterSelf
  <2> QED BY <2>2, <2>3, <2>4
<1> HIDE DEF F
<1>10. /\ out \in Seq(TranscriptItems) /\ Len(out) = Len(items)
       /\ \A k \in 1 .. Len(items) : Quieter(items[k], out[k]) /\ ItemOk(out[k], d)
  BY <1>3, <1>9
<1> HIDE DEF out, x, T
<1>11. Shows(out, d)
  BY <1>2, <1>6, <1>10, ShowsAll
<1>12. Shows(items', d)
  BY <1>8, <1>11
<1> QED BY <1>6, <1>12 DEF TranscriptInv, d

LEMMA TranscriptInitInv == TranscriptInit => TranscriptInv
<1> SUFFICES ASSUME TranscriptInit PROVE TranscriptInv
  OBVIOUS
<1>1. /\ hostTurn = [number |-> 0, live |-> FALSE, stopped |-> FALSE, end |-> "none"]
      /\ translator = NoTranslator /\ thoughts = 0 /\ events = 0
      /\ verdict = [t \in Tools |-> "none"] /\ decided = [t \in Tools |-> 0]
      /\ posts = << >> /\ items = << >>
  BY DEF TranscriptInit
<1>2. /\ translator \in [buffer : Seq(Nat), block : Nat,
                         status : [Tools -> {"none", "pending", "done", "interrupted"}]]
      /\ translator.buffer = << >> /\ translator.block = 0 /\ \A t \in Tools : translator.status[t] = "none"
  BY <1>1 DEF NoTranslator
<1>3. Segment(0, Len(<< >>)) = << >>
  BY DEF Segment
<1>4. TranscriptHost
  <2>1. Edits \subseteq Tools /\ Hunks \in Nat \ {0} /\ MaxEvents \in Nat
    BY TranscriptAssumption DEF Tools
  <2> QED BY <1>1, <1>2, <1>3, <2>1 DEF TranscriptHost
<1>5. Account.number = 0 /\ Account.length = 0
  BY <1>1, <1>2 DEF Account
<1>6. Len(items) = 0 /\ items \in Seq(TranscriptItems) /\ MessagesOf(items, 0) = {}
  BY <1>1 DEF MessagesOf
<1>7. TurnsGrow(items, 0) /\ IdsDiffer(items, 0) /\ OpenIsNewest(items, 0)
  BY <1>1, <1>6 DEF TurnsGrow, IdsDiffer, OpenIsNewest
<1>8. TextShown(items, 0, 0)
  <2> DEFINE ends == [i \in 0 .. 0 |-> 0]
  <2>1. ends \in [0 .. Len(items) -> Nat] /\ \A i \in 0 .. Len(items) : ends[i] = 0
    BY <1>6
  <2> HIDE DEF ends
  <2>2. \A i \in 1 .. Len(items) : FALSE
    BY <1>6
  <2> QED BY <2>1, <2>2 DEF TextShown
<1> QED BY <1>4, <1>5, <1>6, <1>7, <1>8 DEF TranscriptInv, Shows, BlocksShow

LEMMA TranscriptKeeps == TranscriptInv /\ [TranscriptNext]_transcriptVars => TranscriptInv'
<1> SUFFICES ASSUME TranscriptInv, [TranscriptNext]_transcriptVars PROVE TranscriptInv'
  OBVIOUS
<1>1. CASE UNCHANGED transcriptVars
  <2>1. /\ hostTurn' = hostTurn /\ translator' = translator /\ thoughts' = thoughts /\ events' = events
        /\ verdict' = verdict /\ decided' = decided /\ posts' = posts /\ items' = items
    BY <1>1 DEF transcriptVars, hostVars
  <2>2. TranscriptHost'
    BY <2>1 DEF TranscriptInv, TranscriptHost
  <2>3. Account' = Account
    BY <2>1, ClickedStays DEF Account
  <2>4. Shows(items', Account')
    BY <2>1, <2>3 DEF TranscriptInv
  <2> QED BY <2>2, <2>4 DEF TranscriptInv
<1>2. CASE TranscriptNext
  <2>1. CASE \E t \in Tools : AskApproval(t) \/ ApprovalExpires(t)
    BY <2>1, AskApprovalKeeps, ApprovalExpiresKeeps
  <2> QED BY <1>2, <2>1, StartTurnKeeps, AgentTextKeeps, AgentThinksKeeps, AgentToolKeeps,
             AgentPlansKeeps, UserBubbleKeeps, StopTurnKeeps, PromptAnsweredKeeps, TurnBreaksKeeps,
             HostHandlesKeeps, PickOptionKeeps, PickHunkKeeps DEF TranscriptNext
<1> QED BY <1>1, <1>2

LEMMA TextWhole == ASSUME TranscriptInv PROVE TextIsWhole
<1> DEFINE N == Len(items)
           turn == hostTurn.number
           length == Len(translator.buffer)
           blocks == MessagesOf(items, turn)
           texts == [i \in 1 .. N |-> OwnText(items[i], turn)]
<1>1. /\ TranscriptHost /\ Shows(items, Account)
      /\ Account.number = turn /\ Account.length = length
  BY HostFacts DEF TranscriptInv
<1>2. /\ items \in Seq(TranscriptItems) /\ TextShown(items, turn, length) /\ IdsDiffer(items, turn)
      /\ N \in Nat /\ DOMAIN items = 1 .. N
  BY <1>1 DEF Shows, BlocksShow
<1>3. translator.buffer = Segment(0, length)
  BY <1>1 DEF TranscriptHost
<1>4. [i \in DOMAIN items |-> IF i \in blocks THEN items[i].text ELSE << >>] = texts
  BY <1>2 DEF MessagesOf, OwnText
<1>5. \A k \in blocks : k \in 1 .. N
  BY <1>2 DEF MessagesOf
<1>6. \A i, k \in blocks : items[i].id = items[k].id => i = k
  BY <1>2 DEF IdsDiffer
<1> HIDE DEF turn, length, blocks
<1>7. PICK ends \in [0 .. N -> Nat] :
        /\ \A i \in 0 .. N :
             /\ (\A k \in blocks : i < k) => ends[i] = 0
             /\ (\A k \in blocks : k <= i) => ends[i] = length
        /\ \A i \in 1 .. N : ends[i - 1] <= ends[i] /\ OwnText(items[i], turn) = Segment(ends[i - 1], ends[i])
  BY <1>2 DEF TextShown, blocks
<1>8. ends[0] = 0 /\ ends[N] = length
  <2> HIDE DEF N
  <2>1. 0 \in 0 .. N /\ N \in 0 .. N /\ (\A k \in blocks : 0 < k) /\ (\A k \in blocks : k <= N)
    BY <1>2, <1>5
  <2> QED BY <1>7, <2>1
<1>9. FlattenSeq(texts) = Segment(0, length)
  <2>1. \A i \in 1 .. N : ends[i - 1] <= ends[i] /\ texts[i] = Segment(ends[i - 1], ends[i])
    BY <1>7
  <2>2. \A i \in 1 .. N : OwnText(items[i], turn) \in Seq(Nat)
    <3>1. \A i \in 1 .. N : items[i] \in TranscriptItems
      BY <1>2
    <3> QED BY <3>1, ItemFacts DEF OwnText, MessageItems
  <2>3. texts \in Seq(Seq(Nat)) /\ Len(texts) = N
    BY <1>2, <2>2
  <2> HIDE DEF texts, N
  <2>4. FlattenSeq(texts) = Segment(0, ends[N])
    BY <1>2, <1>7, <1>8, <2>1, <2>3, FlattenIs
  <2> QED BY <1>8, <2>4
<1> QED BY <1>3, <1>4, <1>6, <1>9 DEF TextIsWhole, blocks, turn

LEMMA NothingLive == ASSUME TranscriptInv PROVE NothingLiveAfterEnd
<1> SUFFICES ASSUME ~ hostTurn.live, NEW i \in DOMAIN items
             PROVE  /\ ~ Streams(items[i])
                    /\ items[i].kind = "approval" => items[i].settled # "none"
                    /\ hostTurn.end # "complete" => ~ OpenItem(items[i])
  BY DEF NothingLiveAfterEnd
<1> DEFINE c == Account
           x == items[i]
<1>1. /\ TranscriptHost /\ Shows(items, c) /\ c \in Accounts /\ ~ c.live /\ c.end = hostTurn.end
      /\ c.verdict = verdict /\ \A t \in Tools : verdict[t] # "pending"
  BY HostFacts DEF TranscriptInv, TranscriptHost
<1>2. x \in TranscriptItems /\ ItemOk(x, c)
  BY <1>1 DEF Shows
<1> HIDE DEF c, x
<1>3. ~ Streams(x)
  BY <1>1, <1>2 DEF Streams, ItemOk, StreamOk
<1>4. ASSUME x.kind = "approval" PROVE x.settled # "none"
  <2>1. CardOk(x, c) /\ x.tool \in Tools
    BY <1>2, <1>4, ItemFacts DEF ItemOk, ApprovalItems
  <2>2. c.verdict[x.tool] \in Settlements
    BY <1>1, <2>1, AccountFacts DEF CardOk
  <2> QED BY <2>1, <2>2 DEF CardOk, Settlements
<1>5. hostTurn.end # "complete" => ~ OpenItem(x)
  BY <1>1, <1>2 DEF ItemOk
<1> QED BY <1>3, <1>4, <1>5 DEF x

LEMMA CardsTell == ASSUME TranscriptInv PROVE CardsTellVerdict
<1> SUFFICES ASSUME posts = << >>, NEW i \in DOMAIN items
             PROVE  LET t == items[i].tool IN
                    /\ items[i].kind = "approval" =>
                         /\ items[i].resolved = IF verdict[t] \in {"allow", "deny"} THEN verdict[t] ELSE "none"
                         /\ items[i].settled = IF verdict[t] \in {"allow", "deny"} THEN "selected"
                                               ELSE IF verdict[t] = "pending" THEN "none" ELSE verdict[t]
                    /\ items[i].kind = "tool" /\ items[i].tool \in Edits =>
                         items[i].status = IF verdict[t] = "pending" THEN "pending" ELSE ToolStatusOf(verdict[t])
                    /\ items[i].kind = "tool" /\ items[i].turn = hostTurn.number /\ translator.status[t] = "done" =>
                         items[i].status = "done"
  BY DEF CardsTellVerdict
<1> DEFINE c == Account
           x == items[i]
           t == x.tool
<1>1. /\ TranscriptHost /\ Shows(items, c) /\ c \in Accounts /\ c.number = hostTurn.number
      /\ c.verdict = verdict /\ c.status = translator.status /\ c.clicked = Clicked
      /\ \A e \in Edits : translator.status[e] = "none"
  BY HostFacts DEF TranscriptInv, TranscriptHost
<1>2. x \in TranscriptItems /\ ItemOk(x, c)
  BY <1>1 DEF Shows
<1>3. Clicked = {}
  BY DEF Clicked
<1> HIDE DEF c, x
<1>4. ASSUME x.kind = "approval"
      PROVE  /\ x.resolved = IF verdict[t] \in {"allow", "deny"} THEN verdict[t] ELSE "none"
             /\ x.settled = IF verdict[t] \in {"allow", "deny"} THEN "selected"
                            ELSE IF verdict[t] = "pending" THEN "none" ELSE verdict[t]
  <2>1. CardOk(x, c) /\ x.tool \in Tools
    BY <1>2, <1>4, ItemFacts DEF ItemOk, ApprovalItems
  <2>2. c.verdict[x.tool] \in Settlements \cup {"pending"}
    BY <1>1, <2>1, AccountFacts DEF CardOk
  <2> QED BY <1>1, <1>3, <2>1, <2>2 DEF CardOk, Settlements
<1>5. ASSUME x.kind = "tool", x.tool \in Edits
      PROVE  x.status = IF verdict[t] = "pending" THEN "pending" ELSE ToolStatusOf(verdict[t])
  BY <1>1, <1>2, <1>5 DEF ItemOk, ToolOk
<1>6. ASSUME x.kind = "tool", x.turn = hostTurn.number, translator.status[t] = "done"
      PROVE  x.status = "done"
  BY <1>1, <1>2, <1>6 DEF ItemOk, ToolOk
<1> QED BY <1>4, <1>5, <1>6 DEF x

LEMMA TranscriptInvIsTrue == TranscriptInv => TranscriptIsTrue
BY TextWhole, NothingLive, CardsTell DEF TranscriptIsTrue

LEMMA TranscriptInvTyped == TranscriptInv => TranscriptTypeOK
<1> SUFFICES ASSUME TranscriptInv PROVE TranscriptTypeOK
  OBVIOUS
<1>1. TranscriptHost /\ Shows(items, Account) /\ Account.number = hostTurn.number
  BY HostFacts DEF TranscriptInv
<1>2. MaxEvents \in Nat /\ Hunks \in Nat
  BY TranscriptAssumption
<1>3. \A i \in DOMAIN items : items[i].turn \in 1 .. hostTurn.number
  <2>1. items \in Seq(TranscriptItems) /\ TurnsGrow(items, hostTurn.number)
        /\ \A i \in 1 .. Len(items) : items[i] \in TranscriptItems /\ 1 <= items[i].turn
    BY <1>1 DEF Shows, BlocksShow, ItemOk
  <2>2. \A i \in 1 .. Len(items) : items[i].turn \in Nat /\ items[i].turn <= hostTurn.number
    BY <2>1, ItemFacts DEF TurnsGrow
  <2>3. DOMAIN items = 1 .. Len(items) /\ hostTurn.number \in Nat
    BY <1>1, <2>1, HostFacts
  <2> QED BY <2>1, <2>2, <2>3
<1>4. hostTurn \in [number : 0 .. MaxEvents, live : BOOLEAN, stopped : BOOLEAN,
                    end : {"none", "complete", "cancelled"}]
  BY <1>1, <1>2 DEF TranscriptHost
<1>5. decided \in [Tools -> 0 .. Hunks]
  <2>1. decided \in [Tools -> 0 .. Hunks - 1]
    BY <1>1 DEF TranscriptHost
  <2> QED BY <1>2, <2>1
<1>6. translator.block \in 0 .. thoughts
  BY <1>1 DEF TranscriptHost
<1> QED BY <1>1, <1>3, <1>4, <1>5, <1>6 DEF TranscriptTypeOK, TranscriptHost
==============================================================================

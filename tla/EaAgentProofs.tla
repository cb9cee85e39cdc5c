--------------------------- MODULE EaAgentProofs ---------------------------
(***************************************************************************)
(* Proofs about EaAgent, for any number of callers, turns and tool rounds, *)
(* any limits of the session, and any answers to the chat requests.  What  *)
(* the turn does to the history is taken from SessionOpsProofs.            *)
(***************************************************************************)
EXTENDS EaAgent, SessionOpsProofs

(* The prompts and messages a session is ever given *)
Prompts == {NoPrompt, Prompt} \cup Overrides

UserMessages == {Message("user", c, 0, MessageSize) : c \in Callers}
Replies == {Message("assistant", NoText, n, MessageSize) : n \in Nat}
ToolResult == Message("tool", NoText, 0, MessageSize)

Messages == PromptMessages(Prompts) \cup UserMessages \cup Replies \cup {ToolResult}

Contexts == [done : Callers, round : Nat]

Agents ==
  [session : {s \in Sessions(Prompts, Messages) : Flagged(s)},
   active  : Turns \cup {NoTurn},
   ctx     : [Turns -> Contexts \cup {NoCtx}],
   saved   : Snapshots(Prompts, Messages) \cup {NoSnapshot}]

Finished(h) == h = << >> \/ (Last(h).role = "assistant" /\ Last(h).calls = 0)

(* TypeOK, ToolResultsPaired and SavedIsFinished are not inductive without *)
(* the second and third conjunct: no two turns share a caller, and every   *)
(* turn in flight has its caller waiting.  Otherwise the answer of one     *)
(* turn could replace the "toolFailed" of another, and nothing would tell  *)
(* any more that calls in the history lack their results.                  *)
AgentInv ==
  /\ agent \in Agents
  /\ \A t \in Turns : InFlight(agent, t) => answers[agent.ctx[t].done] = "waiting"
  /\ \A t, u \in Turns :
        InFlight(agent, t) /\ InFlight(agent, u) /\ t # u
          => agent.ctx[t].done # agent.ctx[u].done
  /\ TypeOK
  /\ ToolResultsPaired
  /\ SavedIsFinished

-----------------------------------------------------------------------------
LEMMA ConstantFacts ==
  /\ PromptMessages(Prompts) \subseteq Messages
  /\ \A c \in Callers : LET m == Message("user", c, 0, MessageSize)
                        IN  m \in Messages /\ m.role = "user" /\ m.calls = 0
  /\ \A n \in Nat : LET m == Message("assistant", NoText, n, MessageSize)
                    IN  m \in Messages /\ m.role = "assistant" /\ m.calls = n
  /\ ToolResult \in Messages /\ ToolResult.role = "tool" /\ ToolResult.calls = 0
  /\ NoPrompt \in Prompts /\ Prompt \in Prompts /\ Overrides \subseteq Prompts
<1>1. PromptMessages(Prompts) \subseteq Messages
  BY DEF Messages
<1>2. ASSUME NEW c \in Callers
      PROVE  LET m == Message("user", c, 0, MessageSize)
             IN  m \in Messages /\ m.role = "user" /\ m.calls = 0
  <2>1. Message("user", c, 0, MessageSize) \in Messages
    BY DEF Messages, UserMessages
  <2> QED BY <2>1 DEF Message
<1>3. ASSUME NEW n \in Nat
      PROVE  LET m == Message("assistant", NoText, n, MessageSize)
             IN  m \in Messages /\ m.role = "assistant" /\ m.calls = n
  <2>1. Message("assistant", NoText, n, MessageSize) \in Messages
    BY DEF Messages, Replies
  <2> QED BY <2>1 DEF Message
<1>4. ToolResult \in Messages
  BY DEF Messages
<1>5. ToolResult.role = "tool" /\ ToolResult.calls = 0
  BY DEF ToolResult, Message
<1>6. NoPrompt \in Prompts /\ Prompt \in Prompts /\ Overrides \subseteq Prompts
  BY DEF Prompts
<1> QED BY <1>1, <1>2, <1>3, <1>4, <1>5, <1>6

-----------------------------------------------------------------------------
(* Calls and results in a history                                          *)

(* Dropping the oldest messages leaves no call without its results. *)
LEMMA AnsweredWithout ==
  ASSUME NEW M, NEW h \in Seq(M), NEW k \in 0 .. Len(h), CallsAreAnswered(h)
  PROVE  CallsAreAnswered(Without(h, k))
<1> DEFINE w == Without(h, k)
<1>1. /\ Len(h) \in Nat /\ DOMAIN h = 1 .. Len(h)
      /\ w \in Seq(M) /\ Len(w) = Len(h) - k /\ DOMAIN w = 1 .. Len(w)
      /\ \A i \in 1 .. Len(h) - k : w[i] = h[k + i]
  BY LenProperties, WithoutFacts
<1> HIDE DEF w
<1>2. ASSUME NEW i \in DOMAIN w, NEW j \in 1 .. w[i].calls
      PROVE  i + j \in DOMAIN w /\ w[i + j].role = "tool"
  <2>1. k + i \in DOMAIN h /\ w[i] = h[k + i] /\ i \in Nat /\ j \in Int /\ j >= 1
    BY <1>1
  <2>2. (k + i) + j \in DOMAIN h /\ h[(k + i) + j].role = "tool"
    BY <2>1 DEF CallsAreAnswered
  <2>3. i + j \in 1 .. Len(h) - k /\ (k + i) + j = k + (i + j)
    BY <1>1, <2>1, <2>2
  <2> QED BY <1>1, <2>2, <2>3
<1> QED BY <1>2 DEF CallsAreAnswered, w

(* A result whose call is dropped has only results left before it. *)
LEMMA CalledWithout ==
  ASSUME NEW M, NEW h \in Seq(M), NEW k \in 0 .. Len(h), ResultsAreCalled(h)
  PROVE  ResultsAreCalled(Without(h, k))
<1> DEFINE w == Without(h, k)
<1>1. /\ Len(h) \in Nat /\ DOMAIN h = 1 .. Len(h)
      /\ w \in Seq(M) /\ Len(w) = Len(h) - k /\ DOMAIN w = 1 .. Len(w)
      /\ \A i \in 1 .. Len(h) - k : w[i] = h[k + i]
  BY LenProperties, WithoutFacts
<1> HIDE DEF w
<1>2. ASSUME NEW i \in DOMAIN w, w[i].role = "tool"
      PROVE  \E j \in 0 .. i - 1 : /\ j = 0 \/ i - j <= w[j].calls
                                  /\ \A n \in j + 1 .. i : w[n].role = "tool"
  <2>1. k + i \in DOMAIN h /\ h[k + i].role = "tool" /\ i \in Nat /\ i <= Len(h) - k
    BY <1>1, <1>2
  <2>2. PICK j \in 0 .. (k + i) - 1 :
           /\ j = 0 \/ (k + i) - j <= h[j].calls
           /\ \A n \in j + 1 .. k + i : h[n].role = "tool"
    BY <2>1 DEF ResultsAreCalled
  <2>3. CASE j > k
    <3>1. j - k \in 0 .. i - 1 /\ j - k \in 1 .. Len(h) - k /\ k + (j - k) = j
      BY <1>1, <2>1, <2>3
    <3>2. i - (j - k) <= w[j - k].calls
      <4>1. w[j - k] = h[j] /\ i - (j - k) = (k + i) - j /\ j # 0
        BY <1>1, <2>1, <2>3, <3>1
      <4> QED BY <2>2, <4>1
    <3>3. ASSUME NEW n \in (j - k) + 1 .. i
          PROVE  w[n].role = "tool"
      <4>1. k + n \in j + 1 .. k + i /\ n \in 1 .. Len(h) - k
        BY <1>1, <2>1, <2>3
      <4> QED BY <1>1, <2>2, <4>1
    <3> QED BY <3>1, <3>2, <3>3
  <2>4. CASE ~ (j > k)
    <3>1. ASSUME NEW n \in 0 + 1 .. i
          PROVE  w[n].role = "tool"
      <4>1. k + n \in j + 1 .. k + i /\ n \in 1 .. Len(h) - k
        BY <1>1, <2>1, <2>4
      <4> QED BY <1>1, <2>2, <4>1
    <3>2. 0 \in 0 .. i - 1
      BY <1>1, <2>1
    <3> QED BY <3>1, <3>2
  <2> QED BY <2>3, <2>4
<1> QED BY <1>2 DEF ResultsAreCalled, w

LEMMA AnsweredAppend ==
  ASSUME NEW M, NEW h \in Seq(M), NEW m \in M, m.calls = 0, CallsAreAnswered(h)
  PROVE  CallsAreAnswered(Append(h, m))
<1> DEFINE a == Append(h, m)
<1>1. /\ Len(h) \in Nat /\ DOMAIN h = 1 .. Len(h)
      /\ a \in Seq(M) /\ Len(a) = Len(h) + 1 /\ DOMAIN a = 1 .. Len(a)
      /\ \A i \in 1 .. Len(h) : a[i] = h[i]
      /\ a[Len(h) + 1] = m
  BY LenProperties, AppendProperties
<1> HIDE DEF a
<1>2. ASSUME NEW i \in DOMAIN a, NEW j \in 1 .. a[i].calls
      PROVE  i + j \in DOMAIN a /\ a[i + j].role = "tool"
  <2>1. i \in 1 .. Len(h)
    <3>1. CASE i = Len(h) + 1
      BY <1>1, <3>1
    <3> QED BY <1>1, <3>1
  <2>2. i + j \in DOMAIN h /\ h[i + j].role = "tool"
    BY <1>1, <2>1 DEF CallsAreAnswered
  <2> QED BY <1>1, <2>2
<1> QED BY <1>2 DEF CallsAreAnswered, a

LEMMA CalledAppend ==
  ASSUME NEW M, NEW h \in Seq(M), NEW m \in M, m.role # "tool", ResultsAreCalled(h)
  PROVE  ResultsAreCalled(Append(h, m))
<1> DEFINE a == Append(h, m)
<1>1. /\ Len(h) \in Nat /\ DOMAIN h = 1 .. Len(h)
      /\ a \in Seq(M) /\ Len(a) = Len(h) + 1 /\ DOMAIN a = 1 .. Len(a)
      /\ \A i \in 1 .. Len(h) : a[i] = h[i]
      /\ a[Len(h) + 1] = m
  BY LenProperties, AppendProperties
<1> HIDE DEF a
<1>2. ASSUME NEW i \in DOMAIN a, a[i].role = "tool"
      PROVE  \E j \in 0 .. i - 1 : /\ j = 0 \/ i - j <= a[j].calls
                                  /\ \A n \in j + 1 .. i : a[n].role = "tool"
  <2>1. i \in 1 .. Len(h) /\ h[i].role = "tool"
    <3>1. i # Len(h) + 1
      BY <1>1, <1>2
    <3>2. i \in 1 .. Len(h)
      BY <1>1, <3>1
    <3> QED BY <1>1, <1>2, <3>2
  <2>2. PICK j \in 0 .. i - 1 : /\ j = 0 \/ i - j <= h[j].calls
                               /\ \A n \in j + 1 .. i : h[n].role = "tool"
    BY <1>1, <2>1 DEF ResultsAreCalled
  <2>3. \A n \in j + 1 .. i : n \in 1 .. Len(h)
    BY <1>1, <2>1
  <2>4. j # 0 => j \in 1 .. Len(h)
    BY <1>1, <2>1
  <2>5. j = 0 \/ i - j <= a[j].calls
    BY <1>1, <2>2, <2>4
  <2>6. \A n \in j + 1 .. i : a[n].role = "tool"
    BY <1>1, <2>2, <2>3
  <2> QED BY <2>5, <2>6
<1> QED BY <1>2 DEF ResultsAreCalled, a

(* A message with calls, and messages behind it *)
LEMMA RoundAt ==
  ASSUME NEW M, NEW h \in Seq(M), NEW m \in M, NEW g \in Seq(M)
  PROVE  LET b == Append(h, m) \o g
             n == Len(h)
             l == Len(g)
         IN  /\ n \in Nat /\ l \in Nat /\ DOMAIN h = 1 .. n /\ DOMAIN b = 1 .. n + 1 + l
             /\ \A i \in 1 .. n : b[i] = h[i]
             /\ b[n + 1] = m
             /\ \A i \in 1 .. l : b[n + 1 + i] = g[i]
<1> DEFINE a == Append(h, m)
           b == a \o g
<1>1. /\ Len(h) \in Nat /\ DOMAIN h = 1 .. Len(h) /\ Len(g) \in Nat
      /\ a \in Seq(M) /\ Len(a) = Len(h) + 1
      /\ \A i \in 1 .. Len(h) : a[i] = h[i]
      /\ a[Len(h) + 1] = m
  BY LenProperties, AppendProperties
<1> HIDE DEF a
<1>2. /\ b \in Seq(M) /\ Len(b) = Len(a) + Len(g) /\ DOMAIN b = 1 .. Len(b)
      /\ \A i \in 1 .. Len(a) + Len(g) : b[i] = IF i <= Len(a) THEN a[i] ELSE g[i - Len(a)]
  BY <1>1, LenProperties, ConcatProperties
<1> HIDE DEF b
<1> DEFINE n == Len(h)
           l == Len(g)
<1>3. /\ \A i \in 1 .. n : b[i] = h[i]
      /\ b[n + 1] = m
      /\ \A i \in 1 .. l : b[n + 1 + i] = g[i]
      /\ Len(b) = n + 1 + l
  <2>1. \A i \in 1 .. n : i \in 1 .. Len(a) + Len(g) /\ i <= Len(a)
    BY <1>1
  <2>2. n + 1 \in 1 .. Len(a) + Len(g) /\ n + 1 <= Len(a)
    BY <1>1
  <2>3. \A i \in 1 .. l : /\ n + 1 + i \in 1 .. Len(a) + Len(g)
                          /\ ~ (n + 1 + i <= Len(a)) /\ (n + 1 + i) - Len(a) = i
    BY <1>1
  <2>4. Len(b) = n + 1 + l
    BY <1>1, <1>2
  <2> QED BY <1>1, <1>2, <2>1, <2>2, <2>3, <2>4
<1>4. DOMAIN b = 1 .. n + 1 + l
  BY <1>2, <1>3
<1> QED BY <1>1, <1>3, <1>4 DEF b, a

(* As many results, or more, as calls *)
LEMMA AnsweredRound ==
  ASSUME NEW M, NEW h \in Seq(M), NEW m \in M, NEW g \in Seq(M),
         m.calls \in Nat, m.calls <= Len(g),
         \A i \in 1 .. Len(g) : g[i].role = "tool" /\ g[i].calls = 0,
         CallsAreAnswered(h)
  PROVE  CallsAreAnswered(Append(h, m) \o g)
<1> DEFINE n == Len(h)
           l == Len(g)
           b == Append(h, m) \o g
<1>1. /\ n \in Nat /\ l \in Nat /\ DOMAIN h = 1 .. n /\ DOMAIN b = 1 .. n + 1 + l
      /\ \A i \in 1 .. n : b[i] = h[i]
      /\ b[n + 1] = m
      /\ \A i \in 1 .. l : b[n + 1 + i] = g[i]
  BY RoundAt
<1>2. m.calls <= l /\ \A i \in 1 .. l : g[i].role = "tool" /\ g[i].calls = 0
  OBVIOUS
<1> HIDE DEF b, n, l
<1>3. ASSUME NEW i \in DOMAIN b, NEW j \in 1 .. b[i].calls
      PROVE  i + j \in DOMAIN b /\ b[i + j].role = "tool"
  <2>1. CASE i \in 1 .. n
    <3>1. i + j \in 1 .. n /\ h[i + j].role = "tool"
      BY <1>1, <1>2, <2>1 DEF CallsAreAnswered
    <3> QED BY <1>1, <1>2, <3>1
  <2>2. CASE i = n + 1
    <3>1. j \in 1 .. l
      BY <1>1, <1>2, <2>2
    <3>2. i + j = n + 1 + j /\ i + j \in 1 .. n + 1 + l
      BY <1>1, <2>2, <3>1
    <3>3. b[i + j] = g[j]
      BY <1>1, <3>1, <3>2
    <3> QED BY <1>1, <1>2, <3>1, <3>2, <3>3
  <2>3. CASE i \notin 1 .. n /\ i # n + 1
    <3>1. i - (n + 1) \in 1 .. l /\ n + 1 + (i - (n + 1)) = i
      BY <1>1, <2>3
    <3>2. b[i].calls = 0
      <4>1. b[n + 1 + (i - (n + 1))] = g[i - (n + 1)]
        BY <1>1, <3>1
      <4> QED BY <1>2, <3>1, <4>1
    <3> QED BY <3>2
  <2> QED BY <2>1, <2>2, <2>3
<1> QED BY <1>3 DEF CallsAreAnswered, b

(* As many results, or fewer, as calls *)
LEMMA CalledRound ==
  ASSUME NEW M, NEW h \in Seq(M), NEW m \in M, NEW g \in Seq(M),
         m.calls \in Nat, Len(g) <= m.calls, m.role # "tool",
         \A i \in 1 .. Len(g) : g[i].role = "tool",
         ResultsAreCalled(h)
  PROVE  ResultsAreCalled(Append(h, m) \o g)
<1> DEFINE n == Len(h)
           l == Len(g)
           b == Append(h, m) \o g
<1>1. /\ n \in Nat /\ l \in Nat /\ DOMAIN h = 1 .. n /\ DOMAIN b = 1 .. n + 1 + l
      /\ \A i \in 1 .. n : b[i] = h[i]
      /\ b[n + 1] = m
      /\ \A i \in 1 .. l : b[n + 1 + i] = g[i]
  BY RoundAt
<1>2. l <= m.calls /\ \A i \in 1 .. l : g[i].role = "tool"
  OBVIOUS
<1> HIDE DEF b, n, l
<1>3. ASSUME NEW i \in DOMAIN b, b[i].role = "tool"
      PROVE  \E j \in 0 .. i - 1 : /\ j = 0 \/ i - j <= b[j].calls
                                  /\ \A k \in j + 1 .. i : b[k].role = "tool"
  <2>1. CASE i \in 1 .. n
    <3>1. h[i].role = "tool"
      BY <1>1, <1>3, <2>1
    <3>2. PICK j \in 0 .. i - 1 : /\ j = 0 \/ i - j <= h[j].calls
                                 /\ \A k \in j + 1 .. i : h[k].role = "tool"
      BY <1>1, <2>1, <3>1 DEF ResultsAreCalled
    <3>3. \A k \in j + 1 .. i : k \in 1 .. n
      BY <1>1, <2>1
    <3>4. j # 0 => j \in 1 .. n
      BY <1>1, <2>1
    <3>5. j = 0 \/ i - j <= b[j].calls
      BY <1>1, <3>2, <3>4
    <3>6. \A k \in j + 1 .. i : b[k].role = "tool"
      BY <1>1, <3>2, <3>3
    <3> QED BY <3>5, <3>6
  <2>2. CASE i \notin 1 .. n
    <3>1. i # n + 1
      BY <1>1, <1>3
    <3>2. n + 1 \in 0 .. i - 1 /\ i - (n + 1) \in 1 .. l
      BY <1>1, <2>2, <3>1
    <3>3. i - (n + 1) <= b[n + 1].calls
      BY <1>1, <1>2, <3>2
    <3>4. ASSUME NEW k \in (n + 1) + 1 .. i
          PROVE  b[k].role = "tool"
      <4>1. k - (n + 1) \in 1 .. l /\ n + 1 + (k - (n + 1)) = k
        BY <1>1, <3>2
      <4>2. b[n + 1 + (k - (n + 1))] = g[k - (n + 1)]
        BY <1>1, <4>1
      <4> QED BY <1>2, <4>1, <4>2
    <3> QED BY <3>2, <3>3, <3>4
  <2> QED BY <2>1, <2>2
<1> QED BY <1>3 DEF ResultsAreCalled, b

(* What is appended after the oldest messages were dropped might as well   *)
(* have been appended before.                                              *)
LEMMA WithoutConcat ==
  ASSUME NEW M, NEW h \in Seq(M), NEW g \in Seq(M), NEW k \in 0 .. Len(h)
  PROVE  /\ k \in 0 .. Len(h \o g) /\ h \o g \in Seq(M)
         /\ Without(h, k) \o g = Without(h \o g, k)
<1> DEFINE n == Len(h)
           l == Len(g)
           w == Without(h, k)
           b == h \o g
           x == w \o g
           y == Without(b, k)
<1>1. n \in Nat /\ l \in Nat
  BY LenProperties
<1>2. w \in Seq(M) /\ Len(w) = n - k /\ \A i \in 1 .. n - k : w[i] = h[k + i]
  BY WithoutFacts
<1>3. /\ b \in Seq(M) /\ Len(b) = n + l
      /\ \A i \in 1 .. n + l : b[i] = IF i <= n THEN h[i] ELSE g[i - n]
  BY ConcatProperties
<1> HIDE DEF w, b, n, l
<1>4. /\ x \in Seq(M) /\ Len(x) = Len(w) + l
      /\ \A i \in 1 .. Len(w) + l : x[i] = IF i <= Len(w) THEN w[i] ELSE g[i - Len(w)]
  BY <1>2, ConcatProperties DEF l
<1>5. k \in 0 .. n /\ k \in 0 .. Len(b)
  <2>1. k \in 0 .. n
    BY DEF n
  <2> QED BY <1>1, <1>3, <2>1
<1>6. y \in Seq(M) /\ Len(y) = Len(b) - k /\ \A i \in 1 .. Len(b) - k : y[i] = b[k + i]
  BY <1>3, <1>5, WithoutFacts
<1> HIDE DEF x, y
<1>7. Len(x) = n + l - k /\ Len(y) = n + l - k
  BY <1>1, <1>2, <1>3, <1>4, <1>5, <1>6
<1>8. ASSUME NEW i \in 1 .. n + l - k
      PROVE  x[i] = y[i]
  <2>1. i \in 1 .. Len(b) - k /\ k + i \in 1 .. n + l /\ i \in 1 .. Len(w) + l
    BY <1>1, <1>2, <1>3, <1>5
  <2>2. y[i] = b[k + i]
    BY <1>6, <2>1
  <2>3. CASE i <= n - k
    <3>1. k + i <= n /\ i <= Len(w) /\ i \in 1 .. n - k
      BY <1>1, <1>2, <1>5, <2>3
    <3> QED BY <1>2, <1>3, <1>4, <2>1, <2>2, <3>1
  <2>4. CASE ~ (i <= n - k)
    <3>1. ~ (k + i <= n) /\ ~ (i <= Len(w)) /\ (k + i) - n = i - Len(w)
      BY <1>1, <1>2, <1>5, <2>4
    <3> QED BY <1>3, <1>4, <2>1, <2>2, <3>1
  <2> QED BY <2>3, <2>4
<1>9. x = y
  BY <1>4, <1>6, <1>7, <1>8, SeqEqual
<1> QED BY <1>3, <1>5, <1>9 DEF b, x, y, w

-----------------------------------------------------------------------------
(* What a turn does to the session                                         *)

Usable(s) == s \in Sessions(Prompts, Messages) /\ Flagged(s)

(* What was so of history h is so of history g. *)
StillPaired(h, g) ==
  /\ CallsAreAnswered(h) => CallsAreAnswered(g)
  /\ ResultsAreCalled(h) => ResultsAreCalled(g)

(* trim() only drops the oldest messages. *)
LEMMA TrimmedPaired ==
  ASSUME NEW s, NEW d, NEW h \in Seq(Messages), TrimmedTo(Prompts, Messages, s, d, h)
  PROVE  Usable(d) /\ StillPaired(h, NonSystemMessages(d))
<1>1. PICK k \in 0 .. Len(h) : HasHistory(Prompts, Messages, s, d, Without(h, k))
  BY DEF TrimmedTo
<1>2. StillPaired(h, Without(h, k))
  BY AnsweredWithout, CalledWithout DEF StillPaired
<1> QED BY <1>1, <1>2 DEF HasHistory, Usable

LEMMA UserMessage ==
  ASSUME NEW s, Usable(s), NEW c \in Callers
  PROVE  LET d == AppendUser(s, c, MessageSize)
         IN  Usable(d) /\ StillPaired(NonSystemMessages(s), NonSystemMessages(d))
<1> DEFINE m == Message("user", c, 0, MessageSize)
           h == NonSystemMessages(s)
           d == AppendUser(s, c, MessageSize)
<1>1. m \in Messages /\ m.role = "user" /\ m.calls = 0
  BY ConstantFacts
<1>2. d = AppendMessage(s, m)
  BY DEF AppendUser
<1> HIDE DEF m, d
<1>3. h \in Seq(Messages)
  BY HistoryFacts DEF Usable
<1>4. TrimmedTo(Prompts, Messages, s, AppendMessage(s, m), Append(h, m))
  BY <1>1, AppendMessageFacts DEF Usable
<1> HIDE DEF h
<1>5. Append(h, m) \in Seq(Messages)
  BY <1>1, <1>3, AppendProperties
<1>6. StillPaired(h, Append(h, m))
  BY <1>1, <1>3, AnsweredAppend, CalledAppend DEF StillPaired
<1>7. Usable(d) /\ StillPaired(Append(h, m), NonSystemMessages(d))
  BY <1>2, <1>4, <1>5, TrimmedPaired
<1> QED BY <1>6, <1>7 DEF d, h, StillPaired

(* A message of the assistant, with the history it is the end of *)
LEMMA AssistantMessage ==
  ASSUME NEW s, Usable(s), NEW n \in Nat
  PROVE  LET d == AppendAssistant(s, n, MessageSize)
             m == Message("assistant", NoText, n, MessageSize)
             h == NonSystemMessages(s)
         IN  /\ Usable(d)
             /\ m \in Messages /\ m.role = "assistant" /\ m.calls = n
             /\ h \in Seq(Messages) /\ Append(h, m) \in Seq(Messages)
             /\ \E k \in 0 .. Len(Append(h, m)) :
                   NonSystemMessages(d) = Without(Append(h, m), k)
<1> DEFINE m == Message("assistant", NoText, n, MessageSize)
           h == NonSystemMessages(s)
           d == AppendAssistant(s, n, MessageSize)
<1>1. m \in Messages /\ m.role = "assistant" /\ m.calls = n
  BY ConstantFacts
<1>2. d = AppendMessage(s, m)
  BY DEF AppendAssistant
<1> HIDE DEF m, d
<1>3. h \in Seq(Messages)
  BY HistoryFacts DEF Usable
<1>4. TrimmedTo(Prompts, Messages, s, AppendMessage(s, m), Append(h, m))
  BY <1>1, AppendMessageFacts DEF Usable
<1> HIDE DEF h
<1>5. PICK k \in 0 .. Len(Append(h, m)) :
           HasHistory(Prompts, Messages, s, d, Without(Append(h, m), k))
  BY <1>2, <1>4 DEF TrimmedTo
<1>6. Append(h, m) \in Seq(Messages)
  BY <1>1, <1>3, AppendProperties
<1>7. Usable(d) /\ NonSystemMessages(d) = Without(Append(h, m), k)
  BY <1>5 DEF HasHistory, Usable
<1> QED BY <1>1, <1>3, <1>6, <1>7 DEF m, d, h

(* The last message of a turn that succeeds *)
LEMMA FinalReply ==
  ASSUME NEW s, Usable(s)
  PROVE  LET d == AppendAssistant(s, 0, MessageSize)
         IN  /\ Usable(d) /\ Finished(NonSystemMessages(d))
             /\ StillPaired(NonSystemMessages(s), NonSystemMessages(d))
<1> DEFINE m == Message("assistant", NoText, 0, MessageSize)
           h == NonSystemMessages(s)
           d == AppendAssistant(s, 0, MessageSize)
           a == Append(h, m)
<1>1. /\ Usable(d)
      /\ m \in Messages /\ m.role = "assistant" /\ m.calls = 0
      /\ h \in Seq(Messages) /\ a \in Seq(Messages)
      /\ \E k \in 0 .. Len(a) : NonSystemMessages(d) = Without(a, k)
  BY AssistantMessage
<1> HIDE DEF d, m, h
<1>2. PICK k \in 0 .. Len(a) : NonSystemMessages(d) = Without(a, k)
  BY <1>1
<1>3. Len(a) = Len(h) + 1 /\ Len(h) \in Nat /\ a[Len(h) + 1] = m
  BY <1>1, LenProperties, AppendProperties
<1>4. StillPaired(h, a)
  BY <1>1, AnsweredAppend, CalledAppend DEF StillPaired
<1> HIDE DEF a
<1> DEFINE w == Without(a, k)
<1>5. w \in Seq(Messages) /\ Len(w) = Len(a) - k /\ \A i \in 1 .. Len(a) - k : w[i] = a[k + i]
  BY <1>1, WithoutFacts
<1>6. StillPaired(a, w)
  BY <1>1, AnsweredWithout, CalledWithout DEF StillPaired
<1> HIDE DEF w
<1>7. Finished(w)
  <2>1. CASE k = Len(a)
    <3>1. Len(w) = 0
      BY <1>3, <1>5, <2>1
    <3> QED BY <1>5, <3>1, EmptySeq DEF Finished
  <2>2. CASE k # Len(a)
    <3>1. Len(w) \in 1 .. Len(a) - k /\ k + Len(w) = Len(h) + 1
      BY <1>3, <1>5, <2>2
    <3>2. Last(w) = m
      BY <1>3, <1>5, <3>1 DEF Last
    <3> QED BY <1>1, <3>2 DEF Finished
  <2> QED BY <2>1, <2>2
<1> QED BY <1>1, <1>2, <1>4, <1>6, <1>7 DEF d, h, w, StillPaired

(* A round of tool calls: the message with the calls, and the results of   *)
(* the calls that were made.                                               *)
LEMMA ToolRound ==
  ASSUME NEW s, Usable(s), NEW n \in Nat, NEW l \in Nat
  PROVE  LET d == AppendToolResults(AppendAssistant(s, n, MessageSize), l, MessageSize)
         IN  /\ Usable(d)
             /\ n <= l /\ CallsAreAnswered(NonSystemMessages(s))
                  => CallsAreAnswered(NonSystemMessages(d))
             /\ l <= n /\ ResultsAreCalled(NonSystemMessages(s))
                  => ResultsAreCalled(NonSystemMessages(d))
<1> DEFINE m == Message("assistant", NoText, n, MessageSize)
           h == NonSystemMessages(s)
           a == Append(h, m)
           e == AppendAssistant(s, n, MessageSize)
           r == Results(l, MessageSize)
           d == AppendToolResults(e, l, MessageSize)
<1>1. /\ Usable(e)
      /\ m \in Messages /\ m.role = "assistant" /\ m.calls = n
      /\ h \in Seq(Messages) /\ a \in Seq(Messages)
      /\ \E k \in 0 .. Len(a) : NonSystemMessages(e) = Without(a, k)
  BY AssistantMessage
<1> HIDE DEF e
<1>2. PICK k \in 0 .. Len(a) : NonSystemMessages(e) = Without(a, k)
  BY <1>1
<1>3. Message("tool", NoText, 0, MessageSize) \in Messages
  BY ConstantFacts DEF ToolResult
<1>4. /\ r \in Seq(Messages) /\ Len(r) = l
      /\ TrimmedTo(Prompts, Messages, e, d, NonSystemMessages(e) \o r)
  BY <1>1, <1>3, AppendToolResultsFacts DEF Usable
<1>5. \A i \in 1 .. l : r[i].role = "tool" /\ r[i].calls = 0
  BY DEF Results, Message
<1> HIDE DEF d, r, m, h
<1>6. n <= l /\ CallsAreAnswered(h) => CallsAreAnswered(a \o r)
  BY <1>1, <1>4, <1>5, AnsweredRound
<1>11. l <= n /\ ResultsAreCalled(h) => ResultsAreCalled(a \o r)
  BY <1>1, <1>4, <1>5, CalledRound
<1> HIDE DEF a
<1>7. /\ k \in 0 .. Len(a \o r) /\ a \o r \in Seq(Messages)
      /\ NonSystemMessages(e) \o r = Without(a \o r, k)
  <2>1. a \in Seq(Messages) /\ r \in Seq(Messages)
    BY <1>1, <1>4
  <2>2. /\ k \in 0 .. Len(a \o r) /\ a \o r \in Seq(Messages)
        /\ Without(a, k) \o r = Without(a \o r, k)
    BY <2>1, WithoutConcat
  <2> QED BY <1>2, <2>2
<1> DEFINE w == Without(a \o r, k)
<1>8. w \in Seq(Messages) /\ StillPaired(a \o r, w)
  BY <1>7, WithoutFacts, AnsweredWithout, CalledWithout DEF StillPaired
<1> HIDE DEF w
<1>9. TrimmedTo(Prompts, Messages, e, d, w)
  BY <1>4, <1>7 DEF w
<1>10. Usable(d) /\ StillPaired(w, NonSystemMessages(d))
  BY <1>8, <1>9, TrimmedPaired
<1> QED BY <1>6, <1>8, <1>10, <1>11 DEF d, e, h, StillPaired

(* Setting the prompt leaves the history alone. *)
LEMMA PromptSet ==
  ASSUME NEW s, Usable(s), NEW prompt \in Prompts
  PROVE  LET d == SetSystemPrompt(s, prompt)
         IN  Usable(d) /\ NonSystemMessages(d) = NonSystemMessages(s)
BY ConstantFacts, SetSystemPromptFacts DEF Usable

-----------------------------------------------------------------------------
(* Turns                                                                   *)

Outcomes == Errors \cup {"ok", Pending}

(* out is what a step of turn t, of caller c, may make of agent a. *)
Step(a, t, c, out) ==
  /\ out.agent \in Agents
  /\ out.result \in Outcomes
  /\ \/ out.result # Pending /\ out.agent.ctx = [a.ctx EXCEPT ![t] = NoCtx]
     \/ /\ out.result = Pending
        /\ \E n \in Nat : /\ n < MaxToolRoundTrips
                          /\ out.agent.ctx = [a.ctx EXCEPT ![t] = [done |-> c, round |-> n]]
  /\ out.result # "toolFailed" /\ CallsAreAnswered(NonSystemMessages(a.session))
       => CallsAreAnswered(NonSystemMessages(out.agent.session))
  /\ ResultsAreCalled(NonSystemMessages(a.session))
       => ResultsAreCalled(NonSystemMessages(out.agent.session))
  /\ \/ out.agent.saved = a.saved
     \/ /\ out.result = "ok"
        /\ out.agent.saved = Snapshot(out.agent.session)
        /\ Finished(NonSystemMessages(out.agent.session))

LEMMA ResultFacts ==
  /\ "ok" \notin Errors /\ NoError \notin Errors /\ Pending \notin Errors \cup {"ok"}
  /\ {"busy", "maxRounds", "toolFailed", "noRegistry", "notSent"} \subseteq Errors
BY AgentConstants DEF Errors, HttpCode, NoError

LEMMA FinishTurnFacts ==
  ASSUME NEW a \in Agents, NEW t \in Turns, NEW result
  PROVE  LET out == FinishTurn(a, t, result)
         IN  /\ out.agent \in Agents
             /\ out.result = result
             /\ out.agent.session = a.session
             /\ out.agent.ctx = [a.ctx EXCEPT ![t] = NoCtx]
             /\ out.agent.saved = IF result = "ok" /\ Persist
                                  THEN Snapshot(a.session) ELSE a.saved
<1> DEFINE saved == IF result = "ok" /\ Persist THEN Snapshot(a.session) ELSE a.saved
           ctx == [a.ctx EXCEPT ![t] = NoCtx]
           b == [a EXCEPT !.active = NoTurn, !.ctx[t] = NoCtx, !.saved = saved]
           out == FinishTurn(a, t, result)
<1>1. out = [agent |-> b, result |-> result]
  BY DEF FinishTurn, Agents
<1>2. /\ a.session \in Sessions(Prompts, Messages) /\ Flagged(a.session)
      /\ a.saved \in Snapshots(Prompts, Messages) \cup {NoSnapshot}
      /\ a.ctx \in [Turns -> Contexts \cup {NoCtx}]
  BY DEF Agents
<1>3. Snapshot(a.session) \in Snapshots(Prompts, Messages)
  BY <1>2, SnapshotFacts
<1>4. saved \in Snapshots(Prompts, Messages) \cup {NoSnapshot}
  BY <1>2, <1>3
<1>5. ctx \in [Turns -> Contexts \cup {NoCtx}]
  BY <1>2
<1> HIDE DEF saved
<1>6. b.session = a.session /\ b.ctx = ctx /\ b.saved = saved
  BY DEF Agents
<1>7. b \in Agents
  BY <1>4, <1>5 DEF Agents
<1> HIDE DEF b, ctx, out
<1>8. out.agent = b /\ out.result = result
  BY <1>1
<1> QED BY <1>6, <1>7, <1>8 DEF out, ctx, saved

(* After a message of the user or a round of tools, the turn goes on or    *)
(* fails; it saves nothing.                                                *)
LEMMA RunTurnFacts ==
  ASSUME NEW a \in Agents, NEW t \in Turns, NEW sends \in BOOLEAN,
         a.ctx[t] \in Contexts
  PROVE  LET out == RunTurn(a, t, sends)
         IN  /\ Step(a, t, a.ctx[t].done, out)
             /\ out.result # "ok" /\ out.agent.saved = a.saved
             /\ out.agent.session = a.session
<1> DEFINE out == RunTurn(a, t, sends)
           c == a.ctx[t].done
           n == a.ctx[t].round
<1>5. c \in Callers /\ n \in Nat /\ a.ctx[t] = [done |-> c, round |-> n]
  BY DEF Contexts
<1>1. ASSUME NEW result \in {"maxRounds", "notSent"}, out = FinishTurn(a, t, result)
      PROVE  /\ Step(a, t, c, out)
             /\ out.result # "ok" /\ out.agent.saved = a.saved
             /\ out.agent.session = a.session
  <2>1. result \in Outcomes /\ result # Pending /\ result # "ok"
    BY ResultFacts DEF Outcomes
  <2> HIDE DEF out
  <2>2. /\ out.agent \in Agents /\ out.result = result /\ out.agent.session = a.session
        /\ out.agent.ctx = [a.ctx EXCEPT ![t] = NoCtx]
        /\ out.agent.saved = a.saved
    BY <1>1, <2>1, FinishTurnFacts
  <2> QED BY <2>1, <2>2 DEF Step
<1>2. ASSUME n < MaxToolRoundTrips, out = [agent |-> a, result |-> Pending]
      PROVE  /\ Step(a, t, c, out)
             /\ out.result # "ok" /\ out.agent.saved = a.saved
             /\ out.agent.session = a.session
  <2>1. Pending \in Outcomes /\ Pending # "ok"
    BY ResultFacts DEF Outcomes
  <2>2. a.ctx = [a.ctx EXCEPT ![t] = [done |-> c, round |-> n]]
    BY <1>5 DEF Agents
  <2> HIDE DEF out, c, n
  <2>3. out.agent = a /\ out.result = Pending
    BY <1>2
  <2> QED BY <1>2, <1>5, <2>1, <2>2, <2>3 DEF Step
<1>4. \/ out = FinishTurn(a, t, "maxRounds")
      \/ out = FinishTurn(a, t, "notSent")
      \/ n < MaxToolRoundTrips /\ out = [agent |-> a, result |-> Pending]
  BY <1>5, AgentConstants DEF RunTurn
<1> QED BY <1>1, <1>2, <1>4

(* An agent whose session and active turn changed, and the context of t *)
Changed(a, s, active, t, x) ==
  [a EXCEPT !.session = s, !.active = active, !.ctx[t] = x]

LEMMA AgentWith ==
  ASSUME NEW a \in Agents, NEW s, Usable(s), NEW t \in Turns,
         NEW x \in Contexts, NEW active \in Turns \cup {NoTurn}
  PROVE  LET b == Changed(a, s, active, t, x)
         IN  /\ b \in Agents
             /\ b.session = s /\ b.saved = a.saved
             /\ b.ctx = [a.ctx EXCEPT ![t] = x] /\ b.ctx[t] = x
<1> DEFINE ctx == [a.ctx EXCEPT ![t] = x]
           b == Changed(a, s, active, t, x)
<1>1. a.ctx \in [Turns -> Contexts \cup {NoCtx}]
  BY DEF Agents
<1>2. ctx \in [Turns -> Contexts \cup {NoCtx}] /\ ctx[t] = x
  BY <1>1
<1>3. b.session = s /\ b.saved = a.saved /\ b.ctx = ctx
  BY DEF Agents, Changed
<1>4. b \in Agents
  BY <1>2 DEF Agents, Usable, Changed
<1> QED BY <1>2, <1>3, <1>4

LEMMA SessionWith ==
  ASSUME NEW a \in Agents, NEW s, Usable(s)
  PROVE  LET b == [a EXCEPT !.session = s]
         IN  b \in Agents /\ b.session = s /\ b.saved = a.saved /\ b.ctx = a.ctx
BY DEF Agents, Usable

LEMMA SubmitStep ==
  ASSUME NEW a \in Agents, NEW c \in Callers, NEW t \in Turns,
         NEW sends \in BOOLEAN, NEW text \in {NoText, c}
  PROVE  LET out == AgentSubmit(a, text, c, t, sends)
         IN  \/ a.active = NoTurn /\ Step(a, t, c, out)
             \/ a.active # NoTurn /\ out = [agent |-> a, result |-> "busy"]
<1> DEFINE out == AgentSubmit(a, text, c, t, sends)
           fresh == RefreshSystemPrompt(a.session)
           s == IF text = NoText THEN fresh ELSE AppendUser(fresh, text, MessageSize)
           b == [a EXCEPT !.session = s, !.active = t, !.ctx[t] = [done |-> c, round |-> 0]]
<1>1. CASE a.active # NoTurn
  BY <1>1 DEF AgentSubmit
<1>2. CASE a.active = NoTurn
  <2>1. Usable(a.session)
    BY DEF Agents, Usable
  <2>2. Usable(fresh) /\ NonSystemMessages(fresh) = NonSystemMessages(a.session)
    BY <2>1, ConstantFacts, PromptSet DEF RefreshSystemPrompt
  <2> HIDE DEF fresh
  <2>3. Usable(s) /\ StillPaired(NonSystemMessages(a.session), NonSystemMessages(s))
    <3>1. CASE text = NoText
      BY <2>2, <3>1 DEF StillPaired
    <3>2. CASE text # NoText
      BY <2>2, <3>2, UserMessage
    <3> QED BY <3>1, <3>2
  <2>4. out = RunTurn(b, t, sends)
    BY <1>2 DEF AgentSubmit, fresh
  <2> HIDE DEF s
  <2> DEFINE x == [done |-> c, round |-> 0]
  <2>9. x \in Contexts /\ t \in Turns \cup {NoTurn} /\ 0 \in Nat
    BY DEF Contexts
  <2>5. /\ b \in Agents /\ b.session = s /\ b.saved = a.saved
        /\ b.ctx = [a.ctx EXCEPT ![t] = x] /\ b.ctx[t] = x
    <3>1. b = Changed(a, s, t, t, x)
      BY DEF Changed
    <3> HIDE DEF x, b
    <3> QED BY <2>3, <2>9, <3>1, AgentWith
  <2>10. x.done = c
    OBVIOUS
  <2> HIDE DEF b, out, x
  <2>6. Step(b, t, c, out) /\ out.result # "ok" /\ out.agent.saved = b.saved
        /\ out.agent.session = b.session
    <3>1. b.ctx[t] \in Contexts /\ b.ctx[t].done = c
      BY <2>5, <2>9, <2>10
    <3>2. LET o == RunTurn(b, t, sends)
          IN  /\ Step(b, t, b.ctx[t].done, o)
              /\ o.result # "ok" /\ o.agent.saved = b.saved
              /\ o.agent.session = b.session
      BY <2>5, <3>1, RunTurnFacts
    <3> QED BY <2>4, <3>1, <3>2
  <2>7. \A y : [b.ctx EXCEPT ![t] = y] = [a.ctx EXCEPT ![t] = y]
    BY <2>5 DEF Agents
  <2>8. Step(a, t, c, out)
    BY <2>3, <2>5, <2>6, <2>7 DEF Step, StillPaired
  <2> QED BY <1>2, <2>8 DEF out
<1> QED BY <1>1, <1>2

LEMMA RespondStep ==
  ASSUME NEW a \in Agents, NEW t \in Turns, a.ctx[t] \in Contexts,
         NEW r \in Responses, NEW sends \in BOOLEAN
  PROVE  Step(a, t, a.ctx[t].done, Respond(a, t, r, sends))
<1> DEFINE c == a.ctx[t].done
           n == a.ctx[t].round
           s == a.session
           said == AppendAssistant(s, r.calls, MessageSize)
           tools == AppendToolResults(said, r.invoked, MessageSize)
           worked == [a EXCEPT !.session = tools]
           spoken == [a EXCEPT !.session = said]
           out == Respond(a, t, r, sends)
<1>1. c \in Callers /\ n \in Nat /\ a.ctx[t] = [done |-> c, round |-> n]
  BY DEF Contexts
<1>2. r.error \in Errors \cup {NoError} /\ r.calls \in Nat /\ r.invoked \in Nat
      /\ r.invoked <= r.calls
  BY EaAgentConstants
<1>3. Usable(s)
  BY DEF Agents, Usable
<1>4. /\ Usable(tools)
      /\ r.calls <= r.invoked /\ CallsAreAnswered(NonSystemMessages(s))
           => CallsAreAnswered(NonSystemMessages(tools))
      /\ ResultsAreCalled(NonSystemMessages(s)) => ResultsAreCalled(NonSystemMessages(tools))
  BY <1>2, <1>3, ToolRound
<1>5. worked \in Agents /\ worked.session = tools /\ worked.saved = a.saved
      /\ worked.ctx = a.ctx
  BY <1>4, SessionWith
<1>6. \/ r.error # NoError /\ out = FinishTurn(a, t, r.error)
      \/ ~ HasRegistry /\ out = FinishTurn(a, t, "noRegistry")
      \/ r.calls = 0 /\ out = FinishTurn(spoken, t, "ok")
      \/ out = FinishTurn(worked, t, "toolFailed")
      \/ r.calls <= r.invoked /\ out = RunTurn(NextRound(worked, t), t, sends)
  BY <1>2 DEF Respond
<1> HIDE DEF tools, said, worked, out, spoken, c, n
<1>7. ASSUME NEW error \in Errors, out = FinishTurn(a, t, error)
      PROVE  Step(a, t, c, out)
  <2>1. error \in Outcomes /\ error # Pending /\ error # "ok"
    BY ResultFacts DEF Outcomes
  <2>2. /\ out.agent \in Agents /\ out.result = error /\ out.agent.session = a.session
        /\ out.agent.ctx = [a.ctx EXCEPT ![t] = NoCtx]
        /\ out.agent.saved = a.saved
    BY <1>7, <2>1, FinishTurnFacts
  <2> QED BY <2>1, <2>2 DEF Step
<1>8. ASSUME r.calls = 0, out = FinishTurn(spoken, t, "ok")
      PROVE  Step(a, t, c, out)
  <2>1. /\ Usable(said) /\ Finished(NonSystemMessages(said))
        /\ StillPaired(NonSystemMessages(s), NonSystemMessages(said))
    BY <1>3, <1>8, FinalReply DEF said
  <2>2. /\ spoken \in Agents /\ spoken.session = said /\ spoken.saved = a.saved
        /\ spoken.ctx = a.ctx
    BY <2>1, SessionWith DEF spoken
  <2>3. /\ out.agent \in Agents /\ out.result = "ok" /\ out.agent.session = said
        /\ out.agent.ctx = [a.ctx EXCEPT ![t] = NoCtx]
        /\ out.agent.saved = IF Persist THEN Snapshot(said) ELSE a.saved
    BY <1>8, <2>2, FinishTurnFacts
  <2>4. "ok" \in Outcomes /\ "ok" # Pending
    BY ResultFacts DEF Outcomes
  <2> QED BY <2>1, <2>3, <2>4 DEF Step, StillPaired
<1>9. ASSUME out = FinishTurn(worked, t, "toolFailed")
      PROVE  Step(a, t, c, out)
  <2>1. /\ out.agent \in Agents /\ out.result = "toolFailed" /\ out.agent.session = tools
        /\ out.agent.ctx = [a.ctx EXCEPT ![t] = NoCtx]
        /\ out.agent.saved = a.saved
    BY <1>5, <1>9, FinishTurnFacts
  <2>2. "toolFailed" \in Outcomes /\ "toolFailed" # Pending
    BY ResultFacts DEF Outcomes
  <2> QED BY <1>4, <2>1, <2>2 DEF Step
<1>10. ASSUME r.calls <= r.invoked, out = RunTurn(NextRound(worked, t), t, sends)
       PROVE  Step(a, t, c, out)
  <2> DEFINE b == NextRound(worked, t)
             y == [done |-> c, round |-> n + 1]
  <2>1. b = Changed(worked, tools, worked.active, t, y)
    <3>1. /\ worked.ctx \in [Turns -> Contexts \cup {NoCtx}]
          /\ worked.ctx[t] = [done |-> c, round |-> n]
      BY <1>1, <1>5 DEF Agents
    <3>2. [worked.ctx[t] EXCEPT !.round = n + 1] = y
      BY <3>1
    <3>3. b = [worked EXCEPT !.ctx =
                 [worked.ctx EXCEPT ![t] = [worked.ctx[t] EXCEPT !.round = n + 1]]]
      BY <1>1, <3>1 DEF NextRound
    <3>4. b = [worked EXCEPT !.ctx = [worked.ctx EXCEPT ![t] = y]]
      BY <3>2, <3>3
    <3>5. Changed(worked, tools, worked.active, t, y)
            = [worked EXCEPT !.ctx = [worked.ctx EXCEPT ![t] = y]]
      <4> HIDE DEF y
      <4> QED BY <1>5 DEF Agents, Changed
    <3> QED BY <3>4, <3>5
  <2>2. y \in Contexts /\ n + 1 \in Nat /\ worked.active \in Turns \cup {NoTurn}
    BY <1>1, <1>5 DEF Agents, Contexts
  <2>6. y.done = c
    OBVIOUS
  <2> HIDE DEF y, b
  <2>3. /\ b \in Agents /\ b.session = tools /\ b.saved = a.saved
        /\ b.ctx = [a.ctx EXCEPT ![t] = y] /\ b.ctx[t] = y
    <3>1. \A e : [worked.ctx EXCEPT ![t] = e] = [a.ctx EXCEPT ![t] = e]
      BY <1>5
    <3> QED BY <1>4, <1>5, <2>1, <2>2, <3>1, AgentWith
  <2>4. Step(b, t, c, out) /\ out.result # "ok" /\ out.agent.saved = b.saved
        /\ out.agent.session = b.session
    <3>1. b.ctx[t] \in Contexts /\ b.ctx[t].done = c
      BY <2>2, <2>3, <2>6
    <3>2. LET o == RunTurn(b, t, sends)
          IN  /\ Step(b, t, b.ctx[t].done, o)
              /\ o.result # "ok" /\ o.agent.saved = b.saved
              /\ o.agent.session = b.session
      BY <2>3, <3>1, RunTurnFacts
    <3>3. out = RunTurn(b, t, sends)
      BY <1>10 DEF b
    <3> QED BY <3>1, <3>2, <3>3
  <2>5. \A x : [b.ctx EXCEPT ![t] = x] = [a.ctx EXCEPT ![t] = x]
    BY <2>3 DEF Agents
  <2> QED BY <1>4, <1>10, <2>3, <2>4, <2>5 DEF Step
<1>11. "noRegistry" \in Errors /\ (r.error # NoError => r.error \in Errors)
  BY <1>2, ResultFacts
<1>12. Step(a, t, c, out)
  BY <1>6, <1>7, <1>8, <1>9, <1>10, <1>11
<1> QED BY <1>12 DEF c, out

-----------------------------------------------------------------------------
(* The invariant                                                           *)

LEMMA InitInv == Init => AgentInv
<1> SUFFICES ASSUME Init PROVE AgentInv
  OBVIOUS
<1> DEFINE s == RefreshSystemPrompt(EmptySession(SessionLimits))
<1>1. agent = NewAgent(SessionLimits)
  BY DEF Init, Construct, NewAgent
<1>2. Usable(s) /\ NonSystemMessages(s) = << >>
  <2> DEFINE e == EmptySession(SessionLimits)
  <2>1. SessionLimits \in Limits /\ << >> \in Seq(Messages) /\ Len(<< >>) = 0
    BY EaAgentConstants, EmptySeq DEF Limits
  <2>2. Usable(e) /\ NonSystemMessages(e) = << >>
    BY <2>1, ConstantFacts DEF EmptySession, Usable, Sessions, Flagged, NonSystemMessages
  <2> HIDE DEF e
  <2> QED BY <2>2, ConstantFacts, PromptSet DEF RefreshSystemPrompt, e
<1>3. /\ agent.session = s /\ agent.saved = NoSnapshot
      /\ agent.active = NoTurn /\ agent.ctx = [t \in Turns |-> NoCtx]
  BY <1>1 DEF NewAgent
<1>4. agent \in Agents
  <2>1. agent = [session |-> s, active |-> NoTurn, ctx |-> [t \in Turns |-> NoCtx],
                 saved |-> NoSnapshot]
    BY <1>1 DEF NewAgent
  <2> HIDE DEF s
  <2> QED BY <1>2, <2>1 DEF Agents, Usable
<1>5. \A t \in Turns : ~ InFlight(agent, t)
  BY <1>3 DEF InFlight
<1> HIDE DEF s
<1>6. TypeOK
  BY <1>4, <1>5, EaAgentConstants DEF TypeOK, Init, Agents, Contexts
<1>7. CallsAreAnswered(<< >>) /\ ResultsAreCalled(<< >>)
  BY DEF CallsAreAnswered, ResultsAreCalled
<1>8. ToolResultsPaired
  BY <1>2, <1>3, <1>7 DEF ToolResultsPaired, History
<1>9. SavedIsFinished
  BY <1>3 DEF SavedIsFinished
<1> QED BY <1>4, <1>5, <1>6, <1>8, <1>9 DEF AgentInv

(* A step of a turn keeps the invariant, whether the snapshot it made was  *)
(* written or not.  Turn t is new, and c never had one, or t is in flight, *)
(* and c waits for it.                                                     *)
LEMMA OutcomeKeepsInv ==
  ASSUME AgentInv, NEW t \in Turns, NEW c \in Callers, NEW out,
         Step(agent, t, c, out), Outcome(out, c),
         cancels' = cancels, restarts' = restarts,
         \/ ~ InFlight(agent, t) /\ answers[c] = "none"
         \/ InFlight(agent, t) /\ agent.ctx[t].done = c
  PROVE  AgentInv'
<1> DEFINE told == Told(out.result)
<1>1. /\ agent \in Agents /\ TypeOK
      /\ out.agent \in Agents /\ out.result \in Outcomes
      /\ agent.ctx \in [Turns -> Contexts \cup {NoCtx}]
      /\ answers \in [Callers -> Errors \cup {"none", "waiting", "ok", "lost"}]
      /\ answers' = [answers EXCEPT ![c] = told]
  BY DEF AgentInv, Step, Outcome, Agents, TypeOK
<1>2. /\ agent'.session = out.agent.session /\ agent'.ctx = out.agent.ctx
      /\ agent'.saved \in {agent.saved, out.agent.saved}
      /\ agent' \in Agents
  BY <1>1 DEF Outcome, Agents
<1>3. /\ told \in Errors \cup {"waiting", "ok"}
      /\ out.result = Pending => told = "waiting"
      /\ out.result # Pending => told = out.result
  BY <1>1 DEF Told, Outcomes
<1>4. answers[c] = "none" \/ answers[c] = "waiting"
  BY DEF AgentInv
<1>5. \A u \in Turns : InFlight(agent, u) /\ u # t => agent.ctx[u].done # c
  BY DEF AgentInv
<1>6. \A u \in Turns : u # t => agent'.ctx[u] = agent.ctx[u]
  BY <1>1, <1>2 DEF Step
<1>7. \/ ~ InFlight(agent', t) /\ out.result # Pending
      \/ /\ out.result = Pending
         /\ agent'.ctx[t].done = c /\ agent'.ctx[t].round < MaxToolRoundTrips
  <2>1. CASE out.result # Pending
    BY <1>1, <1>2, <2>1 DEF Step, InFlight
  <2>2. CASE out.result = Pending
    <3>1. PICK n \in Nat : /\ n < MaxToolRoundTrips
                           /\ out.agent.ctx = [agent.ctx EXCEPT ![t] = [done |-> c, round |-> n]]
      BY <2>2 DEF Step
    <3>2. agent'.ctx[t] = [done |-> c, round |-> n]
      BY <1>1, <1>2, <3>1
    <3> QED BY <2>2, <3>1, <3>2
  <2> QED BY <2>1, <2>2
<1> HIDE DEF told
<1>8. ASSUME NEW u \in Turns, InFlight(agent', u)
      PROVE  answers'[agent'.ctx[u].done] = "waiting"
  <2>1. CASE u = t
    BY <1>1, <1>3, <1>7, <1>8, <2>1
  <2>2. CASE u # t
    <3>1. InFlight(agent, u) /\ agent'.ctx[u].done = agent.ctx[u].done
      BY <1>6, <1>8, <2>2 DEF InFlight
    <3>2. agent.ctx[u].done # c /\ agent.ctx[u].done \in Callers
      BY <1>1, <1>5, <2>2, <3>1 DEF InFlight, Contexts
    <3>3. answers[agent.ctx[u].done] = "waiting"
      BY <3>1 DEF AgentInv
    <3> QED BY <1>1, <3>1, <3>2, <3>3
  <2> QED BY <2>1, <2>2
<1>9. ASSUME NEW u \in Turns, NEW v \in Turns,
             InFlight(agent', u), InFlight(agent', v), u # v
      PROVE  agent'.ctx[u].done # agent'.ctx[v].done
  <2>1. CASE u # t /\ v # t
    BY <1>6, <1>9, <2>1 DEF InFlight, AgentInv
  <2>2. CASE u = t
    BY <1>5, <1>6, <1>7, <1>9, <2>2 DEF InFlight
  <2>3. CASE v = t
    BY <1>5, <1>6, <1>7, <1>9, <2>3 DEF InFlight
  <2> QED BY <2>1, <2>2, <2>3
<1>10. TypeOK'
  <2>1. agent'.active \in Turns \cup {NoTurn}
        /\ agent'.ctx \in [Turns -> Contexts \cup {NoCtx}]
    BY <1>2 DEF Agents
  <2>2. ASSUME NEW u \in Turns, InFlight(agent', u)
        PROVE  agent'.ctx[u].round < MaxToolRoundTrips
    <3>1. CASE u = t
      BY <1>7, <2>2, <3>1
    <3>2. CASE u # t
      BY <1>1, <1>6, <2>2, <3>2 DEF InFlight, TypeOK
    <3> QED BY <3>1, <3>2
  <2>3. answers' \in [Callers -> Errors \cup {"none", "waiting", "ok", "lost"}]
    BY <1>1, <1>3
  <2>4. cancels' \in 0 .. MaxCancels /\ restarts' \in 0 .. MaxRestarts
    BY <1>1 DEF TypeOK
  <2> QED BY <2>1, <2>2, <2>3, <2>4 DEF TypeOK, Contexts
<1>11. ASSUME "toolFailed" \notin Range(answers')
       PROVE  /\ out.result # "toolFailed"
              /\ "toolFailed" \notin Range(answers)
  <2>1. DOMAIN answers = Callers /\ DOMAIN answers' = Callers
    BY <1>1
  <2>2. \A d \in Callers : answers'[d] # "toolFailed"
    BY <1>11, <2>1 DEF Range
  <2>3. \A d \in Callers : answers[d] # "toolFailed"
    BY <1>1, <1>4, <2>2
  <2>4. told # "toolFailed"
    BY <1>1, <2>2
  <2>5. Pending # "toolFailed"
    BY ResultFacts
  <2> QED BY <1>3, <2>1, <2>3, <2>4, <2>5 DEF Range
<1>12. Usable(out.agent.session)
  BY <1>1 DEF Agents, Usable
<1>13. Snapshot(out.agent.session).messages = NonSystemMessages(out.agent.session)
  BY <1>12, SnapshotFacts DEF Usable
<1>14. ASSUME "toolFailed" \notin Range(answers')
       PROVE  /\ CallsAreAnswered(NonSystemMessages(agent'.session))
              /\ agent'.saved # NoSnapshot => CallsAreAnswered(agent'.saved.messages)
  <2>1. /\ CallsAreAnswered(NonSystemMessages(agent.session))
        /\ agent.saved # NoSnapshot => CallsAreAnswered(agent.saved.messages)
        /\ out.result # "toolFailed"
    BY <1>11, <1>14 DEF AgentInv, ToolResultsPaired, History
  <2>2. CallsAreAnswered(NonSystemMessages(out.agent.session))
    BY <2>1 DEF Step
  <2>3. \/ agent'.saved = agent.saved
        \/ agent'.saved.messages = NonSystemMessages(out.agent.session)
    BY <1>2, <1>13 DEF Step
  <2> QED BY <1>2, <2>1, <2>2, <2>3
<1>16. /\ ResultsAreCalled(NonSystemMessages(agent'.session))
       /\ agent'.saved # NoSnapshot => ResultsAreCalled(agent'.saved.messages)
  <2>1. /\ ResultsAreCalled(NonSystemMessages(agent.session))
        /\ agent.saved # NoSnapshot => ResultsAreCalled(agent.saved.messages)
    BY DEF AgentInv, ToolResultsPaired, History
  <2>2. ResultsAreCalled(NonSystemMessages(out.agent.session))
    BY <2>1 DEF Step
  <2>3. \/ agent'.saved = agent.saved
        \/ agent'.saved.messages = NonSystemMessages(out.agent.session)
    BY <1>2, <1>13 DEF Step
  <2> QED BY <1>2, <2>1, <2>2, <2>3
<1>17. ToolResultsPaired'
  BY <1>14, <1>16 DEF ToolResultsPaired, History
<1>15. SavedIsFinished'
  <2>1. \/ agent'.saved = agent.saved
        \/ /\ out.result = "ok"
           /\ agent'.saved.messages = NonSystemMessages(out.agent.session)
           /\ Finished(NonSystemMessages(out.agent.session))
    BY <1>2, <1>13 DEF Step
  <2>2. agent.saved # NoSnapshot => Finished(agent.saved.messages) /\ "ok" \in Range(answers)
    BY DEF AgentInv, SavedIsFinished, Finished
  <2>3. agent'.saved # NoSnapshot => Finished(agent'.saved.messages)
    BY <2>1, <2>2
  <2>4. "ok" \in Range(answers) => "ok" \in Range(answers')
    <3>1. DOMAIN answers = Callers /\ DOMAIN answers' = Callers
      BY <1>1
    <3>2. \A d \in Callers : answers[d] = "ok" => answers'[d] = "ok"
      BY <1>1, <1>4
    <3> QED BY <3>1, <3>2 DEF Range
  <2>5. out.result = "ok" => "ok" \in Range(answers')
    <3>1. out.result = "ok" => answers'[c] = "ok"
      BY <1>1, <1>3, ResultFacts
    <3>2. DOMAIN answers' = Callers
      BY <1>1
    <3> QED BY <3>1, <3>2 DEF Range
  <2>6. agent'.saved # NoSnapshot => "ok" \in Range(answers')
    BY <2>1, <2>2, <2>4, <2>5
  <2> QED BY <2>3, <2>6 DEF SavedIsFinished, Finished
<1> QED BY <1>2, <1>8, <1>9, <1>10, <1>15, <1>17 DEF AgentInv

LEMMA SubmitKeepsInv ==
  ASSUME AgentInv, NEW c \in Callers, Submit(c)
  PROVE  AgentInv'
<1>1. PICK t \in Turns, sends \in BOOLEAN, skipAppendUser \in BOOLEAN :
        /\ agent.active = NoTurn => ~ InFlight(agent, t)
        /\ Outcome(AgentSubmit(agent, IF skipAppendUser THEN NoText ELSE c, c, t, sends), c)
  BY DEF Submit
<1> DEFINE text == IF skipAppendUser THEN NoText ELSE c
           out == AgentSubmit(agent, text, c, t, sends)
<1>2. agent \in Agents /\ text \in {NoText, c}
  BY DEF AgentInv
<1>3. answers[c] = "none" /\ cancels' = cancels /\ restarts' = restarts
  BY DEF Submit
<1> HIDE DEF text
<1>4. \/ agent.active = NoTurn /\ Step(agent, t, c, out)
      \/ agent.active # NoTurn /\ out = [agent |-> agent, result |-> "busy"]
  BY <1>2, SubmitStep
<1>5. Outcome(out, c)
  BY <1>1 DEF text
<1> HIDE DEF out
<1>6. CASE agent.active = NoTurn
  BY <1>1, <1>3, <1>4, <1>5, <1>6, OutcomeKeepsInv
<1>7. CASE agent.active # NoTurn
  <2>1. out.agent = agent /\ out.result = "busy" /\ "busy" # Pending
    BY <1>4, <1>7, ResultFacts
  <2>2. agent' = agent
    BY <1>2, <1>5, <2>1 DEF Outcome, Agents
  <2>3. answers' = [answers EXCEPT ![c] = "busy"]
    BY <1>5, <2>1 DEF Outcome, Told
  <2>4. answers \in [Callers -> Errors \cup {"none", "waiting", "ok", "lost"}]
    BY DEF AgentInv, TypeOK
  <2>5. \A d \in Callers : answers[d] \in {"waiting", "toolFailed"} => answers'[d] = answers[d]
    BY <1>3, <2>3, <2>4
  <2>6. ASSUME NEW u \in Turns, InFlight(agent', u)
        PROVE  answers'[agent'.ctx[u].done] = "waiting"
    <3>1. InFlight(agent, u) /\ answers[agent.ctx[u].done] = "waiting"
      BY <2>2, <2>6 DEF AgentInv
    <3>2. agent.ctx[u].done \in Callers
      BY <1>2, <3>1 DEF Agents, Contexts, InFlight
    <3> QED BY <2>2, <2>5, <3>1, <3>2
  <2>7. TypeOK'
    <3>1. answers' \in [Callers -> Errors \cup {"none", "waiting", "ok", "lost"}]
      BY <2>3, <2>4, ResultFacts
    <3> QED BY <1>3, <2>2, <3>1 DEF TypeOK, AgentInv, InFlight
  <2>8. "toolFailed" \in Range(answers) => "toolFailed" \in Range(answers')
    <3>1. DOMAIN answers = Callers /\ DOMAIN answers' = Callers
      BY <2>3, <2>4
    <3> QED BY <2>5, <3>1 DEF Range
  <2>9. ToolResultsPaired'
    BY <2>2, <2>8 DEF AgentInv, ToolResultsPaired, History
  <2>11. "ok" \in Range(answers) => "ok" \in Range(answers')
    <3>1. DOMAIN answers = Callers /\ DOMAIN answers' = Callers
      BY <2>3, <2>4
    <3>2. \A d \in Callers : answers[d] = "ok" => answers'[d] = "ok"
      BY <1>3, <2>3, <2>4
    <3> QED BY <3>1, <3>2 DEF Range
  <2>10. SavedIsFinished'
    BY <2>2, <2>11 DEF AgentInv, SavedIsFinished
  <2> QED BY <1>2, <2>2, <2>6, <2>7, <2>9, <2>10 DEF AgentInv, InFlight
<1> QED BY <1>6, <1>7

LEMMA CompleteKeepsInv ==
  ASSUME AgentInv, NEW t \in Turns, Complete(t)
  PROVE  AgentInv'
<1>1. /\ InFlight(agent, t) /\ cancels' = cancels /\ restarts' = restarts
      /\ \E r \in Responses, sends \in BOOLEAN :
            Outcome(Respond(agent, t, r, sends), agent.ctx[t].done)
  BY DEF Complete
<1>2. PICK r \in Responses, sends \in BOOLEAN :
            Outcome(Respond(agent, t, r, sends), agent.ctx[t].done)
  BY <1>1
<1>3. agent \in Agents /\ agent.ctx[t] \in Contexts /\ agent.ctx[t].done \in Callers
  BY <1>1 DEF AgentInv, Agents, InFlight, Contexts
<1>4. Step(agent, t, agent.ctx[t].done, Respond(agent, t, r, sends))
  BY <1>3, RespondStep
<1> QED BY <1>1, <1>2, <1>3, <1>4, OutcomeKeepsInv

(* setSystemPrompt and cancel touch neither turns nor history nor file. *)
LEMMA AgentKeepsInv ==
  ASSUME AgentInv, agent' \in Agents,
         agent'.ctx = agent.ctx, agent'.saved = agent.saved,
         NonSystemMessages(agent'.session) = NonSystemMessages(agent.session),
         answers' = answers, cancels' \in 0 .. MaxCancels, restarts' = restarts
  PROVE  AgentInv'
<1>1. TypeOK'
  BY DEF AgentInv, TypeOK, InFlight, Agents, Contexts
<1>2. ToolResultsPaired'
  BY DEF AgentInv, ToolResultsPaired, History
<1>3. SavedIsFinished'
  BY DEF AgentInv, SavedIsFinished
<1> QED BY <1>1, <1>2, <1>3 DEF AgentInv, InFlight

(* A new process has no turns; its history is what loading leaves of the   *)
(* file's.                                                                 *)
LEMMA RestartKeepsInv ==
  ASSUME AgentInv, Restart
  PROVE  AgentInv'
<1>13. PICK loaded \in {agent.saved, NoSnapshot} :
             agent' = [Construct(SessionLimits, loaded) EXCEPT !.saved = agent.saved]
  BY DEF Restart
<1> DEFINE e == EmptySession(SessionLimits)
           new == NewAgent(SessionLimits)
           s == IF Persist /\ loaded # NoSnapshot
                THEN ApplySnapshot(agent.saved, e) ELSE RefreshSystemPrompt(e)
           ctx == [t \in Turns |-> NoCtx]
<1>1. agent \in Agents /\ agent.saved \in Snapshots(Prompts, Messages) \cup {NoSnapshot}
  BY DEF AgentInv, Agents
<1>2. agent' = [session |-> s, active |-> NoTurn, ctx |-> ctx, saved |-> agent.saved]
  BY <1>13 DEF Construct, NewAgent
<1>3. Usable(e) /\ NonSystemMessages(e) = << >>
  <2>1. SessionLimits \in Limits /\ << >> \in Seq(Messages) /\ Len(<< >>) = 0
    BY EaAgentConstants, EmptySeq DEF Limits
  <2> QED BY <2>1, ConstantFacts DEF EmptySession, Usable, Sessions, Flagged, NonSystemMessages
<1> HIDE DEF e
<1>4. /\ Usable(s)
      /\ \/ NonSystemMessages(s) = << >>
         \/ /\ agent.saved # NoSnapshot /\ agent.saved \in Snapshots(Prompts, Messages)
            /\ \E k \in 0 .. Len(agent.saved.messages) :
                  NonSystemMessages(s) = Without(agent.saved.messages, k)
  <2>1. CASE Persist /\ loaded # NoSnapshot
    <3>7. agent.saved # NoSnapshot
      BY <1>13, <2>1
    <3>1. agent.saved \in Snapshots(Prompts, Messages)
      BY <1>1, <3>7
    <3> HIDE DEF s
    <3>2. s = ApplySnapshot(agent.saved, e)
      BY <2>1 DEF s
    <3> DEFINE saved == agent.saved
               d == ApplySnapshot(saved, e)
    <3>3. PromptMessages(Prompts) \subseteq Messages /\ e \in Sessions(Prompts, Messages)
      BY <1>3, ConstantFacts DEF Usable
    <3>4. saved \in Snapshots(Prompts, Messages)
      BY <3>1
    <3> HIDE DEF saved
    <3>5. /\ d \in Sessions(Prompts, Messages) /\ Flagged(d)
          /\ \E k \in 0 .. Len(saved.messages) : NonSystemMessages(d) = Without(saved.messages, k)
      <4>1. /\ d \in Sessions(Prompts, Messages) /\ Flagged(d) /\ Prompted(d)
            /\ d.prompt = saved.prompt /\ d.opts = SavedOptions(saved.opts)
            /\ WithinLimits(d)
            /\ \E k \in 0 .. Len(saved.messages) :
                  NonSystemMessages(d) = Without(saved.messages, k)
            /\ \/ NonSystemMessages(d) = saved.messages
               \/ ~ WithinLimits([d EXCEPT !.messages =
                                     SubSeq(@, 1, Start(d)) \o saved.messages])
        BY <3>3, <3>4, ApplySnapshotFacts
      <4> HIDE DEF d
      <4> QED BY <4>1
    <3> HIDE DEF d
    <3>6. s = d
      BY <3>2 DEF d, saved
    <3> QED BY <3>1, <3>5, <3>6, <3>7 DEF Usable, saved
  <2>2. CASE ~ (Persist /\ loaded # NoSnapshot)
    <3>1. s = SetSystemPrompt(e, Prompt)
      BY <2>2 DEF RefreshSystemPrompt
    <3> HIDE DEF s
    <3> QED BY <1>3, <3>1, ConstantFacts, PromptSet
  <2> QED BY <2>1, <2>2
<1> HIDE DEF s
<1>5. /\ agent'.session = s /\ agent'.ctx = ctx /\ agent'.active = NoTurn
      /\ agent'.saved = agent.saved
  BY <1>2
<1>6. agent' \in Agents
  BY <1>1, <1>2, <1>4 DEF Agents, Usable
<1>7. \A t \in Turns : ~ InFlight(agent', t)
  BY <1>5 DEF InFlight
<1>8. /\ answers \in [Callers -> Errors \cup {"none", "waiting", "ok", "lost"}]
      /\ answers' = [c \in Callers |-> IF answers[c] = "waiting" THEN "lost" ELSE answers[c]]
  BY DEF AgentInv, TypeOK, Restart
<1>9. TypeOK'
  <2>1. answers' \in [Callers -> Errors \cup {"none", "waiting", "ok", "lost"}]
    BY <1>8
  <2>2. agent'.active \in Turns \cup {NoTurn} /\ agent'.ctx \in [Turns -> Contexts \cup {NoCtx}]
    BY <1>6 DEF Agents
  <2>3. cancels' \in 0 .. MaxCancels /\ restarts' \in 0 .. MaxRestarts
    BY EaAgentConstants DEF Restart, AgentInv, TypeOK
  <2> QED BY <1>7, <2>1, <2>2, <2>3 DEF TypeOK, Contexts
<1>10. \A answer \in {"toolFailed", "ok"} : answer \in Range(answers) => answer \in Range(answers')
  <2>1. DOMAIN answers = Callers /\ DOMAIN answers' = Callers
    BY <1>8
  <2>2. ASSUME NEW answer \in {"toolFailed", "ok"}
        PROVE  \A c \in Callers : answers[c] = answer => answers'[c] = answer
    BY <1>8
  <2> QED BY <2>1, <2>2 DEF Range
<1>11. ToolResultsPaired'
  <2>1. CASE NonSystemMessages(s) = << >>
    <3>1. CallsAreAnswered(<< >>) /\ ResultsAreCalled(<< >>)
      BY DEF CallsAreAnswered, ResultsAreCalled
    <3> QED BY <1>5, <1>10, <2>1, <3>1 DEF AgentInv, ToolResultsPaired, History
  <2>2. CASE NonSystemMessages(s) # << >>
    <3>1. /\ agent.saved # NoSnapshot /\ agent.saved \in Snapshots(Prompts, Messages)
          /\ \E k \in 0 .. Len(agent.saved.messages) :
                NonSystemMessages(s) = Without(agent.saved.messages, k)
      BY <1>4, <2>2
    <3>2. agent.saved.messages \in Seq(Messages)
      BY <3>1 DEF Snapshots, Histories
    <3>3. StillPaired(agent.saved.messages, NonSystemMessages(s))
      BY <3>1, <3>2, AnsweredWithout, CalledWithout DEF StillPaired
    <3> QED BY <1>5, <1>10, <3>1, <3>3
            DEF AgentInv, ToolResultsPaired, History, StillPaired
  <2> QED BY <2>1, <2>2
<1>12. SavedIsFinished'
  BY <1>5, <1>10 DEF AgentInv, SavedIsFinished
<1> QED BY <1>6, <1>7, <1>9, <1>11, <1>12 DEF AgentInv

LEMMA NextKeepsInv == AgentInv /\ [Next]_vars => AgentInv'
<1> SUFFICES ASSUME AgentInv, [Next]_vars PROVE AgentInv'
  OBVIOUS
<1>1. agent \in Agents /\ Usable(agent.session) /\ cancels \in 0 .. MaxCancels
  BY DEF AgentInv, Agents, Usable, TypeOK
<1>2. ASSUME NEW c \in Callers, Submit(c) PROVE AgentInv'
  BY <1>2, SubmitKeepsInv
<1>3. ASSUME NEW t \in Turns, Complete(t) PROVE AgentInv'
  BY <1>3, CompleteKeepsInv
<1>4. ASSUME NEW prompt \in Overrides, SetPrompt(prompt) PROVE AgentInv'
  <2> DEFINE s == SetSystemPrompt(agent.session, prompt)
  <2>1. Usable(s) /\ NonSystemMessages(s) = NonSystemMessages(agent.session)
    BY <1>1, ConstantFacts, PromptSet
  <2>2. agent' = [agent EXCEPT !.session = s]
    BY <1>4 DEF SetPrompt
  <2> HIDE DEF s
  <2>3. /\ agent' \in Agents /\ agent'.session = s
        /\ agent'.ctx = agent.ctx /\ agent'.saved = agent.saved
    BY <1>1, <2>1, <2>2, SessionWith
  <2>4. answers' = answers /\ cancels' = cancels /\ restarts' = restarts
    BY <1>4 DEF SetPrompt
  <2> QED BY <1>1, <2>1, <2>3, <2>4, AgentKeepsInv
<1>5. ASSUME Cancel PROVE AgentInv'
  <2>1. /\ agent' \in Agents /\ agent'.session = agent.session
        /\ agent'.ctx = agent.ctx /\ agent'.saved = agent.saved
    BY <1>1, <1>5 DEF Cancel, AgentCancel, Agents
  <2>2. answers' = answers /\ cancels' \in 0 .. MaxCancels /\ restarts' = restarts
    BY <1>1, <1>5, EaAgentConstants DEF Cancel
  <2> QED BY <2>1, <2>2, AgentKeepsInv
<1>6. ASSUME Restart PROVE AgentInv'
  BY <1>6, RestartKeepsInv
<1>7. ASSUME UNCHANGED vars PROVE AgentInv'
  <2>1. agent' = agent /\ answers' = answers /\ cancels' = cancels /\ restarts' = restarts
    BY <1>7 DEF vars
  <2> QED BY <1>1, <2>1, AgentKeepsInv
<1> QED BY <1>2, <1>3, <1>4, <1>5, <1>6, <1>7 DEF Next

THEOREM AlwaysInv == Spec => []AgentInv
BY InitInv, NextKeepsInv, PTL DEF Spec

(* maxToolRoundTrips bounds every turn, also one that was cancelled and    *)
(* goes on beside the turn that took its place.                            *)
THEOREM RoundsAreBounded == Spec => []TypeOK
<1>1. AgentInv => TypeOK
  BY DEF AgentInv
<1> QED BY <1>1, AlwaysInv, PTL

(* Neither a chat request nor session.json ever holds a tool call without  *)
(* its results, unless a tool handler failed, or a result without its      *)
(* call, unless at the front, where trim() has cut the round: appending,   *)
(* cancelled turns that go on, failing turns and loading separate nothing. *)
THEOREM ResultsFollowCalls == Spec => []ToolResultsPaired
<1>1. AgentInv => ToolResultsPaired
  BY DEF AgentInv
<1> QED BY <1>1, AlwaysInv, PTL

(* saveSession is reached only behind the reply that ends a turn, and only *)
(* in a turn that tells its caller of success: so a session.json ends with *)
(* a reply.  (It may hold the rest of turns that failed before.)           *)
THEOREM SavedAfterReply == Spec => []SavedIsFinished
<1>1. AgentInv => SavedIsFinished
  BY DEF AgentInv
<1> QED BY <1>1, AlwaysInv, PTL
=============================================================================

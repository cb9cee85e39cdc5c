-------------------------- MODULE SessionOpsProofs --------------------------
(***************************************************************************)
(* What the operations of a session do to its history, for any messages,   *)
(* prompts and limits: lemmas that the proofs about EaSession and EaAgent  *)
(* cite.  A session is the system prompt, if there is one, and behind it   *)
(* the history, NonSystemMessages; each lemma says what becomes of both.   *)
(*                                                                         *)
(* Of trim() they need little: it drops the oldest messages of the         *)
(* history, and stops as soon as the limits are kept.                      *)
(***************************************************************************)
EXTENDS SessionOps, TLAPS, SequenceTheorems, WellFoundedInduction

Limits == [maxMessages : Nat, maxApproxTokens : Nat]

(* Sessions with prompts P and messages M *)
Sessions(P, M) ==
  [opts : Limits, prompt : P, messages : Seq(M), hasSystem : BOOLEAN]

(* The flag hasSystemMessage_ tells whether the messages begin with a      *)
(* system message, which is then the only one.                             *)
Flagged(s) ==
  /\ s.hasSystem => Len(s.messages) > 0
  /\ \A i \in 1 .. Len(s.messages) : s.messages[i].role = "system" <=> i = 1 /\ s.hasSystem

(* There is one exactly when a prompt is set, and it is that prompt. *)
Prompted(s) ==
  /\ s.hasSystem <=> s.prompt # NoPrompt
  /\ s.hasSystem => s.messages[1].text = s.prompt

(* Messages of a history: none of them is a system message. *)
Histories(M) == {h \in Seq(M) : \A i \in 1 .. Len(h) : h[i].role # "system"}

(* What session.json may hold *)
Snapshots(P, M) == [prompt : P, opts : Limits, messages : Histories(M)]

PromptMessages(P) == {Message("system", p, 0, PromptSize[p]) : p \in P \ {NoPrompt}}

(* h without its first k messages *)
Without(h, k) == SubSeq(h, k + 1, Len(h))

(* d is session s with its history replaced by h. *)
HasHistory(P, M, s, d, h) ==
  /\ d \in Sessions(P, M) /\ Flagged(d)
  /\ Prompted(s) => Prompted(d)
  /\ d.prompt = s.prompt /\ d.opts = s.opts /\ d.hasSystem = s.hasSystem
  /\ Start(d) = Start(s)
  /\ \A i \in 1 .. Start(s) : d.messages[i] = s.messages[i]
  /\ NonSystemMessages(d) = h

(* The same, after trim(). *)
TrimmedTo(P, M, s, d, h) ==
  /\ WithinLimits(d)
  /\ \E k \in 0 .. Len(h) : HasHistory(P, M, s, d, Without(h, k))

-----------------------------------------------------------------------------
(* Sequences                                                               *)

LEMMA WithoutFacts ==
  ASSUME NEW M, NEW h \in Seq(M), NEW k \in 0 .. Len(h)
  PROVE  /\ Without(h, k) \in Seq(M)
         /\ Len(Without(h, k)) = Len(h) - k
         /\ \A i \in 1 .. Len(h) - k : Without(h, k)[i] = h[k + i]
<1> DEFINE w == SubSeq(h, k + 1, Len(h))
<1>1. Len(h) \in Nat
  BY LenProperties
<1>2. \A i \in k + 1 .. Len(h) : h[i] \in M
  BY <1>1, ElementOfSeq
<1>3. /\ w \in Seq(M)
      /\ Len(w) = IF k + 1 <= Len(h) THEN Len(h) - (k + 1) + 1 ELSE 0
      /\ \A i \in 1 .. Len(h) - (k + 1) + 1 : w[i] = h[k + 1 + i - 1]
  BY <1>1, <1>2, SubSeqProperties
<1> HIDE DEF w
<1>4. Len(w) = Len(h) - k
  BY <1>1, <1>3
<1>5. ASSUME NEW i \in 1 .. Len(h) - k
      PROVE  w[i] = h[k + i]
  <2>1. i \in 1 .. Len(h) - (k + 1) + 1 /\ k + 1 + i - 1 = k + i
    BY <1>1
  <2> QED BY <1>3, <2>1
<1> QED BY <1>3, <1>4, <1>5 DEF Without, w

LEMMA ReverseFacts ==
  ASSUME NEW M, NEW h \in Seq(M)
  PROVE  /\ Reverse(h) \in Seq(M)
         /\ Len(Reverse(h)) = Len(h)
         /\ \A i \in 1 .. Len(h) : Reverse(h)[i] = h[Len(h) - i + 1]
<1> DEFINE n == Len(h)
           r == Reverse(h)
<1>1. n \in Nat
  BY LenProperties
<1>2. r = [i \in 1 .. n |-> h[(n - i) + 1]]
  BY DEF Reverse
<1>3. \A i \in 1 .. n : h[(n - i) + 1] \in M
  <2>1. \A i \in 1 .. n : (n - i) + 1 \in 1 .. n
    BY <1>1
  <2> QED BY <2>1, ElementOfSeq
<1> HIDE DEF n, r
<1>4. r \in [1 .. n -> M]
  BY <1>2, <1>3
<1>5. r \in Seq(M)
  BY <1>1, <1>4, SeqDef
<1>6. 1 .. Len(r) = 1 .. n /\ Len(r) \in Nat
  BY <1>4, <1>5, LenProperties
<1>7. Len(r) = n
  BY <1>1, <1>6
<1> QED BY <1>2, <1>5, <1>7 DEF n, r

(* What is left of a history is the end of it. *)
LEMMA WithoutSuffix ==
  ASSUME NEW M, NEW h \in Seq(M), NEW k \in 0 .. Len(h)
  PROVE  IsSuffix(Without(h, k), h)
<1> DEFINE w == Without(h, k)
           r == Reverse(w)
           b == Reverse(h)
<1>1. /\ Len(h) \in Nat
      /\ w \in Seq(M) /\ Len(w) = Len(h) - k /\ Len(w) \in Nat
      /\ \A i \in 1 .. Len(w) : w[i] = h[k + i]
  BY LenProperties, WithoutFacts
<1> HIDE DEF w
<1>2. /\ r \in Seq(M) /\ Len(r) = Len(w) /\ \A i \in 1 .. Len(w) : r[i] = w[Len(w) - i + 1]
  BY <1>1, ReverseFacts
<1>3. /\ b \in Seq(M) /\ Len(b) = Len(h) /\ \A i \in 1 .. Len(h) : b[i] = h[Len(h) - i + 1]
  BY ReverseFacts
<1> HIDE DEF r, b
<1> DEFINE front == SubSeq(b, 1, Len(r))
<1>4. SubSeq(r, 1, Len(r)) = r
  BY <1>2, SubSeqFull
<1>5. /\ front \in Seq(M)
      /\ Len(front) = Len(r)
      /\ \A i \in 1 .. Len(r) : front[i] = b[i]
  <2>1. \A i \in 1 .. Len(r) : b[i] \in M
    BY <1>1, <1>2, <1>3, ElementOfSeq
  <2>2. /\ front \in Seq(M)
        /\ Len(front) = IF 1 <= Len(r) THEN Len(r) - 1 + 1 ELSE 0
        /\ \A i \in 1 .. Len(r) - 1 + 1 : front[i] = b[1 + i - 1]
    BY <1>1, <1>2, <2>1, SubSeqProperties
  <2> HIDE DEF front
  <2> QED BY <1>1, <1>2, <2>2
<1> HIDE DEF front
<1>6. ASSUME NEW i \in 1 .. Len(r)
      PROVE  r[i] = front[i]
  <2>1. r[i] = h[k + (Len(w) - i + 1)]
    <3>1. Len(w) - i + 1 \in 1 .. Len(w)
      BY <1>1, <1>2
    <3> QED BY <1>1, <1>2, <3>1
  <2>2. front[i] = h[Len(h) - i + 1]
    BY <1>1, <1>2, <1>3, <1>5
  <2>3. k + (Len(w) - i + 1) = Len(h) - i + 1
    BY <1>1, <1>2
  <2> QED BY <2>1, <2>2, <2>3
<1>7. r = front
  BY <1>2, <1>5, <1>6, SeqEqual
<1>8. IsPrefix(r, b)
  BY <1>1, <1>2, <1>3, <1>4, <1>7 DEF IsPrefix, front
<1> QED BY <1>8 DEF IsSuffix, r, b, w

(* A set of natural numbers that is not empty has a least element. *)
LEMMA LeastNumber ==
  ASSUME NEW S, S \subseteq Nat, S # {}
  PROVE  \E x \in S : \A y \in S : x <= y
<1>1. PICK x \in S : \A y \in S : ~ (<<y, x>> \in OpToRel(<, Nat))
  BY NatLessThanWellFounded, WFMin
<1>2. \A y \in S : ~ (y < x)
  BY <1>1 DEF OpToRel
<1> QED BY <1>2

(* What holds before a loop and is kept by every round of it *)
LEMMA LoopInduction ==
  ASSUME NEW n \in Nat, NEW I, 0 \in I,
         \A i \in 1 .. n : i - 1 \in I => i \in I
  PROVE  \A i \in 0 .. n : i \in I
<1> DEFINE Bad == {i \in 0 .. n : i \notin I}
<1>1. SUFFICES ASSUME NEW b \in 0 .. n, b \notin I PROVE FALSE
  OBVIOUS
<1>2. PICK x \in Bad : \A y \in Bad : x <= y
  <2>1. Bad \subseteq Nat /\ Bad # {}
    BY <1>1
  <2> HIDE DEF Bad
  <2> QED BY <2>1, LeastNumber
<1>3. x \in 1 .. n /\ x - 1 \in 0 .. n /\ ~ (x <= x - 1)
  BY <1>2
<1>4. x - 1 \in I
  BY <1>2, <1>3
<1> QED BY <1>2, <1>3, <1>4

(* A loop of n rounds on values of S: round i turns v into step[i][v], and *)
(* g[i] is the value after its first i rounds.                             *)
Loops(n, S) == [1 .. n -> [S -> S]]

LoopRun(n, S, e, step, g) ==
  /\ g \in [0 .. n -> S]
  /\ g[0] = e
  /\ \A i \in 1 .. n : g[i] = step[i][g[i - 1]]

LEMMA LoopValues ==
  ASSUME NEW n \in Nat, NEW S, NEW e \in S, NEW step \in Loops(n, S)
  PROVE  \E g : LoopRun(n, S, e, step, g)
<1> DEFINE Rounds(m, g) == \A i \in 1 .. m : g[i] = step[i][g[i - 1]]
           Runs(m, g) == g[0] = e /\ Rounds(m, g)
           I == {m \in 0 .. n : \E g \in [0 .. m -> S] : Runs(m, g)}
<1>5. step \in [1 .. n -> [S -> S]]
  BY DEF Loops
<1>1. 0 \in I
  <2> DEFINE g == [i \in 0 .. 0 |-> e]
  <2>1. g \in [0 .. 0 -> S] /\ g[0] = e /\ 0 \in 0 .. n
    OBVIOUS
  <2>2. 1 .. 0 = {}
    OBVIOUS
  <2>3. Rounds(0, g)
    BY <2>2
  <2> HIDE DEF Rounds, g
  <2> QED BY <2>1, <2>3
<1>2. ASSUME NEW m \in 1 .. n, m - 1 \in I
      PROVE  m \in I
  <2>1. PICK g \in [0 .. m - 1 -> S] : Runs(m - 1, g)
    BY <1>2
  <2>2. m - 1 \in 0 .. m - 1 /\ m \notin 0 .. m - 1
        /\ \A i \in 1 .. m : i - 1 \in 0 .. m - 1 /\ i \in 0 .. m /\ i - 1 # m
    OBVIOUS
  <2>3. step[m][g[m - 1]] \in S
    BY <1>5, <2>2
  <2> DEFINE h == [i \in 0 .. m |-> IF i = m THEN step[m][g[m - 1]] ELSE g[i]]
  <2>4. h \in [0 .. m -> S]
    BY <2>3
  <2>5. h[0] = e
    BY <2>1
  <2>6. ASSUME NEW i \in 1 .. m
        PROVE  h[i] = step[i][h[i - 1]]
    <3>1. h[i - 1] = g[i - 1]
      BY <2>2
    <3>2. CASE i = m
      BY <3>1, <3>2
    <3>3. CASE i # m
      <4>1. i \in 1 .. m - 1 /\ i \in 0 .. m
        BY <3>3
      <4>2. h[i] = g[i]
        BY <3>3, <4>1
      <4> QED BY <2>1, <3>1, <4>1, <4>2
    <3> QED BY <3>2, <3>3
  <2>7. m \in 0 .. n
    OBVIOUS
  <2>8. Rounds(m, h)
    BY <2>6
  <2> HIDE DEF Rounds, h
  <2> QED BY <2>4, <2>5, <2>7, <2>8
<1> HIDE DEF I
<1>3. n \in I
  <2>1. \A i \in 0 .. n : i \in I
    BY <1>1, <1>2, LoopInduction
  <2> QED BY <2>1
<1>4. PICK g \in [0 .. n -> S] : Runs(n, g)
  BY <1>3 DEF I
<1> QED BY <1>4 DEF LoopRun

(* It is the one Min chooses. *)
LEMMA MinFacts ==
  ASSUME NEW S, S \subseteq Nat, S # {}
  PROVE  Min(S) \in S /\ \A k \in S : Min(S) <= k
BY LeastNumber DEF Min

(* The characters of a history are counted message by message. *)
LEMMA CharsFacts ==
  ASSUME NEW M, \A m \in M : m.size \in Nat, NEW q \in Seq(M)
  PROVE \E g \in [0 .. Len(q) -> Nat] :
          /\ Chars(q) = g[Len(q)]
          /\ g[0] = 0
          /\ \A i \in 1 .. Len(q) : g[i] = g[i - 1] + q[i].size
<1> DEFINE n == Len(q)
           upTo == CHOOSE f : f = [i \in 0 .. n |-> IF i = 0 THEN 0 ELSE f[i - 1] + q[i].size]
           step == [i \in 1 .. n |-> [v \in Nat |-> v + q[i].size]]
<1>1. n \in Nat /\ \A i \in 1 .. n : q[i].size \in Nat
  <2>1. n \in Nat
    BY LenProperties
  <2>2. \A i \in 1 .. n : q[i] \in M
    BY ElementOfSeq
  <2> QED BY <2>1, <2>2
<1>2. Chars(q) = upTo[n]
  BY DEF Chars
<1>3. step \in [1 .. n -> [Nat -> Nat]]
  BY <1>1
<1> HIDE DEF n
<1>4. PICK g : /\ g \in [0 .. n -> Nat] /\ g[0] = 0
               /\ \A i \in 1 .. n : g[i] = step[i][g[i - 1]]
  <2>1. step \in Loops(n, Nat) /\ 0 \in Nat
    BY <1>3 DEF Loops
  <2> HIDE DEF step
  <2>2. \E g : LoopRun(n, Nat, 0, step, g)
    BY <1>1, <2>1, LoopValues
  <2> QED BY <2>2 DEF LoopRun
<1>5. ASSUME NEW i \in 1 .. n
      PROVE  g[i] = g[i - 1] + q[i].size
  <2>1. i - 1 \in 0 .. n
    BY <1>1
  <2>2. g[i] = step[i][g[i - 1]] /\ g[i - 1] \in Nat
    BY <1>4, <2>1
  <2> QED BY <2>2
<1>6. g = [i \in 0 .. n |-> IF i = 0 THEN 0 ELSE g[i - 1] + q[i].size]
  <2>1. \A i \in 0 .. n : i # 0 => i \in 1 .. n
    BY <1>1
  <2> QED BY <1>4, <1>5, <2>1
<1>7. upTo = [i \in 0 .. n |-> IF i = 0 THEN 0 ELSE upTo[i - 1] + q[i].size]
  BY <1>6
<1> HIDE DEF upTo
<1>8. upTo[0] = 0 /\ \A i \in 1 .. n : upTo[i] = upTo[i - 1] + q[i].size
  BY <1>1, <1>7
<1> DEFINE I == {i \in 0 .. n : upTo[i] \in Nat}
<1>9. 0 \in I /\ \A i \in 1 .. n : i - 1 \in I => i \in I
  <2>1. 0 \in I
    BY <1>1, <1>8
  <2>2. ASSUME NEW i \in 1 .. n, upTo[i - 1] \in Nat
        PROVE  i \in 0 .. n /\ upTo[i] \in Nat
    <3>1. i \in 0 .. n /\ q[i].size \in Nat
      BY <1>1
    <3>2. upTo[i] = upTo[i - 1] + q[i].size
      BY <1>8
    <3> QED BY <2>2, <3>1, <3>2
  <2> QED BY <2>1, <2>2
<1>10. \A i \in 0 .. n : i \in I
  <2> HIDE DEF I
  <2> QED BY <1>1, <1>9, LoopInduction
<1>11. upTo \in [0 .. n -> Nat]
  BY <1>7, <1>10
<1> QED BY <1>2, <1>8, <1>11 DEF n

(* A beginning of a history has no more characters than all of it. *)
LEMMA CharsGrow ==
  ASSUME NEW M, \A m \in M : m.size \in Nat, NEW q \in Seq(M), NEW p \in Seq(M),
         Len(p) <= Len(q), \A i \in 1 .. Len(p) : p[i] = q[i]
  PROVE  Chars(p) \in Nat /\ Chars(q) \in Nat /\ Chars(p) <= Chars(q)
<1> DEFINE n == Len(p)
           l == Len(q)
<1>1. n \in Nat /\ l \in Nat /\ n <= l /\ \A i \in 1 .. n : p[i] = q[i]
  BY LenProperties
<1>2. \A i \in 1 .. l : q[i].size \in Nat
  <2>1. \A i \in 1 .. l : q[i] \in M
    BY ElementOfSeq
  <2> QED BY <2>1
<1>3. PICK f \in [0 .. n -> Nat] :
           Chars(p) = f[n] /\ f[0] = 0 /\ \A i \in 1 .. n : f[i] = f[i - 1] + p[i].size
  BY CharsFacts
<1>4. PICK g \in [0 .. l -> Nat] :
           Chars(q) = g[l] /\ g[0] = 0 /\ \A i \in 1 .. l : g[i] = g[i - 1] + q[i].size
  BY CharsFacts
<1> HIDE DEF n, l
<1>5. f[n] = g[n]
  <2> DEFINE I == {i \in 0 .. n : f[i] = g[i]}
  <2>1. 0 \in I
    BY <1>1, <1>3, <1>4
  <2>2. ASSUME NEW i \in 1 .. n, i - 1 \in I
        PROVE  i \in I
    <3>1. f[i - 1] = g[i - 1] /\ i \in 0 .. n /\ i \in 1 .. l /\ p[i] = q[i]
      BY <1>1, <2>2
    <3>2. f[i] = f[i - 1] + p[i].size /\ g[i] = g[i - 1] + q[i].size
      BY <1>3, <1>4, <3>1
    <3> QED BY <3>1, <3>2
  <2> HIDE DEF I
  <2>3. \A i \in 0 .. n : i \in I
    BY <1>1, <2>1, <2>2, LoopInduction
  <2>4. n \in I
    BY <1>1, <2>3
  <2> QED BY <2>4 DEF I
<1>6. g[n] <= g[l]
  <2> DEFINE I == {i \in 0 .. l - n : g[n] <= g[n + i]}
  <2>1. l - n \in Nat /\ g[n] \in Nat
    BY <1>1
  <2>2. 0 \in I
    BY <1>1, <2>1
  <2>3. ASSUME NEW i \in 1 .. l - n, i - 1 \in I
        PROVE  i \in I
    <3>1. /\ g[n] <= g[n + (i - 1)]
          /\ i \in 0 .. l - n /\ n + i \in 1 .. l /\ (n + i) - 1 = n + (i - 1)
          /\ n + (i - 1) \in 0 .. l
      BY <1>1, <2>3
    <3>2. g[n + i] = g[n + (i - 1)] + q[n + i].size
      BY <1>4, <3>1
    <3>3. g[n + (i - 1)] \in Nat /\ q[n + i].size \in Nat
      BY <1>2, <3>1
    <3>4. g[n] <= g[n + i]
      <4> DEFINE x == g[n]
                 y == g[n + (i - 1)]
                 z == q[n + i].size
      <4>1. x \in Nat /\ y \in Nat /\ z \in Nat /\ x <= y
        BY <2>1, <3>1, <3>3
      <4> HIDE DEF x, y, z
      <4>2. x <= y + z
        BY <4>1
      <4> QED BY <3>2, <4>2 DEF x, y, z
    <3> QED BY <3>1, <3>4
  <2> HIDE DEF I
  <2>4. \A i \in 0 .. l - n : i \in I
    BY <2>1, <2>2, <2>3, LoopInduction
  <2>5. l - n \in I /\ n + (l - n) = l
    BY <1>1, <2>1, <2>4
  <2> QED BY <2>5 DEF I
<1> QED BY <1>1, <1>3, <1>4, <1>5, <1>6

-----------------------------------------------------------------------------
(* The prompt and the history                                              *)

LEMMA SessionFacts ==
  ASSUME NEW P, NEW M, NEW s \in Sessions(P, M), Flagged(s)
  PROVE  /\ s.messages \in Seq(M)
         /\ Len(s.messages) \in Nat
         /\ DOMAIN s.messages = 1 .. Len(s.messages)
         /\ Start(s) \in {0, 1} /\ Start(s) <= Len(s.messages)
         /\ s.hasSystem <=> Start(s) = 1
         /\ \A i \in 1 .. Len(s.messages) :
               s.messages[i] \in M /\ (s.messages[i].role = "system" <=> i <= Start(s))
<1>1. s.messages \in Seq(M) /\ s.hasSystem \in BOOLEAN
  BY DEF Sessions
<1>2. Len(s.messages) \in Nat /\ DOMAIN s.messages = 1 .. Len(s.messages)
  BY <1>1, LenProperties
<1>3. \A i \in 1 .. Len(s.messages) : s.messages[i] \in M
  BY <1>1, ElementOfSeq
<1>4. Start(s) = IF s.hasSystem THEN 1 ELSE 0
  BY DEF Start
<1> QED BY <1>1, <1>2, <1>3, <1>4 DEF Flagged

(* The history is what is behind the prompt: nonSystemMessages() need not  *)
(* look at the flag.                                                       *)
LEMMA HistoryFacts ==
  ASSUME NEW P, NEW M, NEW s \in Sessions(P, M), Flagged(s)
  PROVE  LET h == NonSystemMessages(s)
         IN  /\ h \in Histories(M) /\ h \in Seq(M)
             /\ Len(h) \in Nat
             /\ DOMAIN h = 1 .. Len(h)
             /\ Len(s.messages) = Start(s) + Len(h)
             /\ \A i \in 1 .. Len(h) : h[i] = s.messages[Start(s) + i]
<1> DEFINE q == s.messages
           h == NonSystemMessages(s)
<1>1. /\ q \in Seq(M) /\ Len(q) \in Nat
      /\ Start(s) \in {0, 1} /\ Start(s) <= Len(q)
      /\ \A i \in 1 .. Len(q) : q[i] \in M /\ (q[i].role = "system" <=> i <= Start(s))
  BY SessionFacts
<1>2. h = IF q # << >> /\ Head(q).role = "system" THEN Tail(q) ELSE q
  BY DEF NonSystemMessages
<1>3. q # << >> => Len(q) > 0 /\ Head(q) = q[1]
  BY <1>1, EmptySeq
<1>4. q = << >> => Len(q) = 0
  BY EmptySeq
<1> HIDE DEF q, h
<1>5. h \in Seq(M) /\ Len(h) = Len(q) - Start(s) /\ \A i \in 1 .. Len(h) : h[i] = q[Start(s) + i]
  <2>1. CASE Start(s) = 1
    <3>1. q # << >> /\ Head(q).role = "system"
      BY <1>1, <1>3, <1>4, <2>1
    <3>2. h \in Seq(M) /\ Len(h) = Len(q) - 1 /\ \A i \in 1 .. Len(h) : h[i] = q[i + 1]
      BY <1>1, <1>2, <3>1, HeadTailProperties
    <3>3. \A i \in 1 .. Len(h) : h[i] = q[1 + i]
      BY <1>1, <3>2
    <3> QED BY <2>1, <3>2, <3>3
  <2>2. CASE Start(s) = 0
    <3>1. h = q
      BY <1>1, <1>2, <1>3, <2>2
    <3>2. \A i \in 1 .. Len(h) : h[i] = q[0 + i]
      BY <1>1, <3>1
    <3> QED BY <1>1, <2>2, <3>1, <3>2
  <2> QED BY <1>1, <2>1, <2>2
<1>6. Len(h) \in Nat /\ DOMAIN h = 1 .. Len(h) /\ Len(q) = Start(s) + Len(h)
  BY <1>1, <1>5, LenProperties
<1>7. \A i \in 1 .. Len(h) : h[i].role # "system"
  <2>1. \A i \in 1 .. Len(h) : Start(s) + i \in 1 .. Len(q) /\ ~ (Start(s) + i <= Start(s))
    BY <1>1, <1>6
  <2> QED BY <1>1, <1>5, <2>1
<1> QED BY <1>5, <1>6, <1>7 DEF Histories, q, h

(* A session is determined by its first messages and its history. *)
LEMMA HistoryIs ==
  ASSUME NEW P, NEW M, NEW s \in Sessions(P, M), Flagged(s), NEW h \in Seq(M),
         Len(s.messages) = Start(s) + Len(h),
         \A i \in 1 .. Len(h) : s.messages[Start(s) + i] = h[i]
  PROVE  NonSystemMessages(s) = h
<1> DEFINE n == NonSystemMessages(s)
<1>1. /\ n \in Seq(M) /\ Len(n) \in Nat
      /\ Len(s.messages) = Start(s) + Len(n)
      /\ \A i \in 1 .. Len(n) : n[i] = s.messages[Start(s) + i]
  BY HistoryFacts
<1> HIDE DEF n
<1>2. Len(h) \in Nat /\ Start(s) \in {0, 1}
  BY LenProperties, SessionFacts
<1>3. Len(n) = Len(h)
  BY <1>1, <1>2
<1>4. \A i \in 1 .. Len(n) : n[i] = h[i]
  BY <1>1, <1>3
<1>5. n = h
  BY <1>1, <1>3, <1>4, SeqEqual
<1> QED BY <1>5 DEF n

(* The messages are exchanged behind the prompt: every operation but those *)
(* on the prompt does this and no more.                                    *)
LEMMA Exchanged ==
  ASSUME NEW P, NEW M, NEW s \in Sessions(P, M), Flagged(s),
         NEW h \in Histories(M), NEW q \in Seq(M),
         Len(q) = Start(s) + Len(h),
         \A i \in 1 .. Start(s) : q[i] = s.messages[i],
         \A i \in 1 .. Len(h) : q[Start(s) + i] = h[i]
  PROVE  LET d == [s EXCEPT !.messages = q]
         IN  HasHistory(P, M, s, d, h) /\ d.messages = q
<1> DEFINE d == [s EXCEPT !.messages = q]
<1>1. /\ d \in Sessions(P, M) /\ d.messages = q
      /\ d.prompt = s.prompt /\ d.opts = s.opts /\ d.hasSystem = s.hasSystem
  BY DEF Sessions
<1> HIDE DEF d
<1>2. Start(d) = Start(s)
  BY <1>1 DEF Start
<1>3. /\ Len(s.messages) \in Nat
      /\ Start(s) \in {0, 1} /\ Start(s) <= Len(s.messages)
      /\ s.hasSystem <=> Start(s) = 1
      /\ \A i \in 1 .. Len(s.messages) : s.messages[i].role = "system" <=> i <= Start(s)
  BY SessionFacts
<1>4. h \in Seq(M) /\ Len(h) \in Nat /\ \A i \in 1 .. Len(h) : h[i].role # "system"
  BY LenProperties DEF Histories
<1>5. ASSUME NEW i \in 1 .. Len(q)
      PROVE  q[i].role = "system" <=> i <= Start(s)
  <2>1. CASE i <= Start(s)
    <3>1. i \in 1 .. Start(s) /\ i \in 1 .. Len(s.messages)
      BY <1>3, <2>1
    <3> QED BY <1>3, <2>1, <3>1
  <2>2. CASE ~ (i <= Start(s))
    <3>1. i - Start(s) \in 1 .. Len(h) /\ Start(s) + (i - Start(s)) = i
      BY <1>3, <1>4, <2>2
    <3>2. q[i] = h[i - Start(s)]
      BY <3>1
    <3> QED BY <1>4, <2>2, <3>1, <3>2
  <2> QED BY <2>1, <2>2
<1>6. Flagged(d)
  <2>1. \A i \in 1 .. Len(q) : i <= Start(s) <=> i = 1 /\ s.hasSystem
    BY <1>3
  <2>2. s.hasSystem => Len(q) > 0
    BY <1>3, <1>4
  <2> QED BY <1>1, <1>5, <2>1, <2>2 DEF Flagged
<1>7. Prompted(s) => Prompted(d)
  <2>1. s.hasSystem => q[1] = s.messages[1]
    BY <1>3
  <2> QED BY <1>1, <2>1 DEF Prompted
<1>8. NonSystemMessages(d) = h
  BY <1>1, <1>2, <1>4, <1>6, HistoryIs
<1> QED BY <1>1, <1>2, <1>6, <1>7, <1>8 DEF HasHistory, d

-----------------------------------------------------------------------------
(* trim()                                                                  *)

LEMMA DropOldestFacts ==
  ASSUME NEW P, NEW M, NEW s \in Sessions(P, M), Flagged(s),
         NEW k \in 0 .. Len(NonSystemMessages(s))
  PROVE  LET d == DropOldest(s, k)
         IN  /\ HasHistory(P, M, s, d, Without(NonSystemMessages(s), k))
             /\ k = 0 => d = s
<1> DEFINE q == s.messages
           h == NonSystemMessages(s)
           a == SubSeq(q, 1, Start(s))
           b == SubSeq(q, Start(s) + k + 1, Len(q))
           d == DropOldest(s, k)
<1>1. /\ q \in Seq(M) /\ Len(q) \in Nat
      /\ Start(s) \in {0, 1} /\ Start(s) <= Len(q)
      /\ \A i \in 1 .. Len(q) : q[i] \in M
  BY SessionFacts
<1>2. /\ h \in Histories(M) /\ h \in Seq(M) /\ Len(h) \in Nat
      /\ Len(q) = Start(s) + Len(h)
      /\ \A i \in 1 .. Len(h) : h[i] = q[Start(s) + i]
  BY HistoryFacts
<1>3. d = [s EXCEPT !.messages = a \o b]
  BY DEF DropOldest
<1>4. s = [s EXCEPT !.messages = q]
  BY DEF Sessions
<1>5. k \in 0 .. Len(h)
  OBVIOUS
<1> HIDE DEF q, h
<1>6. a \in Seq(M) /\ Len(a) = Start(s) /\ \A i \in 1 .. Start(s) : a[i] = q[i]
  <2>1. \A i \in 1 .. Start(s) : q[i] \in M
    BY <1>1
  <2>2. /\ a \in Seq(M)
        /\ Len(a) = IF 1 <= Start(s) THEN Start(s) - 1 + 1 ELSE 0
        /\ \A i \in 1 .. Start(s) - 1 + 1 : a[i] = q[1 + i - 1]
    BY <1>1, <2>1, SubSeqProperties
  <2> HIDE DEF a
  <2> QED BY <1>1, <2>2
<1>7. /\ b \in Seq(M) /\ Len(b) = Len(h) - k
      /\ \A i \in 1 .. Len(h) - k : b[i] = q[Start(s) + (k + i)]
  <2> DEFINE m == Start(s) + k + 1
  <2>1. m \in Int /\ Len(q) \in Int /\ \A i \in m .. Len(q) : q[i] \in M
    BY <1>1, <1>5
  <2>2. /\ b \in Seq(M)
        /\ Len(b) = IF m <= Len(q) THEN Len(q) - m + 1 ELSE 0
        /\ \A i \in 1 .. Len(q) - m + 1 : b[i] = q[m + i - 1]
    BY <2>1, SubSeqProperties
  <2> HIDE DEF b
  <2>3. Len(b) = Len(h) - k
    BY <1>1, <1>2, <1>5, <2>2
  <2>4. ASSUME NEW i \in 1 .. Len(h) - k
        PROVE  b[i] = q[Start(s) + (k + i)]
    <3>1. i \in 1 .. Len(q) - m + 1 /\ m + i - 1 = Start(s) + (k + i)
      BY <1>1, <1>2, <1>5
    <3> QED BY <2>2, <3>1
  <2> QED BY <2>2, <2>3, <2>4
<1> HIDE DEF a, b, d
<1> DEFINE w == Without(h, k)
<1>8. /\ w \in Seq(M) /\ Len(w) = Len(h) - k
      /\ \A i \in 1 .. Len(h) - k : w[i] = h[k + i]
  BY <1>2, <1>5, WithoutFacts
<1> HIDE DEF w
<1>9. /\ a \o b \in Seq(M)
      /\ Len(a \o b) = Len(a) + Len(b)
      /\ \A i \in 1 .. Len(a) + Len(b) :
            (a \o b)[i] = IF i <= Len(a) THEN a[i] ELSE b[i - Len(a)]
  BY <1>6, <1>7, ConcatProperties
<1>10. w \in Histories(M)
  <2>1. \A i \in 1 .. Len(w) : k + i \in 1 .. Len(h) /\ w[i] = h[k + i]
    BY <1>2, <1>5, <1>8
  <2> QED BY <1>2, <1>8, <2>1 DEF Histories
<1>11. \A i \in 1 .. Start(s) : (a \o b)[i] = q[i]
  <2>1. \A i \in 1 .. Start(s) : i \in 1 .. Len(a) + Len(b) /\ i <= Len(a)
    BY <1>1, <1>2, <1>5, <1>6, <1>7
  <2> QED BY <1>6, <1>9, <2>1
<1>12. /\ Start(s) \in {0, 1} /\ Len(h) \in Nat /\ k \in 0 .. Len(h)
       /\ Len(a) = Start(s) /\ Len(b) = Len(h) - k /\ Len(w) = Len(h) - k
  BY <1>1, <1>2, <1>5, <1>6, <1>7, <1>8
<1>13. ASSUME NEW i \in 1 .. Len(w)
       PROVE  (a \o b)[Start(s) + i] = w[i]
  <2>1. /\ Start(s) + i \in 1 .. Len(a) + Len(b) /\ ~ (Start(s) + i <= Len(a))
        /\ (Start(s) + i) - Len(a) = i
        /\ i \in 1 .. Len(h) - k /\ k + i \in 1 .. Len(h)
    BY <1>12
  <2>2. (a \o b)[Start(s) + i] = b[i]
    BY <1>9, <2>1
  <2>3. b[i] = h[k + i]
    BY <1>2, <1>7, <2>1
  <2> QED BY <1>8, <2>1, <2>2, <2>3
<1>14. Len(a \o b) = Start(s) + Len(w)
  BY <1>6, <1>7, <1>8, <1>9
<1>15. HasHistory(P, M, s, d, w)
  <2> DEFINE c == a \o b
  <2>1. /\ c \in Seq(M) /\ Len(c) = Start(s) + Len(w)
        /\ \A i \in 1 .. Start(s) : c[i] = s.messages[i]
        /\ \A i \in 1 .. Len(w) : c[Start(s) + i] = w[i]
    BY <1>9, <1>11, <1>13, <1>14 DEF q
  <2>2. d = [s EXCEPT !.messages = c]
    BY <1>3
  <2> HIDE DEF c
  <2> QED BY <1>10, <2>1, <2>2, Exchanged
<1>16. k = 0 => a \o b = q
  <2> SUFFICES ASSUME k = 0 PROVE a \o b = q
    OBVIOUS
  <2>1. Len(a \o b) = Len(q)
    BY <1>2, <1>8, <1>14
  <2>2. ASSUME NEW i \in 1 .. Len(q), ~ (i <= Start(s))
        PROVE  (a \o b)[i] = q[i]
    <3>1. i - Start(s) \in 1 .. Len(w) /\ Start(s) + (i - Start(s)) = i
          /\ k + (i - Start(s)) = i - Start(s) /\ i - Start(s) \in 1 .. Len(h)
      BY <1>1, <1>2, <1>8, <2>2
    <3>2. (a \o b)[i] = w[i - Start(s)]
      BY <1>13, <3>1
    <3>3. w[i - Start(s)] = h[i - Start(s)]
      BY <1>8, <3>1
    <3>4. h[i - Start(s)] = q[i]
      BY <1>2, <3>1
    <3> QED BY <3>2, <3>3, <3>4
  <2>3. ASSUME NEW i \in 1 .. Len(q)
        PROVE  (a \o b)[i] = q[i]
    <3>1. i <= Start(s) => i \in 1 .. Start(s)
      BY <1>1
    <3> QED BY <1>11, <2>2, <3>1
  <2> QED BY <1>1, <1>9, <2>1, <2>3, SeqEqual
<1> QED BY <1>3, <1>4, <1>15, <1>16 DEF d, w, h

(* trim() stops within the limits, having dropped the oldest messages of   *)
(* the history, none if it was within the limits already.                  *)
LEMMA TrimFacts ==
  ASSUME NEW P, NEW M, NEW s \in Sessions(P, M), Flagged(s)
  PROVE  /\ TrimmedTo(P, M, s, Trim(s), NonSystemMessages(s))
         /\ WithinLimits(s) => Trim(s) = s
         /\ Len(Trim(s).messages) = Len(s.messages) => Trim(s) = s
<1> DEFINE h == NonSystemMessages(s)
           enough == {k \in 0 .. Len(s.messages) : WithinLimits(DropOldest(s, k))}
           k == Min(enough)
<1>1. /\ Len(h) \in Nat /\ h \in Seq(M)
      /\ Start(s) \in {0, 1} /\ Len(s.messages) = Start(s) + Len(h)
  BY HistoryFacts, SessionFacts
<1>2. ASSUME NEW j \in 0 .. Len(h)
      PROVE  /\ HasHistory(P, M, s, DropOldest(s, j), Without(h, j))
             /\ j = 0 => DropOldest(s, j) = s
             /\ Len(DropOldest(s, j).messages) = Start(s) + (Len(h) - j)
  <2> DEFINE d == DropOldest(s, j)
  <2>1. /\ HasHistory(P, M, s, d, Without(h, j))
        /\ j = 0 => d = s
    BY DropOldestFacts
  <2> HIDE DEF d, h
  <2>2. Len(d.messages) = Start(d) + Len(Without(h, j)) /\ Start(d) = Start(s)
    BY <2>1, HistoryFacts DEF HasHistory
  <2>3. Len(Without(h, j)) = Len(h) - j
    BY <1>1, WithoutFacts
  <2> QED BY <2>1, <2>2, <2>3 DEF d
<1> HIDE DEF h
<1>3. Len(h) \in enough
  <2> DEFINE n == Len(h)
  <2>0. n \in 0 .. Len(h) /\ Start(s) + (Len(h) - n) = Start(s)
    BY <1>1
  <2> HIDE DEF n
  <2>5. Len(DropOldest(s, n).messages) = Start(s)
    BY <1>2, <2>0
  <2>1. Len(DropOldest(s, Len(h)).messages) = Start(s)
    BY <2>5 DEF n
  <2>2. /\ DropOldest(s, Len(h)).opts = s.opts
        /\ Start(DropOldest(s, Len(h))) = Start(s)
    BY <1>1, <1>2 DEF HasHistory
  <2>3. s.opts.maxMessages \in Nat
    BY DEF Sessions, Limits
  <2>4. WithinLimits(DropOldest(s, Len(h)))
    BY <1>1, <2>1, <2>2, <2>3 DEF WithinLimits
  <2> QED BY <1>1, <2>4
<1>4. k \in enough /\ \A j \in enough : k <= j
  <2>1. enough \subseteq Nat
    BY <1>1
  <2> HIDE DEF enough
  <2> QED BY <1>3, <2>1, MinFacts
<1>5. Trim(s) = DropOldest(s, k)
  BY DEF Trim
<1> HIDE DEF k
<1>6. k \in 0 .. Len(h)
  BY <1>1, <1>3, <1>4
<1>7. TrimmedTo(P, M, s, Trim(s), h)
  BY <1>2, <1>4, <1>5, <1>6 DEF TrimmedTo
<1>8. WithinLimits(s) => Trim(s) = s
  <2>1. 0 \in 0 .. Len(h) /\ 0 \in 0 .. Len(s.messages)
    BY <1>1
  <2>2. DropOldest(s, 0) = s
    BY <1>2, <2>1
  <2>3. WithinLimits(s) => k <= 0
    BY <1>4, <2>1, <2>2
  <2>4. WithinLimits(s) => k = 0
    BY <1>6, <2>3
  <2> QED BY <1>5, <2>2, <2>4
<1>9. Len(Trim(s).messages) = Len(s.messages) => Trim(s) = s
  BY <1>1, <1>2, <1>5, <1>6
<1> QED BY <1>7, <1>8, <1>9 DEF h

-----------------------------------------------------------------------------
(* Appending, rolling back, restoring                                      *)

(* More messages at the end *)
LEMMA Extended ==
  ASSUME NEW P, NEW M, NEW s \in Sessions(P, M), Flagged(s), NEW more \in Histories(M)
  PROVE  HasHistory(P, M, s, [s EXCEPT !.messages = @ \o more],
                    NonSystemMessages(s) \o more)
<1> DEFINE q == s.messages
           h == NonSystemMessages(s)
           long == q \o more
           all == h \o more
<1>1. /\ q \in Seq(M) /\ Len(q) \in Nat /\ Start(s) \in {0, 1} /\ Start(s) <= Len(q)
      /\ h \in Seq(M) /\ Len(h) \in Nat /\ Len(q) = Start(s) + Len(h)
      /\ \A i \in 1 .. Len(h) : h[i] = q[Start(s) + i]
      /\ \A i \in 1 .. Len(h) : h[i].role # "system"
  BY SessionFacts, HistoryFacts DEF Histories
<1>2. /\ more \in Seq(M) /\ Len(more) \in Nat
      /\ \A i \in 1 .. Len(more) : more[i].role # "system"
  BY LenProperties DEF Histories
<1>3. [s EXCEPT !.messages = @ \o more] = [s EXCEPT !.messages = long]
  BY DEF Sessions
<1> HIDE DEF q, h
<1>4. /\ long \in Seq(M) /\ Len(long) = Len(q) + Len(more)
      /\ \A i \in 1 .. Len(q) + Len(more) :
            long[i] = IF i <= Len(q) THEN q[i] ELSE more[i - Len(q)]
  <2>1. q \in Seq(M) /\ more \in Seq(M)
    BY <1>1, <1>2
  <2> HIDE DEF all
  <2> QED BY <2>1, ConcatProperties
<1>5. /\ all \in Seq(M) /\ Len(all) = Len(h) + Len(more)
      /\ \A i \in 1 .. Len(h) + Len(more) :
            all[i] = IF i <= Len(h) THEN h[i] ELSE more[i - Len(h)]
  <2>1. h \in Seq(M) /\ more \in Seq(M)
    BY <1>1, <1>2
  <2> HIDE DEF long
  <2> QED BY <2>1, ConcatProperties
<1> HIDE DEF long, all
<1>6. /\ Len(q) \in Nat /\ Len(h) \in Nat /\ Len(more) \in Nat /\ Start(s) \in {0, 1}
      /\ Len(q) = Start(s) + Len(h)
      /\ Len(long) = Len(q) + Len(more) /\ Len(all) = Len(h) + Len(more)
  BY <1>1, <1>2, <1>4, <1>5
<1>7. ASSUME NEW i \in 1 .. Len(all)
      PROVE  all[i].role # "system" /\ long[Start(s) + i] = all[i]
  <2>1. /\ i \in 1 .. Len(h) + Len(more)
        /\ Start(s) + i \in 1 .. Len(q) + Len(more)
        /\ Start(s) + i <= Len(q) <=> i <= Len(h)
    BY <1>6
  <2>2. CASE i <= Len(h)
    <3>1. i \in 1 .. Len(h)
      BY <1>6, <2>2
    <3>2. all[i] = h[i] /\ long[Start(s) + i] = q[Start(s) + i]
      BY <1>4, <1>5, <2>1, <2>2
    <3> QED BY <1>1, <3>1, <3>2
  <2>3. CASE ~ (i <= Len(h))
    <3>1. i - Len(h) \in 1 .. Len(more) /\ (Start(s) + i) - Len(q) = i - Len(h)
      BY <1>6, <2>3
    <3>2. all[i] = more[i - Len(h)] /\ long[Start(s) + i] = more[(Start(s) + i) - Len(q)]
      BY <1>4, <1>5, <2>1, <2>3
    <3> QED BY <1>2, <3>1, <3>2
  <2> QED BY <2>2, <2>3
<1>8. all \in Histories(M)
  BY <1>5, <1>7 DEF Histories
<1>9. ASSUME NEW i \in 1 .. Start(s)
      PROVE  long[i] = s.messages[i]
  <2>1. i \in 1 .. Len(q) + Len(more) /\ i <= Len(q)
    BY <1>6
  <2> QED BY <1>4, <2>1 DEF q
<1>10. Len(long) = Start(s) + Len(all)
  BY <1>6
<1>11. HasHistory(P, M, s, [s EXCEPT !.messages = long], all)
  BY <1>4, <1>7, <1>8, <1>9, <1>10, Exchanged
<1> QED BY <1>3, <1>11 DEF all, h

LEMMA TrimExtended ==
  ASSUME NEW P, NEW M, NEW s \in Sessions(P, M), NEW d, NEW h, HasHistory(P, M, s, d, h)
  PROVE  TrimmedTo(P, M, s, Trim(d), h)
<1>1. TrimmedTo(P, M, d, Trim(d), h)
  BY TrimFacts DEF HasHistory
<1> QED BY <1>1 DEF TrimmedTo, HasHistory

(* appendUser and appendAssistant *)
LEMMA AppendMessageFacts ==
  ASSUME NEW P, NEW M, NEW s \in Sessions(P, M), Flagged(s),
         NEW m \in M, m.role # "system"
  PROVE  LET longer == [s EXCEPT !.messages = Append(@, m)]
         IN  /\ HasHistory(P, M, s, longer, Append(NonSystemMessages(s), m))
             /\ AppendMessage(s, m) = Trim(longer)
             /\ TrimmedTo(P, M, s, AppendMessage(s, m), Append(NonSystemMessages(s), m))
<1> DEFINE longer == [s EXCEPT !.messages = Append(@, m)]
           h == NonSystemMessages(s)
<1>1. s.messages \in Seq(M) /\ h \in Seq(M)
  BY SessionFacts, HistoryFacts
<1>2. Append(s.messages, m) = s.messages \o <<m>> /\ Append(h, m) = h \o <<m>>
  BY <1>1, AppendIsConcat
<1>3. <<m>> \in Histories(M)
  BY DEF Histories
<1>4. longer = [s EXCEPT !.messages = @ \o <<m>>]
  BY <1>2 DEF Sessions
<1> HIDE DEF longer, h
<1>5. HasHistory(P, M, s, longer, Append(h, m))
  BY <1>2, <1>3, <1>4, Extended DEF h
<1>6. AppendMessage(s, m) = Trim(longer)
  BY DEF AppendMessage, longer
<1> QED BY <1>5, <1>6, TrimExtended DEF longer, h

(* The messages of n tool results *)
Results(n, size) == [i \in 1 .. n |-> Message("tool", NoText, 0, size)]

LEMMA AppendToolResultsFacts ==
  ASSUME NEW P, NEW M, NEW s \in Sessions(P, M), Flagged(s),
         NEW n \in Nat, NEW size, Message("tool", NoText, 0, size) \in M
  PROVE  /\ Results(n, size) \in Seq(M) /\ Len(Results(n, size)) = n
         /\ TrimmedTo(P, M, s, AppendToolResults(s, n, size),
                      NonSystemMessages(s) \o Results(n, size))
<1> DEFINE r == Results(n, size)
           longer == [s EXCEPT !.messages = @ \o r]
<1>1. r \in [1 .. n -> M] /\ \A i \in 1 .. n : r[i].role # "system"
  BY DEF Results, Message
<1>2. r \in Seq(M)
  BY <1>1, SeqDef
<1>3. Len(r) \in Nat /\ 1 .. Len(r) = 1 .. n
  BY <1>1, <1>2, LenProperties
<1>4. Len(r) = n
  BY <1>3
<1>5. r \in Histories(M)
  BY <1>1, <1>2, <1>4 DEF Histories
<1>6. AppendToolResults(s, n, size) = Trim(longer)
  BY DEF AppendToolResults, Results
<1> HIDE DEF r
<1>7. HasHistory(P, M, s, longer, NonSystemMessages(s) \o r)
  BY <1>5, Extended
<1> HIDE DEF longer
<1>8. TrimmedTo(P, M, s, Trim(longer), NonSystemMessages(s) \o r)
  BY <1>7, TrimExtended
<1> QED BY <1>2, <1>4, <1>6, <1>8 DEF r

(* rollbackLastUser *)
LEMMA RollbackLastUserFacts ==
  ASSUME NEW P, NEW M, NEW s \in Sessions(P, M), Flagged(s)
  PROVE  LET h == NonSystemMessages(s)
         IN  HasHistory(P, M, s, RollbackLastUser(s),
                        IF Len(h) > 0 /\ h[Len(h)].role = "user"
                        THEN SubSeq(h, 1, Len(h) - 1) ELSE h)
<1> DEFINE q == s.messages
           h == NonSystemMessages(s)
           d == RollbackLastUser(s)
<1>1. /\ q \in Seq(M) /\ Len(q) \in Nat /\ Start(s) \in {0, 1} /\ Start(s) <= Len(q)
      /\ \A i \in 1 .. Len(q) : q[i] \in M /\ (q[i].role = "system" <=> i <= Start(s))
      /\ h \in Seq(M) /\ h \in Histories(M) /\ Len(h) \in Nat /\ Len(q) = Start(s) + Len(h)
      /\ \A i \in 1 .. Len(h) : h[i] = q[Start(s) + i]
  BY SessionFacts, HistoryFacts
<1>2. s = [s EXCEPT !.messages = q]
  BY DEF Sessions
<1>3. q # << >> <=> Len(q) > 0
  BY <1>1, EmptySeq
<1>4. d = IF q # << >> /\ Last(q).role = "user"
          THEN [s EXCEPT !.messages = SubSeq(q, 1, Len(q) - 1)] ELSE s
  BY DEF RollbackLastUser, Front, Sessions
<1> HIDE DEF q, h, d
<1>5. q # << >> /\ Last(q).role = "user" <=> Len(h) > 0 /\ h[Len(h)].role = "user"
  <2>1. ASSUME q # << >>, Last(q).role = "user"
        PROVE  Len(h) > 0 /\ h[Len(h)].role = "user"
    <3>1. Len(q) \in 1 .. Len(q) /\ q[Len(q)].role = "user"
      BY <1>1, <1>3, <2>1 DEF Last
    <3>2. ~ (Len(q) <= Start(s))
      BY <1>1, <3>1
    <3>3. Len(h) \in 1 .. Len(h) /\ Start(s) + Len(h) = Len(q)
      BY <1>1, <3>2
    <3> QED BY <1>1, <3>1, <3>3
  <2>2. ASSUME Len(h) > 0, h[Len(h)].role = "user"
        PROVE  q # << >> /\ Last(q).role = "user"
    <3>1. Len(h) \in 1 .. Len(h) /\ Start(s) + Len(h) = Len(q) /\ Len(q) > 0
      BY <1>1, <2>2
    <3>2. h[Len(h)] = q[Len(q)]
      BY <1>1, <3>1
    <3> QED BY <1>3, <2>2, <3>1, <3>2 DEF Last
  <2> QED BY <2>1, <2>2
<1>6. CASE Len(h) > 0 /\ h[Len(h)].role = "user"
  <2> DEFINE a == SubSeq(q, 1, Len(q) - 1)
             b == SubSeq(h, 1, Len(h) - 1)
  <2>1. a \in Seq(M) /\ Len(a) = Len(q) - 1 /\ \A i \in 1 .. Len(q) - 1 : a[i] = q[i]
    <3>1. \A i \in 1 .. Len(q) - 1 : q[i] \in M
      BY <1>1
    <3>2. /\ a \in Seq(M)
          /\ Len(a) = IF 1 <= Len(q) - 1 THEN (Len(q) - 1) - 1 + 1 ELSE 0
          /\ \A i \in 1 .. (Len(q) - 1) - 1 + 1 : a[i] = q[1 + i - 1]
      BY <1>1, <3>1, SubSeqProperties
    <3> HIDE DEF a
    <3>3. Len(a) = Len(q) - 1
      BY <1>1, <1>6, <3>2
    <3>4. ASSUME NEW i \in 1 .. Len(q) - 1
          PROVE  a[i] = q[i]
      <4>1. i \in 1 .. (Len(q) - 1) - 1 + 1 /\ 1 + i - 1 = i
        BY <1>1
      <4> QED BY <3>2, <4>1
    <3> QED BY <3>2, <3>3, <3>4
  <2>2. b \in Seq(M) /\ Len(b) = Len(h) - 1 /\ \A i \in 1 .. Len(h) - 1 : b[i] = h[i]
    <3>1. \A i \in 1 .. Len(h) - 1 : h[i] \in M
      BY <1>1, ElementOfSeq
    <3>2. /\ b \in Seq(M)
          /\ Len(b) = IF 1 <= Len(h) - 1 THEN (Len(h) - 1) - 1 + 1 ELSE 0
          /\ \A i \in 1 .. (Len(h) - 1) - 1 + 1 : b[i] = h[1 + i - 1]
      BY <1>1, <3>1, SubSeqProperties
    <3> HIDE DEF b
    <3>5. Len(h) \in Nat /\ Len(h) > 0
      BY <1>1, <1>6
    <3>6. Len(b) = IF 1 <= Len(h) - 1 THEN (Len(h) - 1) - 1 + 1 ELSE 0
      BY <3>2
    <3>3. Len(b) = Len(h) - 1
      <4> DEFINE n == Len(h)
      <4>1. n \in Nat /\ n > 0 /\ Len(b) = IF 1 <= n - 1 THEN (n - 1) - 1 + 1 ELSE 0
        BY <3>5, <3>6
      <4> HIDE DEF n
      <4>2. Len(b) = n - 1
        BY <4>1
      <4> QED BY <4>2 DEF n
    <3>4. ASSUME NEW i \in 1 .. Len(h) - 1
          PROVE  b[i] = h[i]
      <4>1. i \in 1 .. (Len(h) - 1) - 1 + 1 /\ 1 + i - 1 = i
        BY <1>1
      <4> QED BY <3>2, <4>1
    <3> QED BY <3>2, <3>3, <3>4
  <2> HIDE DEF a, b
  <2>3. b \in Histories(M)
    <3>1. \A i \in 1 .. Len(b) : i \in 1 .. Len(h) /\ b[i] = h[i]
      BY <1>1, <1>6, <2>2
    <3> QED BY <1>1, <2>2, <3>1 DEF Histories
  <2>4. Len(a) = Start(s) + Len(b)
    BY <1>1, <2>1, <2>2
  <2>5. \A i \in 1 .. Start(s) : a[i] = s.messages[i]
    <3>1. \A i \in 1 .. Start(s) : i \in 1 .. Len(q) - 1
      BY <1>1, <1>6
    <3> QED BY <2>1, <3>1 DEF q
  <2>6. \A i \in 1 .. Len(b) : a[Start(s) + i] = b[i]
    <3>1. \A i \in 1 .. Len(b) : /\ Start(s) + i \in 1 .. Len(q) - 1
                                 /\ i \in 1 .. Len(h) - 1 /\ i \in 1 .. Len(h)
      BY <1>1, <1>6, <2>2
    <3>2. ASSUME NEW i \in 1 .. Len(b)
          PROVE  a[Start(s) + i] = b[i]
      <4>1. a[Start(s) + i] = q[Start(s) + i]
        BY <2>1, <3>1
      <4>2. b[i] = h[i] /\ h[i] = q[Start(s) + i]
        BY <1>1, <2>2, <3>1
      <4> QED BY <4>1, <4>2
    <3> QED BY <3>2
  <2>7. HasHistory(P, M, s, [s EXCEPT !.messages = a], b)
    BY <2>1, <2>3, <2>4, <2>5, <2>6, Exchanged
  <2> QED BY <1>4, <1>5, <1>6, <2>7 DEF a, b, h, d
<1>7. CASE ~ (Len(h) > 0 /\ h[Len(h)].role = "user")
  <2>1. HasHistory(P, M, s, s, h)
    BY DEF HasHistory, h
  <2> QED BY <1>4, <1>5, <1>7, <2>1 DEF h, d
<1> QED BY <1>6, <1>7

(* restoreMessages *)
LEMMA RestoreMessagesFacts ==
  ASSUME NEW P, NEW M, NEW s \in Sessions(P, M), Flagged(s), NEW h \in Histories(M)
  PROVE  LET full == [s EXCEPT !.messages = SubSeq(@, 1, Start(s)) \o h]
         IN  /\ HasHistory(P, M, s, full, h)
             /\ RestoreMessages(s, h) = Trim(full)
             /\ TrimmedTo(P, M, s, RestoreMessages(s, h), h)
<1> DEFINE q == s.messages
           a == SubSeq(q, 1, Start(s))
           full == [s EXCEPT !.messages = SubSeq(@, 1, Start(s)) \o h]
           all == a \o h
<1>1. /\ q \in Seq(M) /\ Len(q) \in Nat /\ Start(s) \in {0, 1} /\ Start(s) <= Len(q)
      /\ \A i \in 1 .. Len(q) : q[i] \in M
      /\ h \in Seq(M) /\ Len(h) \in Nat
  BY SessionFacts, LenProperties DEF Histories
<1>2. full = [s EXCEPT !.messages = all]
  BY DEF Sessions
<1>3. a \in Seq(M) /\ Len(a) = Start(s) /\ \A i \in 1 .. Start(s) : a[i] = s.messages[i]
  <2>1. \A i \in 1 .. Start(s) : q[i] \in M
    BY <1>1
  <2>2. /\ a \in Seq(M)
        /\ Len(a) = IF 1 <= Start(s) THEN Start(s) - 1 + 1 ELSE 0
        /\ \A i \in 1 .. Start(s) - 1 + 1 : a[i] = q[1 + i - 1]
    BY <1>1, <2>1, SubSeqProperties
  <2> HIDE DEF a
  <2> QED BY <1>1, <2>2
<1> HIDE DEF a
<1>4. /\ all \in Seq(M) /\ Len(all) = Start(s) + Len(h)
      /\ \A i \in 1 .. Start(s) + Len(h) :
            all[i] = IF i <= Start(s) THEN a[i] ELSE h[i - Start(s)]
  BY <1>1, <1>3, ConcatProperties
<1> HIDE DEF all
<1>5. \A i \in 1 .. Start(s) : all[i] = s.messages[i]
  <2>1. \A i \in 1 .. Start(s) : i \in 1 .. Start(s) + Len(h) /\ i <= Start(s)
    BY <1>1
  <2> QED BY <1>3, <1>4, <2>1
<1>6. ASSUME NEW i \in 1 .. Len(h)
      PROVE  all[Start(s) + i] = h[i]
  <2>1. /\ Start(s) + i \in 1 .. Start(s) + Len(h) /\ ~ (Start(s) + i <= Start(s))
        /\ (Start(s) + i) - Start(s) = i
    BY <1>1
  <2> QED BY <1>4, <2>1
<1>7. HasHistory(P, M, s, full, h)
  BY <1>2, <1>4, <1>5, <1>6, Exchanged
<1>8. RestoreMessages(s, h) = Trim(full)
  BY DEF RestoreMessages
<1> HIDE DEF full
<1>9. TrimmedTo(P, M, s, Trim(full), h)
  BY <1>7, TrimExtended
<1> QED BY <1>7, <1>8, <1>9 DEF full

(* setOptions: the limits change, and the history is trimmed to them. *)
LEMMA SetOptionsFacts ==
  ASSUME NEW P, NEW M, NEW s \in Sessions(P, M), Flagged(s), NEW opts \in Limits
  PROVE  LET b == [s EXCEPT !.opts = opts]
         IN  /\ b \in Sessions(P, M) /\ Flagged(b)
             /\ Prompted(s) => Prompted(b)
             /\ b.prompt = s.prompt /\ b.opts = opts
             /\ TrimmedTo(P, M, b, SetOptions(s, opts), NonSystemMessages(s))
<1> DEFINE b == [s EXCEPT !.opts = opts]
<1>1. /\ b \in Sessions(P, M) /\ b.messages = s.messages /\ b.hasSystem = s.hasSystem
      /\ b.prompt = s.prompt /\ b.opts = opts
  BY DEF Sessions
<1>2. SetOptions(s, opts) = Trim(b)
  BY DEF SetOptions
<1> HIDE DEF b
<1>3. Flagged(b) /\ (Prompted(s) => Prompted(b)) /\ NonSystemMessages(b) = NonSystemMessages(s)
  BY <1>1 DEF Flagged, Prompted, NonSystemMessages
<1>4. TrimmedTo(P, M, b, Trim(b), NonSystemMessages(s))
  BY <1>1, <1>3, TrimFacts
<1> QED BY <1>1, <1>2, <1>3, <1>4 DEF b

-----------------------------------------------------------------------------
(* The system prompt                                                       *)

(* rebuildSystemMessage: whatever the flag and the prompt were, afterwards *)
(* the prompt is in front if there is one, and the history is untouched.   *)
LEMMA RebuildFacts ==
  ASSUME NEW P, NEW M, NEW s \in Sessions(P, M), Flagged(s),
         s.prompt # NoPrompt => Message("system", s.prompt, 0, PromptSize[s.prompt]) \in M
  PROVE  LET d == RebuildSystemMessage(s)
         IN  /\ d \in Sessions(P, M) /\ Flagged(d) /\ Prompted(d)
             /\ d.prompt = s.prompt /\ d.opts = s.opts
             /\ NonSystemMessages(d) = NonSystemMessages(s)
<1> DEFINE q == s.messages
           h == NonSystemMessages(s)
           msg == Message("system", s.prompt, 0, PromptSize[s.prompt])
           d == RebuildSystemMessage(s)
           Right(e) == /\ e \in Sessions(P, M) /\ Flagged(e) /\ Prompted(e)
                       /\ e.prompt = s.prompt /\ e.opts = s.opts
                       /\ NonSystemMessages(e) = h
           In(m, b) == [s EXCEPT !.messages = m, !.hasSystem = b]
<1>1. /\ q \in Seq(M) /\ Len(q) \in Nat /\ Start(s) \in {0, 1} /\ Start(s) <= Len(q)
      /\ s.hasSystem <=> Start(s) = 1
      /\ \A i \in 1 .. Len(q) : q[i] \in M /\ (q[i].role = "system" <=> i <= Start(s))
      /\ h \in Seq(M) /\ h \in Histories(M) /\ Len(h) \in Nat /\ Len(q) = Start(s) + Len(h)
      /\ \A i \in 1 .. Len(h) : h[i] = q[Start(s) + i]
      /\ \A i \in 1 .. Len(h) : h[i].role # "system"
  BY SessionFacts, HistoryFacts DEF Histories
<1>2. FrontIsSystem(s) <=> s.hasSystem
  <2>1. q # << >> => Head(q) = q[1] /\ Len(q) > 0
    BY <1>1, EmptySeq
  <2>2. q = << >> => Len(q) = 0
    BY EmptySeq
  <2> QED BY <1>1, <2>1, <2>2 DEF FrontIsSystem
<1>3. msg.role = "system" /\ msg.text = s.prompt
  BY DEF Message
<1>4. d = IF s.prompt = NoPrompt
          THEN IF s.hasSystem THEN In(Tail(q), FALSE) ELSE s
          ELSE IF s.hasSystem THEN In([q EXCEPT ![1] = msg], TRUE) ELSE In(<<msg>> \o q, TRUE)
  BY <1>2 DEF RebuildSystemMessage, Sessions
<1>5. ASSUME NEW m \in Seq(M), NEW b \in BOOLEAN,
             Len(m) = (IF b THEN 1 ELSE 0) + Len(h),
             b => m[1].role = "system" /\ m[1].text = s.prompt,
             b <=> s.prompt # NoPrompt,
             \A i \in 1 .. Len(h) : m[(IF b THEN 1 ELSE 0) + i] = h[i]
      PROVE  Right(In(m, b))
  <2> DEFINE e == In(m, b)
  <2>1. /\ e \in Sessions(P, M) /\ e.messages = m /\ e.hasSystem = b
        /\ e.prompt = s.prompt /\ e.opts = s.opts
    BY DEF Sessions
  <2> HIDE DEF e, q, h, d, msg
  <2>2. Start(e) = IF b THEN 1 ELSE 0
    BY <2>1 DEF Start
  <2>3. ASSUME NEW i \in 1 .. Len(m)
        PROVE  m[i].role = "system" <=> i = 1 /\ b
    <3>1. CASE b /\ i = 1
      BY <1>5, <3>1
    <3>2. CASE b /\ i # 1
      <4>1. i - 1 \in 1 .. Len(h) /\ 1 + (i - 1) = i
        BY <1>1, <1>5, <3>2
      <4>2. m[i] = h[i - 1]
        BY <1>5, <3>2, <4>1
      <4> QED BY <1>1, <3>2, <4>1, <4>2
    <3>3. CASE ~ b
      <4>1. i \in 1 .. Len(h) /\ 0 + i = i
        BY <1>1, <1>5, <3>3
      <4>2. m[i] = h[i]
        BY <1>5, <3>3, <4>1
      <4> QED BY <1>1, <3>3, <4>1, <4>2
    <3> QED BY <3>1, <3>2, <3>3
  <2>4. Flagged(e)
    <3>1. b => Len(m) > 0
      BY <1>1, <1>5
    <3> QED BY <2>1, <2>3, <3>1 DEF Flagged
  <2>5. Prompted(e)
    BY <1>5, <2>1 DEF Prompted
  <2>6. NonSystemMessages(e) = h
    BY <1>1, <1>5, <2>1, <2>2, <2>4, HistoryIs
  <2> QED BY <2>1, <2>4, <2>5, <2>6 DEF e
<1>6. CASE s.prompt = NoPrompt /\ s.hasSystem
  <2>1. q # << >>
    BY <1>1, <1>6, EmptySeq
  <2>2. /\ Tail(q) \in Seq(M) /\ Len(Tail(q)) = Len(q) - 1
        /\ \A i \in 1 .. Len(Tail(q)) : Tail(q)[i] = q[i + 1]
    BY <1>1, <2>1, HeadTailProperties
  <2> HIDE DEF q, h, Right, d
  <2>3. Len(Tail(q)) = 0 + Len(h)
    BY <1>1, <1>6, <2>2
  <2>4. ASSUME NEW i \in 1 .. Len(h)
        PROVE  Tail(q)[0 + i] = h[i]
    <3>1. i \in 1 .. Len(Tail(q)) /\ 0 + i = i /\ Start(s) + i = i + 1
      BY <1>1, <1>6, <2>3
    <3> QED BY <1>1, <2>2, <3>1
  <2>5. Right(In(Tail(q), FALSE))
    BY <1>5, <1>6, <2>2, <2>3, <2>4
  <2> QED BY <1>4, <1>6, <2>5 DEF Right, d, h
<1>7. CASE s.prompt = NoPrompt /\ ~ s.hasSystem
  BY <1>4, <1>7 DEF Prompted
<1>8. CASE s.prompt # NoPrompt /\ s.hasSystem
  <2> DEFINE m == [q EXCEPT ![1] = msg]
  <2>1. 1 \in 1 .. Len(q) /\ msg \in M
    BY <1>1, <1>8
  <2>2. /\ m \in Seq(M) /\ Len(m) = Len(q)
        /\ \A j \in 1 .. Len(q) : m[j] = IF j = 1 THEN msg ELSE q[j]
    BY <1>1, <2>1, ExceptSeq
  <2> HIDE DEF q, h, Right, d, msg, m
  <2>3. Len(m) = 1 + Len(h) /\ m[1] = msg
    BY <1>1, <1>8, <2>1, <2>2
  <2>4. ASSUME NEW i \in 1 .. Len(h)
        PROVE  m[1 + i] = h[i]
    <3>1. 1 + i \in 1 .. Len(q) /\ 1 + i # 1 /\ Start(s) + i = 1 + i
      BY <1>1, <1>8
    <3> QED BY <1>1, <2>2, <3>1
  <2>5. Right(In(m, TRUE))
    BY <1>3, <1>5, <1>8, <2>2, <2>3, <2>4
  <2> QED BY <1>4, <1>8, <2>5 DEF Right, d, h, m
<1>9. CASE s.prompt # NoPrompt /\ ~ s.hasSystem
  <2> DEFINE m == <<msg>> \o q
  <2>1. <<msg>> \in Seq(M) /\ Len(<<msg>>) = 1 /\ <<msg>>[1] = msg
    BY <1>9
  <2> HIDE DEF q, h, Right, d, msg
  <2>2. /\ m \in Seq(M) /\ Len(m) = 1 + Len(q)
        /\ \A i \in 1 .. 1 + Len(q) : m[i] = IF i <= 1 THEN <<msg>>[i] ELSE q[i - 1]
    BY <1>1, <2>1, ConcatProperties
  <2> HIDE DEF m
  <2>3. Len(m) = 1 + Len(h) /\ m[1] = msg
    BY <1>1, <1>9, <2>1, <2>2
  <2>4. ASSUME NEW i \in 1 .. Len(h)
        PROVE  m[1 + i] = h[i]
    <3>1. /\ 1 + i \in 1 .. 1 + Len(q) /\ ~ (1 + i <= 1) /\ (1 + i) - 1 = i
          /\ Start(s) + i = i
      BY <1>1, <1>9
    <3> QED BY <1>1, <2>2, <3>1
  <2>5. Right(In(m, TRUE))
    BY <1>3, <1>5, <1>9, <2>2, <2>3, <2>4
  <2> QED BY <1>4, <1>9, <2>5 DEF Right, d, h, m
<1> QED BY <1>6, <1>7, <1>8, <1>9

(* setSystemPrompt *)
LEMMA SetSystemPromptFacts ==
  ASSUME NEW P, NEW M, PromptMessages(P) \subseteq M,
         NEW s \in Sessions(P, M), Flagged(s), NEW prompt \in P
  PROVE  LET d == SetSystemPrompt(s, prompt)
         IN  /\ d \in Sessions(P, M) /\ Flagged(d) /\ Prompted(d)
             /\ d.prompt = prompt /\ d.opts = s.opts
             /\ NonSystemMessages(d) = NonSystemMessages(s)
<1> DEFINE b == [s EXCEPT !.prompt = prompt]
           d == SetSystemPrompt(s, prompt)
<1>1. /\ b \in Sessions(P, M) /\ b.messages = s.messages /\ b.hasSystem = s.hasSystem
      /\ b.prompt = prompt /\ b.opts = s.opts
  BY DEF Sessions
<1>2. d = RebuildSystemMessage(b)
  BY DEF SetSystemPrompt
<1> HIDE DEF b, d
<1>3. Flagged(b) /\ NonSystemMessages(b) = NonSystemMessages(s)
  BY <1>1 DEF Flagged, NonSystemMessages
<1>4. b.prompt # NoPrompt => Message("system", b.prompt, 0, PromptSize[b.prompt]) \in M
  BY <1>1 DEF PromptMessages
<1>5. /\ d \in Sessions(P, M) /\ Flagged(d) /\ Prompted(d)
      /\ d.prompt = b.prompt /\ d.opts = b.opts
      /\ NonSystemMessages(d) = NonSystemMessages(b)
  BY <1>1, <1>2, <1>3, <1>4, RebuildFacts
<1> QED BY <1>1, <1>3, <1>5 DEF d

(* clear *)
LEMMA ClearFacts ==
  ASSUME NEW P, NEW M, PromptMessages(P) \subseteq M, NEW s \in Sessions(P, M)
  PROVE  LET d == Clear(s)
         IN  /\ d \in Sessions(P, M) /\ Flagged(d) /\ Prompted(d)
             /\ d.prompt = s.prompt /\ d.opts = s.opts
             /\ NonSystemMessages(d) = << >>
<1> DEFINE b == [s EXCEPT !.messages = << >>, !.hasSystem = FALSE]
           d == Clear(s)
<1>1. /\ b \in Sessions(P, M) /\ b.messages = << >> /\ b.hasSystem = FALSE
      /\ b.prompt = s.prompt /\ b.opts = s.opts /\ s.prompt \in P
  <2>1. << >> \in Seq(M)
    BY EmptySeq
  <2> QED BY <2>1 DEF Sessions
<1>2. d = RebuildSystemMessage(b)
  BY DEF Clear
<1> HIDE DEF b, d
<1>3. Flagged(b) /\ NonSystemMessages(b) = << >>
  BY <1>1, EmptySeq DEF Flagged, NonSystemMessages
<1>4. b.prompt # NoPrompt => Message("system", b.prompt, 0, PromptSize[b.prompt]) \in M
  BY <1>1 DEF PromptMessages
<1>5. /\ d \in Sessions(P, M) /\ Flagged(d) /\ Prompted(d)
      /\ d.prompt = b.prompt /\ d.opts = b.opts
      /\ NonSystemMessages(d) = NonSystemMessages(b)
  BY <1>1, <1>2, <1>3, <1>4, RebuildFacts
<1> QED BY <1>1, <1>3, <1>5 DEF d

-----------------------------------------------------------------------------
(* session.json                                                            *)

LEMMA SnapshotFacts ==
  ASSUME NEW P, NEW M, NEW s \in Sessions(P, M), Flagged(s)
  PROVE  /\ Snapshot(s) \in Snapshots(P, M)
         /\ Snapshot(s).messages = NonSystemMessages(s)
<1>1. NonSystemMessages(s) \in Histories(M)
  BY HistoryFacts
<1>2. s.prompt \in P /\ s.opts \in Limits
  BY DEF Sessions
<1> QED BY <1>1, <1>2 DEF Snapshot, Snapshots

LEMMA SavedOptionsFacts ==
  ASSUME NEW opts \in Limits
  PROVE  SavedOptions(opts) \in Limits
BY DEF SavedOptions, DefaultOptions, Limits

(* applySessionSnapshot: prompt, limits and history are those of the file, *)
(* whatever the session was that it is loaded into; the oldest messages    *)
(* are missing only if the limits leave no room for all.                   *)
LEMMA ApplySnapshotFacts ==
  ASSUME NEW P, NEW M, PromptMessages(P) \subseteq M,
         NEW snap \in Snapshots(P, M), NEW s \in Sessions(P, M)
  PROVE  LET d == ApplySnapshot(snap, s)
         IN  /\ d \in Sessions(P, M) /\ Flagged(d) /\ Prompted(d)
             /\ d.prompt = snap.prompt /\ d.opts = SavedOptions(snap.opts)
             /\ WithinLimits(d)
             /\ \E k \in 0 .. Len(snap.messages) :
                   NonSystemMessages(d) = Without(snap.messages, k)
             /\ \/ NonSystemMessages(d) = snap.messages
                \/ ~ WithinLimits([d EXCEPT !.messages =
                                      SubSeq(@, 1, Start(d)) \o snap.messages])
<1> DEFINE opts == SavedOptions(snap.opts)
           h == snap.messages
           a == Clear(s)
           lim == [a EXCEPT !.opts = opts]
           b == SetOptions(a, opts)
           c == SetSystemPrompt(b, snap.prompt)
           full == [c EXCEPT !.messages = SubSeq(@, 1, Start(c)) \o h]
           d == RestoreMessages(c, h)
<1>1. snap.prompt \in P /\ snap.opts \in Limits /\ h \in Histories(M)
  BY DEF Snapshots
<1>2. opts \in Limits
  BY <1>1, SavedOptionsFacts
<1>3. ApplySnapshot(snap, s) = d
  BY DEF ApplySnapshot
<1>4. a \in Sessions(P, M) /\ Flagged(a)
  BY ClearFacts
<1> HIDE DEF a, opts
<1>5. b \in Sessions(P, M) /\ Flagged(b) /\ b.opts = opts
  <2>1. /\ lim.opts = opts
        /\ TrimmedTo(P, M, lim, SetOptions(a, opts), NonSystemMessages(a))
    BY <1>2, <1>4, SetOptionsFacts
  <2> HIDE DEF lim, b
  <2> QED BY <2>1 DEF TrimmedTo, HasHistory, b
<1> HIDE DEF b
<1>6. c \in Sessions(P, M) /\ Flagged(c) /\ Prompted(c) /\ c.opts = opts /\ c.prompt = snap.prompt
  BY <1>1, <1>5, SetSystemPromptFacts
<1> HIDE DEF c, h
<1>7. /\ HasHistory(P, M, c, full, h)
      /\ d = Trim(full)
      /\ TrimmedTo(P, M, c, d, h)
  BY <1>1, <1>6, RestoreMessagesFacts
<1>8. full.messages = SubSeq(c.messages, 1, Start(c)) \o h
  BY <1>6 DEF Sessions
<1>9. \A e \in Sessions(P, M) : \A q :
         e.prompt = c.prompt /\ e.opts = c.opts /\ e.hasSystem = c.hasSystem
           => [e EXCEPT !.messages = q] = [c EXCEPT !.messages = q]
  BY <1>6 DEF Sessions
<1> HIDE DEF full, d
<1>10. PICK k \in 0 .. Len(h) : HasHistory(P, M, c, d, Without(h, k)) /\ WithinLimits(d)
  BY <1>7 DEF TrimmedTo
<1>11. WithinLimits(full) => NonSystemMessages(d) = h
  <2>1. full \in Sessions(P, M) /\ Flagged(full) /\ NonSystemMessages(full) = h
    BY <1>7 DEF HasHistory
  <2>2. WithinLimits(full) => Trim(full) = full
    BY <2>1, TrimFacts
  <2> QED BY <1>7, <2>1, <2>2
<1>12. [d EXCEPT !.messages = SubSeq(@, 1, Start(d)) \o h] = full
  <2>1. /\ d \in Sessions(P, M) /\ Flagged(d)
        /\ d.prompt = c.prompt /\ d.opts = c.opts /\ d.hasSystem = c.hasSystem
        /\ Start(d) = Start(c)
        /\ \A i \in 1 .. Start(c) : d.messages[i] = c.messages[i]
    BY <1>10 DEF HasHistory
  <2>2. SubSeq(d.messages, 1, Start(c)) = SubSeq(c.messages, 1, Start(c))
    <3> DEFINE n == Start(c)
               x == SubSeq(d.messages, 1, n)
               y == SubSeq(c.messages, 1, n)
    <3>1. /\ n \in {0, 1}
          /\ \A i \in 1 .. n : d.messages[i] \in M /\ c.messages[i] \in M
      <4>1. n \in {0, 1} /\ n <= Len(c.messages) /\ Len(c.messages) \in Nat
            /\ \A i \in 1 .. Len(c.messages) : c.messages[i] \in M
        BY <1>6, SessionFacts
      <4> QED BY <2>1, <4>1
    <3>2. /\ x \in Seq(M) /\ y \in Seq(M)
          /\ Len(x) = (IF 1 <= n THEN n - 1 + 1 ELSE 0)
          /\ Len(y) = (IF 1 <= n THEN n - 1 + 1 ELSE 0)
          /\ \A i \in 1 .. n - 1 + 1 : x[i] = d.messages[1 + i - 1]
          /\ \A i \in 1 .. n - 1 + 1 : y[i] = c.messages[1 + i - 1]
      BY <3>1, SubSeqProperties
    <3> HIDE DEF x, y
    <3>3. Len(x) = n /\ Len(y) = n
      BY <3>1, <3>2
    <3>4. ASSUME NEW i \in 1 .. n
          PROVE  x[i] = y[i]
      <4>1. i \in 1 .. n - 1 + 1 /\ 1 + i - 1 = i
        BY <3>1
      <4> QED BY <2>1, <3>2, <4>1
    <3>5. x = y
      BY <3>2, <3>3, <3>4, SeqEqual
    <3> QED BY <3>5 DEF x, y
  <2>3. [d EXCEPT !.messages = SubSeq(@, 1, Start(d)) \o h]
          = [c EXCEPT !.messages = SubSeq(c.messages, 1, Start(c)) \o h]
    <3>1. [d EXCEPT !.messages = SubSeq(@, 1, Start(d)) \o h]
            = [d EXCEPT !.messages = SubSeq(d.messages, 1, Start(c)) \o h]
      BY <2>1 DEF Sessions
    <3> QED BY <1>9, <2>1, <2>2, <3>1
  <2> QED BY <1>6, <2>3 DEF full, Sessions
<1>13. /\ d \in Sessions(P, M) /\ Flagged(d) /\ Prompted(d)
       /\ d.prompt = snap.prompt /\ d.opts = opts
       /\ NonSystemMessages(d) = Without(h, k)
  BY <1>6, <1>10 DEF HasHistory
<1>14. \/ NonSystemMessages(d) = h
       \/ ~ WithinLimits([d EXCEPT !.messages = SubSeq(@, 1, Start(d)) \o h])
  BY <1>11, <1>12
<1> QED BY <1>3, <1>10, <1>13, <1>14 DEF h, opts
=============================================================================

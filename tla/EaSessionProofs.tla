-------------------------- MODULE EaSessionProofs --------------------------
(***************************************************************************)
(* Proofs about EaSession, for any prompts, limits and sizes of messages.  *)
(* Each step is one operation of SessionOps, so each step of the proof is  *)
(* a lemma of SessionOpsProofs.                                            *)
(***************************************************************************)
EXTENDS EaSession, SessionOpsProofs

(* The messages a session is ever given *)
Messages ==
  PromptMessages(Prompts) \cup
    {Message(role, NoText, 0, size) : role \in {"user", "assistant", "tool"}, size \in Sizes}

SessionOK(s) == s \in Sessions(Prompts, Messages) /\ Flagged(s) /\ Prompted(s)

Bounded(s) == Len(NonSystemMessages(s)) <= s.opts.maxMessages

Fits(s) == Bounded(s) /\ WithinLimits(s)

(* PromptInFront and HistoryBounded as they are kept, with what a file may *)
(* hold: a snapshot that held a system message would put a second one      *)
(* behind the prompt when it is loaded.                                    *)
SessionInv ==
  /\ SessionOK(session)
  /\ Bounded(session)
  /\ file # NoFile => file \in Snapshots(Prompts, Messages)

-----------------------------------------------------------------------------
LEMMA ConstantFacts ==
  /\ PromptMessages(Prompts) \subseteq Messages
  /\ Options \subseteq Limits
  /\ \A size \in Sizes, role \in {"user", "assistant", "tool"} :
        LET m == Message(role, NoText, 0, size)
        IN  m \in Messages /\ m.role = role
  /\ \A m \in Messages : m.size \in Nat
<1>1. PromptMessages(Prompts) \subseteq Messages
  BY DEF Messages
<1>2. Options \subseteq Limits
  BY SessionConstants DEF Limits
<1>3. ASSUME NEW size \in Sizes, NEW role \in {"user", "assistant", "tool"}
      PROVE  LET m == Message(role, NoText, 0, size)
             IN  m \in Messages /\ m.role = role
  <2>1. Message(role, NoText, 0, size) \in Messages
    BY DEF Messages
  <2>2. Message(role, NoText, 0, size).role = role
    BY DEF Message
  <2> QED BY <2>1, <2>2
<1>4. ASSUME NEW m \in Messages
      PROVE  m.size \in Nat
  <2>1. CASE m \in PromptMessages(Prompts)
    <3>1. PICK p \in Prompts \ {NoPrompt} : m = Message("system", p, 0, PromptSize[p])
      BY <2>1 DEF PromptMessages
    <3>2. PromptSize[p] \in Nat
      BY SessionConstants
    <3> QED BY <3>1, <3>2 DEF Message
  <2>2. CASE m \notin PromptMessages(Prompts)
    <3>1. PICK role \in {"user", "assistant", "tool"}, size \in Sizes :
                m = Message(role, NoText, 0, size)
      BY <2>2 DEF Messages
    <3> QED BY <3>1, SessionConstants DEF Message
  <2> QED BY <2>1, <2>2
<1> QED BY <1>1, <1>2, <1>3, <1>4

LEMMA EmptySessionFacts ==
  ASSUME NEW opts \in Options
  PROVE  SessionOK(EmptySession(opts)) /\ Bounded(EmptySession(opts))
<1> DEFINE s == EmptySession(opts)
<1>1. opts \in Limits /\ NoPrompt \in Prompts /\ << >> \in Seq(Messages) /\ Len(<< >>) = 0
  BY ConstantFacts, SessionConstants, EmptySeq
<1>2. /\ s \in Sessions(Prompts, Messages)
      /\ s.messages = << >> /\ s.hasSystem = FALSE /\ s.prompt = NoPrompt /\ s.opts = opts
  BY <1>1 DEF EmptySession, Sessions
<1> HIDE DEF s
<1>3. Flagged(s) /\ Prompted(s) /\ NonSystemMessages(s) = << >>
  BY <1>1, <1>2 DEF Flagged, Prompted, NonSystemMessages
<1>4. Bounded(s)
  BY <1>1, <1>2, <1>3 DEF Bounded, Limits
<1> QED BY <1>2, <1>3, <1>4 DEF SessionOK, s

(* What trim() leaves is within the limit on the number of messages. *)
LEMMA TrimmedFacts ==
  ASSUME NEW s, SessionOK(s), NEW d, NEW h, TrimmedTo(Prompts, Messages, s, d, h)
  PROVE  SessionOK(d) /\ Fits(d)
<1>1. SessionOK(d) /\ WithinLimits(d)
  BY DEF TrimmedTo, HasHistory, SessionOK
<1>2. Len(d.messages) = Start(d) + Len(NonSystemMessages(d))
      /\ Start(d) \in {0, 1} /\ Len(NonSystemMessages(d)) \in Nat
  BY <1>1, HistoryFacts, SessionFacts DEF SessionOK
<1>3. d.opts.maxMessages \in Nat /\ Len(d.messages) <= Start(d) + d.opts.maxMessages
  BY <1>1 DEF WithinLimits, SessionOK, Sessions, Limits
<1>4. Bounded(d)
  BY <1>2, <1>3 DEF Bounded
<1> QED BY <1>1, <1>4 DEF Fits

LEMMA AppendKeeps ==
  ASSUME NEW s, SessionOK(s), NEW size \in Sizes
  PROVE  /\ SessionOK(AppendUser(s, NoText, size)) /\ Fits(AppendUser(s, NoText, size))
         /\ SessionOK(AppendAssistant(s, 0, size)) /\ Fits(AppendAssistant(s, 0, size))
         /\ SessionOK(AppendToolResults(s, 1, size))
         /\ Fits(AppendToolResults(s, 1, size))
<1>1. ASSUME NEW m \in Messages, m.role # "system"
      PROVE  SessionOK(AppendMessage(s, m)) /\ Fits(AppendMessage(s, m))
  <2>1. TrimmedTo(Prompts, Messages, s, AppendMessage(s, m), Append(NonSystemMessages(s), m))
    BY <1>1, AppendMessageFacts DEF SessionOK
  <2> QED BY <2>1, TrimmedFacts
<1>2. SessionOK(AppendUser(s, NoText, size)) /\ Fits(AppendUser(s, NoText, size))
  BY <1>1, ConstantFacts DEF AppendUser
<1>3. SessionOK(AppendAssistant(s, 0, size)) /\ Fits(AppendAssistant(s, 0, size))
  BY <1>1, ConstantFacts DEF AppendAssistant
<1>4. TrimmedTo(Prompts, Messages, s, AppendToolResults(s, 1, size),
                NonSystemMessages(s) \o Results(1, size))
  BY ConstantFacts, AppendToolResultsFacts DEF SessionOK
<1>5. SessionOK(AppendToolResults(s, 1, size)) /\ Fits(AppendToolResults(s, 1, size))
  BY <1>4, TrimmedFacts
<1> QED BY <1>2, <1>3, <1>5

LEMMA RollbackKeeps ==
  ASSUME NEW s, SessionOK(s), Bounded(s)
  PROVE  LET d == RollbackLastUser(s)
         IN  SessionOK(d) /\ Bounded(d) /\ (WithinLimits(s) => WithinLimits(d))
<1> DEFINE h == NonSystemMessages(s)
           d == RollbackLastUser(s)
           g == IF Len(h) > 0 /\ h[Len(h)].role = "user" THEN SubSeq(h, 1, Len(h) - 1) ELSE h
<1>1. HasHistory(Prompts, Messages, s, d, g)
  BY RollbackLastUserFacts DEF SessionOK
<1>2. h \in Seq(Messages) /\ Len(h) \in Nat
  BY HistoryFacts DEF SessionOK
<1> HIDE DEF d, h
<1>3. Len(g) <= Len(h) /\ Len(g) \in Nat
  <2> DEFINE n == Len(h)
             f == SubSeq(h, 1, n - 1)
  <2>1. \A i \in 1 .. n - 1 : h[i] \in Messages
    BY <1>2, ElementOfSeq
  <2>2. n \in Nat /\ Len(f) = IF 1 <= n - 1 THEN (n - 1) - 1 + 1 ELSE 0
    BY <1>2, <2>1, SubSeqProperties
  <2> HIDE DEF n, f
  <2>3. n > 0 => Len(f) <= n /\ Len(f) \in Nat
    BY <2>2
  <2> QED BY <1>2, <2>3 DEF n, f
<1> HIDE DEF g
<1>4. SessionOK(d) /\ d.opts = s.opts /\ NonSystemMessages(d) = g
  BY <1>1 DEF HasHistory, SessionOK
<1>5. s.opts.maxMessages \in Nat
  BY DEF SessionOK, Sessions, Limits
<1>6. Bounded(d)
  BY <1>2, <1>3, <1>4, <1>5 DEF Bounded, h
<1>7. WithinLimits(s) => WithinLimits(d)
  <2> DEFINE q == s.messages
             n == Len(q) - 1
             f == Front(q)
  <2>1. /\ q \in Seq(Messages) /\ Len(q) \in Nat /\ Start(s) \in {0, 1}
        /\ d.opts = s.opts /\ Start(d) = Start(s)
        /\ \A i \in 1 .. Len(q) : q[i] \in Messages
    BY <1>1, SessionFacts DEF SessionOK, HasHistory
  <2>2. d = s \/ (q # << >> /\ d = [s EXCEPT !.messages = f])
    BY DEF RollbackLastUser, d
  <2>3. CASE d = s
    BY <2>3
  <2>4. CASE q # << >> /\ d = [s EXCEPT !.messages = f]
    <3>1. n \in Nat /\ n < Len(q) /\ Len(q) > 0
      BY <2>1, <2>4, EmptySeq
    <3>2. f = SubSeq(q, 1, n)
      BY DEF Front
    <3>3. \A i \in 1 .. n : q[i] \in Messages
      BY <2>1, <3>1
    <3>4. d.messages = f
      BY <2>4 DEF SessionOK, Sessions
    <3> HIDE DEF n, q, f
    <3>5. /\ f \in Seq(Messages) /\ Len(f) = IF 1 <= n THEN n - 1 + 1 ELSE 0
          /\ \A i \in 1 .. n - 1 + 1 : f[i] = q[1 + i - 1]
      BY <3>1, <3>2, <3>3, SubSeqProperties
    <3>6. Len(f) = n /\ Len(f) <= Len(q)
      BY <2>1, <3>1, <3>5
    <3>7. ASSUME NEW i \in 1 .. Len(f)
          PROVE  f[i] = q[i]
      <4>1. i \in 1 .. n - 1 + 1 /\ 1 + i - 1 = i
        BY <3>1, <3>6
      <4> QED BY <3>5, <4>1
    <3>8. Chars(f) \in Nat /\ Chars(q) \in Nat /\ Chars(f) <= Chars(q)
      BY <2>1, <3>5, <3>6, <3>7, ConstantFacts, CharsGrow
    <3>9. ApproxTokenCount(f) <= ApproxTokenCount(q)
          /\ ApproxTokenCount(f) \in Nat /\ ApproxTokenCount(q) \in Nat
      BY <3>8 DEF ApproxTokenCount
    <3>10. s.opts.maxApproxTokens \in Nat
      BY DEF SessionOK, Sessions, Limits
    <3>11. Len(f) \in Nat
      BY <3>1, <3>6
    <3> QED BY <1>5, <2>1, <3>4, <3>6, <3>9, <3>10, <3>11 DEF WithinLimits, q
  <2> QED BY <2>2, <2>3, <2>4
<1> QED BY <1>4, <1>6, <1>7 DEF d

LEMMA LoadKeeps ==
  ASSUME NEW s, SessionOK(s), NEW snap \in Snapshots(Prompts, Messages)
  PROVE  LET d == ApplySnapshot(snap, s)
         IN  /\ SessionOK(d) /\ Bounded(d)
             /\ d.prompt = snap.prompt
             /\ d.opts = SavedOptions(snap.opts)
             /\ IsSuffix(NonSystemMessages(d), snap.messages)
             /\ WithinLimits(d)
             /\ \/ NonSystemMessages(d) = snap.messages
                \/ ~ WithinLimits([d EXCEPT !.messages =
                                      SubSeq(@, 1, Start(d)) \o snap.messages])
<1> DEFINE d == ApplySnapshot(snap, s)
<1>1. /\ d \in Sessions(Prompts, Messages) /\ Flagged(d) /\ Prompted(d)
      /\ d.prompt = snap.prompt /\ d.opts = SavedOptions(snap.opts)
      /\ WithinLimits(d)
      /\ \E k \in 0 .. Len(snap.messages) :
            NonSystemMessages(d) = Without(snap.messages, k)
      /\ \/ NonSystemMessages(d) = snap.messages
         \/ ~ WithinLimits([d EXCEPT !.messages = SubSeq(@, 1, Start(d)) \o snap.messages])
  BY ConstantFacts, ApplySnapshotFacts DEF SessionOK
<1> HIDE DEF d
<1>2. snap.messages \in Seq(Messages)
  BY DEF Snapshots, Histories
<1>3. IsSuffix(NonSystemMessages(d), snap.messages)
  BY <1>1, <1>2, WithoutSuffix
<1>4. Len(d.messages) = Start(d) + Len(NonSystemMessages(d))
      /\ Start(d) \in {0, 1} /\ Len(NonSystemMessages(d)) \in Nat
  BY <1>1, HistoryFacts, SessionFacts
<1>5. d.opts.maxMessages \in Nat /\ Len(d.messages) <= Start(d) + d.opts.maxMessages
  BY <1>1 DEF WithinLimits, Sessions, Limits
<1>6. Bounded(d)
  BY <1>4, <1>5 DEF Bounded
<1> QED BY <1>1, <1>3, <1>6 DEF SessionOK, d

-----------------------------------------------------------------------------
(* The invariant                                                           *)

LEMMA InitiallyKept == Init => SessionInv
BY EmptySessionFacts DEF Init, SessionInv

(* What a step that loads does *)
Restored ==
  /\ session'.prompt = file.prompt
  /\ session'.opts = SavedOptions(file.opts)
  /\ IsSuffix(NonSystemMessages(session'), file.messages)
  /\ WithinLimits(session')
  /\ \/ NonSystemMessages(session') = file.messages
     \/ ~ WithinLimits([session' EXCEPT !.messages =
             SubSeq(@, 1, Start(session')) \o file.messages])

LEMMA LoadStep ==
  ASSUME SessionInv, Load
  PROVE  SessionInv' /\ Restored
<1>1. PICK s \in {session} \cup {EmptySession(opts) : opts \in Options} :
         session' = ApplySnapshot(file, s)
  BY DEF Load
<1>2. SessionOK(s) /\ file \in Snapshots(Prompts, Messages) /\ file' = file
  BY <1>1, EmptySessionFacts DEF SessionInv, Load
<1> QED BY <1>1, <1>2, LoadKeeps DEF SessionInv, Restored

(* What a step may do to the limits: only a new prompt may exceed them. *)
StaysWithin ==
  WithinLimits(session) /\ ~ WithinLimits(session')
    => \E prompt \in Prompts : SetPrompt(prompt)

LEMMA InductiveSession == SessionInv /\ [Next]_vars => SessionInv' /\ StaysWithin
<1> SUFFICES ASSUME SessionInv, [Next]_vars PROVE SessionInv' /\ StaysWithin
  OBVIOUS
<1>1. SessionOK(session) /\ Bounded(session)
  BY DEF SessionInv
<1>2. ASSUME UNCHANGED file, SessionOK(session'), Bounded(session'),
             WithinLimits(session) => WithinLimits(session')
      PROVE  SessionInv' /\ StaysWithin
  BY <1>2 DEF SessionInv, StaysWithin
<1>3. ASSUME NEW size \in Sizes, User(size) \/ Assistant(size) \/ ToolResult(size)
      PROVE  SessionInv' /\ StaysWithin
  BY <1>1, <1>2, <1>3, AppendKeeps DEF User, Assistant, ToolResult, Fits
<1>4. ASSUME RollBack
      PROVE  SessionInv' /\ StaysWithin
  BY <1>1, <1>2, <1>4, RollbackKeeps DEF RollBack
<1>5. ASSUME NEW prompt \in Prompts, SetPrompt(prompt)
      PROVE  SessionInv' /\ StaysWithin
  <2> DEFINE d == SetSystemPrompt(session, prompt)
  <2>1. SessionOK(d) /\ d.opts = session.opts
        /\ NonSystemMessages(d) = NonSystemMessages(session)
    BY <1>1, ConstantFacts, SetSystemPromptFacts DEF SessionOK
  <2> HIDE DEF d
  <2>2. Bounded(d)
    BY <1>1, <2>1 DEF Bounded
  <2>3. session' = d /\ file' = file
    BY <1>5 DEF SetPrompt, d
  <2> QED BY <1>5, <2>1, <2>2, <2>3 DEF SessionInv, StaysWithin
<1>6. ASSUME NEW opts \in Options, Limit(opts)
      PROVE  SessionInv' /\ StaysWithin
  <2> DEFINE b == [session EXCEPT !.opts = opts]
             d == SetOptions(session, opts)
  <2>1. /\ b \in Sessions(Prompts, Messages) /\ Flagged(b) /\ Prompted(b)
        /\ TrimmedTo(Prompts, Messages, b, d, NonSystemMessages(session))
    BY <1>1, ConstantFacts, SetOptionsFacts DEF SessionOK
  <2> HIDE DEF b, d
  <2>2. SessionOK(d) /\ Fits(d)
    BY <2>1, TrimmedFacts DEF SessionOK
  <2> QED BY <1>2, <1>6, <2>2 DEF Limit, d, Fits
<1>7. ASSUME Reset
      PROVE  SessionInv' /\ StaysWithin
  <2> DEFINE d == Clear(session)
  <2>1. SessionOK(d) /\ d.opts = session.opts /\ NonSystemMessages(d) = << >>
    BY <1>1, ConstantFacts, ClearFacts DEF SessionOK
  <2> HIDE DEF d
  <2>2. d.opts.maxMessages \in Nat /\ Len(<< >>) = 0
    BY <2>1, EmptySeq DEF SessionOK, Sessions, Limits
  <2>3. Bounded(d)
    BY <2>1, <2>2 DEF Bounded
  <2>4. WithinLimits(d)
    <3>1. Len(d.messages) = Start(d) + 0 /\ Start(d) \in {0, 1}
      BY <2>1, <2>2, HistoryFacts, SessionFacts DEF SessionOK
    <3> QED BY <2>2, <3>1 DEF WithinLimits
  <2> QED BY <1>2, <1>7, <2>1, <2>3, <2>4 DEF Reset, d
<1>8. ASSUME Save
      PROVE  SessionInv' /\ StaysWithin
  <2>1. file' \in Snapshots(Prompts, Messages)
    BY <1>1, <1>8, SnapshotFacts DEF SessionOK, Save
  <2> QED BY <1>1, <1>8, <2>1 DEF SessionInv, Save, StaysWithin
<1>9. ASSUME Load
      PROVE  SessionInv' /\ StaysWithin
  BY <1>9, LoadStep DEF Restored, StaysWithin
<1>10. ASSUME UNCHANGED vars
       PROVE  SessionInv' /\ StaysWithin
  BY <1>1, <1>2, <1>10 DEF vars
<1> QED BY <1>3, <1>4, <1>5, <1>6, <1>7, <1>8, <1>9, <1>10 DEF Next

LEMMA AlwaysKept == Spec => []SessionInv
BY InitiallyKept, InductiveSession, PTL DEF Spec

-----------------------------------------------------------------------------
(* The theorems                                                            *)

(* hasSystemMessage_ never lies: setSystemPrompt, clear, trim, rollback    *)
(* and loading keep exactly the current prompt in front of the history.    *)
THEOREM PromptStaysInFront == Spec => []PromptInFront
<1>1. SessionInv => PromptInFront
  <2> SUFFICES ASSUME SessionInv PROVE PromptInFront
    OBVIOUS
  <2> DEFINE q == session.messages
  <2>1. /\ q \in Seq(Messages) /\ Len(q) \in Nat /\ DOMAIN q = 1 .. Len(q)
        /\ Flagged(session) /\ Prompted(session)
    BY SessionFacts DEF SessionInv, SessionOK
  <2>2. session.hasSystem => q # << >> /\ Head(q) = q[1]
    BY <2>1, EmptySeq DEF Flagged
  <2> QED BY <2>1, <2>2 DEF Flagged, Prompted, PromptInFront
<1> QED BY <1>1, AlwaysKept, PTL

(* Whatever lengthens the history or lowers a limit trims it: the history  *)
(* never holds more than maxMessages, and only setSystemPrompt, which does *)
(* not trim, ever takes it over the budget of tokens.                      *)
THEOREM HistoryStaysInBudget == Spec => BudgetKept
<1>1. SessionInv => HistoryBounded
  BY DEF SessionInv, Bounded, HistoryBounded
<1>2. SessionInv /\ [Next]_vars
        => [WithinLimits(session) /\ ~ WithinLimits(session)'
              => \E prompt \in Prompts : SetPrompt(prompt)]_vars
  BY InductiveSession DEF StaysWithin
<1> QED BY <1>1, <1>2, AlwaysKept, PTL DEF Spec, BudgetKept

(* rollbackLastUser takes back the message that appendUser appended, or    *)
(* nothing if trim() dropped that very message; of the history before it,  *)
(* only what trim() dropped is missing.                                    *)
THEOREM RollbackUndoes == Spec => []RollbackUndoesAppend
<1>1. ASSUME NEW s, SessionOK(s), NEW size \in Sizes
      PROVE  LET appended   == AppendUser(s, NoText, size)
                 rolledBack == RollbackLastUser(appended)
             IN  /\ IsSuffix(NonSystemMessages(rolledBack), NonSystemMessages(s))
                 /\ Len(appended.messages) = Len(s.messages) + 1 => rolledBack = s
  <2> DEFINE m == Message("user", NoText, 0, size)
             h == NonSystemMessages(s)
             longer == [s EXCEPT !.messages = Append(@, m)]
             all == Append(h, m)
             d == AppendUser(s, NoText, size)
             e == RollbackLastUser(d)
  <2>1. s \in Sessions(Prompts, Messages) /\ Flagged(s)
    BY <1>1 DEF SessionOK
  <2>2. m \in Messages /\ m.role = "user"
    BY ConstantFacts
  <2>3. h \in Seq(Messages) /\ Len(h) \in Nat /\ Len(s.messages) = Start(s) + Len(h)
    BY <2>1, HistoryFacts
  <2>4. d = AppendMessage(s, m)
    BY DEF AppendUser
  <2> HIDE DEF m, h, d
  <2>5. /\ HasHistory(Prompts, Messages, s, longer, all)
        /\ d = Trim(longer)
        /\ TrimmedTo(Prompts, Messages, s, d, all)
    <3>1. /\ HasHistory(Prompts, Messages, s, longer, Append(NonSystemMessages(s), m))
          /\ AppendMessage(s, m) = Trim(longer)
          /\ TrimmedTo(Prompts, Messages, s, AppendMessage(s, m),
                       Append(NonSystemMessages(s), m))
      BY <2>1, <2>2, AppendMessageFacts
    <3> QED BY <2>4, <3>1 DEF h
  <2>6. /\ all \in Seq(Messages) /\ Len(all) = Len(h) + 1
        /\ \A i \in 1 .. Len(h) : all[i] = h[i]
        /\ all[Len(h) + 1] = m
    BY <2>2, <2>3, AppendProperties
  <2> HIDE DEF all
  <2>7. PICK k \in 0 .. Len(all) : HasHistory(Prompts, Messages, s, d, Without(all, k))
    BY <2>5 DEF TrimmedTo
  <2> DEFINE w == Without(all, k)
             g == IF Len(w) > 0 /\ w[Len(w)].role = "user" THEN SubSeq(w, 1, Len(w) - 1) ELSE w
  <2>8. /\ w \in Seq(Messages) /\ Len(w) = Len(all) - k
        /\ \A i \in 1 .. Len(all) - k : w[i] = all[k + i]
    BY <2>6, WithoutFacts
  <2>9. HasHistory(Prompts, Messages, d, e, g)
    BY <2>7, RollbackLastUserFacts DEF HasHistory
  <2> HIDE DEF w, e
  <2>10. IsSuffix(NonSystemMessages(e), h)
    <3>1. CASE k = Len(all)
      <4>1. Len(w) = 0
        BY <2>3, <2>6, <2>8, <3>1
      <4>2. g = w /\ w = << >>
        BY <2>8, <4>1, EmptySeq
      <4>3. Len(h) \in 0 .. Len(h) /\ Len(Without(h, Len(h))) = 0
            /\ Without(h, Len(h)) \in Seq(Messages)
        BY <2>3, WithoutFacts
      <4>4. w = Without(h, Len(h))
        BY <4>2, <4>3, EmptySeq
      <4> QED BY <2>3, <2>9, <4>2, <4>3, <4>4, WithoutSuffix DEF HasHistory
    <3>2. CASE k # Len(all)
      <4>1. /\ k \in 0 .. Len(h) /\ Len(w) = Len(h) + 1 - k /\ Len(w) > 0
            /\ Len(w) \in 1 .. Len(all) - k /\ k + Len(w) = Len(h) + 1
        BY <2>3, <2>6, <2>8, <3>2
      <4>2. w[Len(w)].role = "user"
        <5>1. w[Len(w)] = all[k + Len(w)]
          BY <2>8, <4>1
        <5> QED BY <2>2, <2>6, <4>1, <5>1
      <4>3. g = SubSeq(w, 1, Len(w) - 1)
        BY <4>1, <4>2
      <4>4. /\ Without(h, k) \in Seq(Messages) /\ Len(Without(h, k)) = Len(h) - k
            /\ \A i \in 1 .. Len(h) - k : Without(h, k)[i] = h[k + i]
        BY <2>3, <4>1, WithoutFacts
      <4> DEFINE f == SubSeq(w, 1, Len(w) - 1)
                 x == Without(h, k)
      <4>5. /\ f \in Seq(Messages) /\ Len(f) = Len(h) - k
            /\ \A i \in 1 .. Len(h) - k : f[i] = w[i]
        <5> DEFINE n == Len(w) - 1
        <5>1. n \in Nat /\ n = Len(h) - k
          BY <2>3, <4>1
        <5>2. \A i \in 1 .. n : w[i] \in Messages
          BY <2>8, <4>1, ElementOfSeq
        <5>3. /\ f \in Seq(Messages) /\ Len(f) = IF 1 <= n THEN n - 1 + 1 ELSE 0
              /\ \A i \in 1 .. n - 1 + 1 : f[i] = w[1 + i - 1]
          BY <5>1, <5>2, SubSeqProperties
        <5> HIDE DEF f, n
        <5>4. Len(f) = n
          BY <5>1, <5>3
        <5>5. ASSUME NEW i \in 1 .. n
              PROVE  f[i] = w[i]
          <6>1. i \in 1 .. n - 1 + 1 /\ 1 + i - 1 = i
            BY <5>1
          <6> QED BY <5>3, <6>1
        <5> QED BY <5>1, <5>3, <5>4, <5>5
      <4> HIDE DEF f, x
      <4>6. ASSUME NEW i \in 1 .. Len(h) - k
            PROVE  f[i] = x[i]
        <5>1. i \in 1 .. Len(all) - k /\ k + i \in 1 .. Len(h)
          BY <2>3, <2>6, <4>1
        <5>2. f[i] = all[k + i]
          BY <2>8, <4>5, <5>1
        <5> QED BY <2>6, <4>4, <5>1, <5>2 DEF x
      <4>7. f = x
        BY <4>4, <4>5, <4>6, SeqEqual DEF x
      <4>8. NonSystemMessages(e) = x
        BY <2>9, <4>3, <4>7 DEF HasHistory, f
      <4> QED BY <2>3, <4>1, <4>8, WithoutSuffix DEF x
    <3> QED BY <3>1, <3>2
  <2>11. ASSUME Len(d.messages) = Len(s.messages) + 1
         PROVE  e = s
    <3>1. s.messages \in Seq(Messages) /\ Len(s.messages) \in Nat
      BY <2>1, SessionFacts
    <3>2. /\ longer \in Sessions(Prompts, Messages) /\ Flagged(longer)
          /\ longer.messages = Append(s.messages, m)
      BY <2>1, <2>5 DEF HasHistory, Sessions
    <3>3. Len(longer.messages) = Len(s.messages) + 1
      BY <2>2, <3>1, <3>2, AppendProperties
    <3>4. d = longer
      BY <2>5, <2>11, <3>2, <3>3, TrimFacts
    <3> DEFINE q == longer.messages
    <3>5. q # << >> /\ Last(q) = m /\ Front(q) = s.messages
      <4>1. /\ Append(s.messages, m) # << >>
            /\ Len(Append(s.messages, m)) = Len(s.messages) + 1
            /\ Append(s.messages, m)[Len(s.messages) + 1] = m
            /\ Append(s.messages, m) \in Seq(Messages)
            /\ \A i \in 1 .. Len(s.messages) : Append(s.messages, m)[i] = s.messages[i]
        BY <2>2, <3>1, AppendProperties
      <4> DEFINE n == Len(s.messages)
                 f == SubSeq(q, 1, n)
      <4>2. Front(q) = f /\ Last(q) = m
        <5>1. Len(q) - 1 = n /\ Len(q) = n + 1
          BY <3>1, <3>3
        <5> QED BY <3>2, <4>1, <5>1 DEF Front, Last
      <4>3. \A i \in 1 .. n : q[i] = s.messages[i] /\ q[i] \in Messages
        BY <3>1, <3>2, <4>1, ElementOfSeq
      <4>4. /\ f \in Seq(Messages) /\ Len(f) = IF 1 <= n THEN n - 1 + 1 ELSE 0
            /\ \A i \in 1 .. n - 1 + 1 : f[i] = q[1 + i - 1]
        BY <3>1, <4>3, SubSeqProperties
      <4> HIDE DEF f, q
      <4>5. Len(f) = n
        <5> HIDE DEF n
        <5>1. n \in Nat
          BY <3>1 DEF n
        <5> QED BY <4>4, <5>1
      <4>6. ASSUME NEW i \in 1 .. n
            PROVE  f[i] = s.messages[i]
        <5>1. i \in 1 .. n - 1 + 1 /\ 1 + i - 1 = i
          BY <3>1
        <5> QED BY <4>3, <4>4, <5>1
      <4>7. f = s.messages
        BY <3>1, <4>4, <4>5, <4>6, SeqEqual
      <4> QED BY <3>2, <4>1, <4>2, <4>7 DEF q
    <3>6. e = [longer EXCEPT !.messages = s.messages]
      BY <2>2, <3>4, <3>5 DEF RollbackLastUser, e
    <3> QED BY <2>1, <3>6 DEF Sessions
  <2> QED BY <2>10, <2>11 DEF d, e, h
<1>2. SessionInv => RollbackUndoesAppend
  BY <1>1 DEF SessionInv, RollbackUndoesAppend
<1> QED BY <1>2, AlwaysKept, PTL

(* Loading session.json gives back what was saved, whatever session it is  *)
(* loaded into; messages are missing only where the limits leave no room.  *)
THEOREM LoadingRestores == Spec => LoadRestores
<1>1. SessionInv /\ [Next]_vars => [Load => Restored]_vars
  BY LoadStep
<1> QED BY <1>1, AlwaysKept, PTL DEF Spec, LoadRestores, Restored
=============================================================================

-------------------------- MODULE EaLlmClientProofs --------------------------
(***************************************************************************)
(* Proofs about EaLlmClient, for any number of calls of chat() and any     *)
(* scripts and options: the answers of mock mode come in order, no answer  *)
(* is disturbed, streams do not mix, and requests go to one endpoint.  The *)
(* lemmas about loops come from SessionOpsProofs, nothing else of that     *)
(* module is used.                                                         *)
(***************************************************************************)
EXTENDS EaLlmClient, SessionOpsProofs

States == {"new", "open", "answering", "done"}

ChatRecord ==
  [state : States, heard : Seq(Contents), content : Seq(Contents),
   result : Errors \cup {"none", "ok"}]

Types ==
  /\ opts \in Options
  /\ mockIndex \in Nat
  /\ stack \in Seq(Chats)
  /\ called \in Seq(Chats)
  /\ chat \in [Chats -> ChatRecord]

(* A chat that is not answered has no result, *)
Unanswered == \A c \in Chats : chat[c].state \in {"new", "open"} => chat[c].result = "none"

(* one that is called is not new, *)
CalledIsNotNew == \A n \in DOMAIN called : chat[called[n]].state # "new"

(* none of them is sent in mock mode, *)
NoneSent == opts.mock # << >> => \A c \in Chats : chat[c].state # "open"

(* where mockIndex_ counts the calls, until the script is used up. *)
IndexCounts ==
  opts.mock # << >> =>
    mockIndex = IF Len(called) < Len(opts.mock) THEN Len(called) ELSE Len(opts.mock)

(* What is on the stack has got its answer. *)
StackAnswered == \A i \in DOMAIN stack : chat[stack[i]].state \in {"answering", "done"}

IInv ==
  Types /\ Unanswered /\ CalledIsNotNew /\ StackAnswered /\ NoneSent /\ IndexCounts /\ MockInOrder

LEMMA OptionTypes ==
  ASSUME NEW o \in Options
  PROVE  /\ o.mock \in Seq(Contents \cup {Garbage})
         /\ \A n \in DOMAIN o.mock : o.mock[n] # Garbage => << o.mock[n] >> \in Seq(Contents)
<1>1. o.mock \in Seq(Contents \cup {Garbage})
  BY LlmClientConstants DEF LlmClientConstants
<1>2. ASSUME NEW n \in DOMAIN o.mock, o.mock[n] # Garbage
      PROVE  << o.mock[n] >> \in Seq(Contents)
  <2>1. o.mock[n] \in Contents
    BY <1>1, <1>2
  <2> QED BY <2>1
<1> QED BY <1>1, <1>2

LEMMA Initially == Init => IInv
<1> SUFFICES ASSUME Init PROVE IInv
  OBVIOUS
<1>1. called = << >> /\ mockIndex = 0 /\ stack = << >> /\ opts \in Options
  BY DEF Init
<1>2. \A c \in Chats : chat[c] = NewChat
  BY DEF Init
<1>3. chat \in [Chats -> ChatRecord]
  BY DEF Init, NewChat, ChatRecord, States
<1>4. Len(opts.mock) \in Nat /\ (opts.mock # << >> => Len(opts.mock) > 0)
  BY <1>1, OptionTypes
<1> QED BY <1>1, <1>2, <1>3, <1>4
    DEF IInv, Types, Unanswered, CalledIsNotNew, StackAnswered, NoneSent, IndexCounts,
        MockInOrder, NewChat

-----------------------------------------------------------------------------
(* Steps that make no call: they touch chats that are open or answered.    *)

(* What such a step may do to the chats, as far as IInv goes. *)
Settles ==
  /\ chat' \in [Chats -> ChatRecord]
  /\ \A c \in Chats :
       /\ chat'[c].state = "new" <=> chat[c].state = "new"
       /\ chat'[c].state = "open" => chat[c].state = "open"
       /\ chat'[c].state \in {"new", "open"} => chat'[c].result = chat[c].result
       /\ chat[c].state # "open" =>
            /\ chat'[c].heard = chat[c].heard
            /\ chat'[c].result = chat[c].result
            /\ chat'[c].content = chat[c].content

LEMMA SettledStep ==
  ASSUME IInv, Settles, UNCHANGED <<opts, mockIndex, called>>,
         stack' \in Seq(Chats), StackAnswered'
  PROVE  IInv'
<1> USE DEF IInv, Types
<1>1. Types'
  BY DEF Settles
<1>2. Unanswered'
  BY DEF Settles, Unanswered
<1>3. \A n \in DOMAIN called : called[n] \in Chats
  OBVIOUS
<1>4. CalledIsNotNew'
  BY <1>3 DEF Settles, CalledIsNotNew
<1>5. NoneSent' /\ IndexCounts'
  BY DEF Settles, NoneSent, IndexCounts
<1>6. MockInOrder'
  <2> SUFFICES ASSUME opts.mock # << >>, NEW n \in DOMAIN called
               PROVE  /\ chat'[called[n]].result = chat[called[n]].result
                      /\ chat'[called[n]].content = chat[called[n]].content
    BY DEF MockInOrder
  <2>1. chat[called[n]].state # "open"
    BY <1>3 DEF NoneSent
  <2> QED BY <1>3, <2>1 DEF Settles
<1> QED BY <1>1, <1>2, <1>4, <1>5, <1>6

LEMMA ReturnSettles ==
  ASSUME IInv, Return
  PROVE  Settles /\ stack' \in Seq(Chats) /\ StackAnswered'
<1> DEFINE top == stack[Len(stack)]
<1>1. stack \in Seq(Chats) /\ Len(stack) \in Nat \ {0} /\ top \in Chats
  <2>1. stack \in Seq(Chats) /\ stack # << >>
    BY DEF IInv, Types, Return
  <2> QED BY <2>1
<1>2. chat[top].state \in {"answering", "done"}
  BY <1>1 DEF IInv, StackAnswered
<1>3. chat \in [Chats -> ChatRecord] /\ chat' = [chat EXCEPT ![top].state = "done"]
  BY DEF Return, IInv, Types
<1>4. Settles
  <2>1. chat' \in [Chats -> ChatRecord]
    BY <1>1, <1>3 DEF ChatRecord, States
  <2>2. /\ chat'[top].state = "done" /\ chat'[top].result = chat[top].result
        /\ chat'[top].content = chat[top].content /\ chat'[top].heard = chat[top].heard
    BY <1>1, <1>3 DEF ChatRecord
  <2>3. \A c \in Chats \ {top} : chat'[c] = chat[c]
    BY <1>3
  <2> HIDE DEF top
  <2> QED BY <1>1, <1>2, <2>1, <2>2, <2>3 DEF Settles
<1>5. stack' = SubSeq(stack, 1, Len(stack) - 1)
  BY DEF Return
<1>6. /\ stack' \in Seq(Chats)
      /\ \A i \in DOMAIN stack' : i \in DOMAIN stack /\ stack'[i] = stack[i]
  BY <1>1, <1>5
<1>7. StackAnswered'
  BY <1>1, <1>3, <1>6 DEF StackAnswered, IInv, ChatRecord, States
<1> QED BY <1>4, <1>6, <1>7

(* An answer to an open chat, which takes its place on the stack. *)
LEMMA AnswerSettles ==
  ASSUME IInv, NEW c \in Chats, chat[c].state = "open",
         NEW result \in Errors \cup {"ok"}, NEW content \in Seq(Contents),
         Answer(c, chat[c], result, content)
  PROVE  Settles /\ stack' \in Seq(Chats) /\ StackAnswered'
<1>1. chat \in [Chats -> ChatRecord] /\ stack \in Seq(Chats)
  BY DEF IInv, Types
<1>2. chat' = [chat EXCEPT ![c] = Answered(chat[c], result, content)]
  BY DEF Answer
<1>3. Answered(chat[c], result, content) \in ChatRecord
  BY <1>1 DEF Answered, ChatRecord, States, Errors
<1>4. chat' \in [Chats -> ChatRecord] /\ chat'[c].state = "answering"
  BY <1>1, <1>2, <1>3 DEF Answered, ChatRecord
<1>5. Settles
  BY <1>1, <1>2, <1>4 DEF Settles
<1>6. stack' = Append(stack, c) /\ stack' \in Seq(Chats)
  BY <1>1 DEF Answer
<1>7. StackAnswered'
  <2> SUFFICES ASSUME NEW i \in DOMAIN stack'
               PROVE  chat'[stack'[i]].state \in {"answering", "done"}
    BY DEF StackAnswered
  <2>1. stack'[i] = c \/ (i \in DOMAIN stack /\ stack'[i] = stack[i])
    BY <1>1, <1>6
  <2>2. CASE i \in DOMAIN stack /\ stack'[i] = stack[i]
    BY <1>1, <1>2, <1>4, <2>2 DEF IInv, StackAnswered
  <2> QED BY <1>4, <2>1, <2>2
<1> QED BY <1>5, <1>6, <1>7

LEMMA FailSettles ==
  ASSUME IInv, NEW c \in Chats, Fail(c)
  PROVE  Settles /\ stack' \in Seq(Chats) /\ StackAnswered'
<1>1. PICK error \in {"transport", "http"} : Answer(c, chat[c], error, << >>)
  BY DEF Fail
<1>2. error \in Errors \cup {"ok"} /\ << >> \in Seq(Contents) /\ chat[c].state = "open"
  BY DEF Errors, Fail
<1> QED BY <1>1, <1>2, AnswerSettles

LEMMA CompleteSettles ==
  ASSUME IInv, NEW c \in Chats, Complete(c)
  PROVE  Settles /\ stack' \in Seq(Chats) /\ StackAnswered'
<1>1. /\ "ok" \in Errors \cup {"ok"} /\ "unparsable" \in Errors \cup {"ok"}
      /\ << >> \in Seq(Contents) /\ chat[c].state = "open"
  BY DEF Errors, Complete
<1>2. chat[c].heard \in Seq(Contents)
  BY DEF IInv, Types, ChatRecord
<1>3. CASE Answer(c, chat[c], "ok", Accumulated(c))
  BY <1>1, <1>2, <1>3, AnswerSettles DEF Accumulated
<1>4. CASE Answer(c, chat[c], "unparsable", << >>)
  BY <1>1, <1>4, AnswerSettles
<1>5. ASSUME NEW said \in Contents, Answer(c, chat[c], "ok", << said >>)
      PROVE  Settles /\ stack' \in Seq(Chats) /\ StackAnswered'
  <2>1. << said >> \in Seq(Contents)
    OBVIOUS
  <2> QED BY <1>1, <1>5, <2>1, AnswerSettles
<1> QED BY <1>3, <1>4, <1>5 DEF Complete

LEMMA StreamSettles ==
  ASSUME IInv, NEW c \in Chats, NEW payload \in Contents \cup {Garbage}, Stream(c, payload)
  PROVE  Settles /\ stack' \in Seq(Chats) /\ StackAnswered'
<1>1. /\ chat \in [Chats -> ChatRecord] /\ stack' = stack
      /\ stack \in Seq(Chats) /\ chat[c].state = "open"
  BY DEF IInv, Types, Stream
<1>2. CASE payload = Garbage
  BY <1>1, <1>2 DEF Stream, Settles, IInv, StackAnswered
<1>3. CASE payload # Garbage
  <2>1. chat' = [chat EXCEPT ![c].heard = Append(@, payload)]
    BY <1>3 DEF Stream, CtxOf
  <2>2. Append(chat[c].heard, payload) \in Seq(Contents)
    BY <1>1, <1>3 DEF ChatRecord
  <2>3. \A d \in Chats :
          /\ chat'[d].state = chat[d].state
          /\ chat'[d].result = chat[d].result
          /\ chat'[d].content = chat[d].content
          /\ d # c => chat'[d] = chat[d]
    BY <1>1, <2>1 DEF ChatRecord
  <2>4. chat' \in [Chats -> ChatRecord]
    BY <1>1, <2>1, <2>2 DEF ChatRecord
  <2>5. Settles
    BY <1>1, <2>3, <2>4 DEF Settles
  <2>6. StackAnswered'
    BY <1>1, <2>3 DEF IInv, StackAnswered
  <2> QED BY <1>1, <2>5, <2>6
<1> QED BY <1>2, <1>3

-----------------------------------------------------------------------------
(* Calls                                                                   *)

(* An answer given inside chat(), to the chat just called. *)
LEMMA AnswerToNew ==
  ASSUME IInv, NEW c \in Chats, chat[c].state = "new", NEW x \in ChatRecord,
         NEW result \in Errors \cup {"ok"}, NEW content \in Seq(Contents),
         Answer(c, x, result, content)
  PROVE  /\ chat' \in [Chats -> ChatRecord]
         /\ chat'[c].state = "answering"
         /\ chat'[c].result = result /\ chat'[c].content = content
         /\ \A d \in Chats \ {c} : chat'[d] = chat[d]
         /\ stack' \in Seq(Chats) /\ StackAnswered'
<1>1. chat \in [Chats -> ChatRecord] /\ stack \in Seq(Chats)
  BY DEF IInv, Types
<1>2. chat' = [chat EXCEPT ![c] = Answered(x, result, content)]
  BY DEF Answer
<1>3. /\ Answered(x, result, content) \in ChatRecord
      /\ Answered(x, result, content).state = "answering"
      /\ Answered(x, result, content).result = result
      /\ Answered(x, result, content).content = content
  BY DEF Answered, ChatRecord, States, Errors
<1>4. stack' = Append(stack, c) /\ stack' \in Seq(Chats)
  BY <1>1 DEF Answer
<1>5. StackAnswered'
  <2> SUFFICES ASSUME NEW i \in DOMAIN stack'
               PROVE  chat'[stack'[i]].state \in {"answering", "done"}
    BY DEF StackAnswered
  <2>1. stack'[i] = c \/ (i \in DOMAIN stack /\ stack'[i] = stack[i])
    BY <1>1, <1>4
  <2>2. CASE stack'[i] = c
    BY <1>1, <1>2, <1>3, <2>2
  <2>3. CASE stack'[i] # c
    BY <1>1, <1>2, <2>1, <2>3 DEF IInv, StackAnswered
  <2> QED BY <2>2, <2>3
<1> QED BY <1>1, <1>2, <1>3, <1>4, <1>5

(* What is left of a call, once its answer is known: c is the call after   *)
(* all others, and the script has moved on as far as they and it reach.    *)
LEMMA CalledStep ==
  ASSUME IInv, NEW c \in Chats, chat[c].state = "new", opts' = opts,
         called' = Append(called, c), mockIndex' \in Nat,
         chat' \in [Chats -> ChatRecord], chat'[c].state \in {"open", "answering"},
         \A d \in Chats \ {c} : chat'[d] = chat[d],
         chat'[c].state = "open" => chat'[c].result = "none" /\ opts.mock = << >>,
         stack' \in Seq(Chats), StackAnswered',
         IndexCounts',
         opts.mock # << >> =>
           LET n == Len(called) + 1
           IN  IF n > Len(opts.mock) THEN chat'[c].result = "exhausted"
               ELSE IF opts.mock[n] = Garbage THEN chat'[c].result = "unparsable"
               ELSE chat'[c].result = "ok" /\ chat'[c].content = << opts.mock[n] >>
  PROVE  IInv'
<1> USE DEF IInv, Types
<1>1. called \in Seq(Chats) /\ called' \in Seq(Chats) /\ Len(called) \in Nat
  OBVIOUS
<1>2. DOMAIN called' = 1 .. Len(called) + 1 /\ called'[Len(called) + 1] = c
  BY <1>1
<1>3. \A n \in 1 .. Len(called) :
        called'[n] = called[n] /\ called[n] \in Chats \ {c}
  BY <1>1 DEF CalledIsNotNew
<1>4. \A n \in DOMAIN called' : n = Len(called) + 1 \/ n \in 1 .. Len(called)
  BY <1>1, <1>2
<1>5. Types'
  BY <1>1
<1>6. Unanswered'
  BY DEF Unanswered
<1>7. CalledIsNotNew'
  BY <1>1, <1>2, <1>3, <1>4 DEF CalledIsNotNew
<1>8. NoneSent'
  BY DEF NoneSent
<1>9. MockInOrder'
  <2> SUFFICES ASSUME opts.mock # << >>, NEW n \in DOMAIN called'
               PROVE  IF n > Len(opts.mock) THEN chat'[called'[n]].result = "exhausted"
                      ELSE IF opts.mock[n] = Garbage
                      THEN chat'[called'[n]].result = "unparsable"
                      ELSE /\ chat'[called'[n]].result = "ok"
                           /\ chat'[called'[n]].content = << opts.mock[n] >>
    BY DEF MockInOrder
  <2>1. CASE n = Len(called) + 1
    BY <1>2, <2>1
  <2>2. CASE n \in 1 .. Len(called)
    <3>1. chat'[called'[n]] = chat[called[n]] /\ n \in DOMAIN called
      BY <1>1, <1>3, <2>2
    <3> QED BY <3>1 DEF MockInOrder
  <2> QED BY <1>4, <2>1, <2>2
<1> QED BY <1>5, <1>6, <1>7, <1>8, <1>9

LEMMA MockStep == ASSUME IInv, NEW c \in Chats, Chat(c), ChatMock(c) PROVE IInv'
<1> DEFINE said == opts.mock[mockIndex + 1]
<1>1. /\ chat[c].state = "new" /\ opts' = opts /\ called' = Append(called, c)
      /\ opts.mock # << >> /\ chat[c] \in ChatRecord
  BY DEF Chat, ChatMock, IInv, Types
<1>2. /\ opts.mock \in Seq(Contents \cup {Garbage}) /\ Len(opts.mock) \in Nat
      /\ called \in Seq(Chats) /\ Len(called) \in Nat /\ mockIndex \in Nat
      /\ Len(called') = Len(called) + 1
      /\ mockIndex = IF Len(called) < Len(opts.mock) THEN Len(called) ELSE Len(opts.mock)
  BY <1>1, OptionTypes DEF IInv, Types, IndexCounts
<1>3. << >> \in Seq(Contents) /\ {"exhausted", "unparsable", "ok"} \subseteq Errors \cup {"ok"}
  BY DEF Errors
<1>4. CASE /\ mockIndex >= Len(opts.mock) /\ mockIndex' = mockIndex
           /\ Answer(c, chat[c], "exhausted", << >>)
  <2>1. Len(called) + 1 > Len(opts.mock)
    BY <1>2, <1>4
  <2>2. mockIndex' \in Nat /\ IndexCounts'
    BY <1>1, <1>2, <1>4 DEF IndexCounts
  <2> QED BY <1>1, <1>3, <1>4, <2>1, <2>2, AnswerToNew, CalledStep
<1>5. CASE mockIndex < Len(opts.mock) /\ mockIndex' = NextMock(mockIndex)
  <2>1. mockIndex = Len(called) /\ Len(called) + 1 \in DOMAIN opts.mock
    BY <1>2, <1>5
  <2>2. mockIndex' \in Nat /\ IndexCounts'
    BY <1>1, <1>2, <1>5, <2>1 DEF IndexCounts, NextMock
  <2>3. CASE said = Garbage
    <3>1. Answer(c, chat[c], "unparsable", << >>)
      BY <1>5, <1>2, <2>3 DEF ChatMock
    <3>2. /\ chat' \in [Chats -> ChatRecord] /\ stack' \in Seq(Chats) /\ StackAnswered'
          /\ chat'[c].state = "answering" /\ chat'[c].result = "unparsable"
          /\ \A d \in Chats \ {c} : chat'[d] = chat[d]
      <4> DEFINE x == chat[c]
                 none == << >>
      <4>1. /\ x \in ChatRecord /\ none \in Seq(Contents)
            /\ "unparsable" \in Errors \cup {"ok"}
            /\ Answer(c, x, "unparsable", none)
        BY <1>1, <1>3, <3>1
      <4> HIDE DEF x, none
      <4>2. /\ chat' \in [Chats -> ChatRecord]
            /\ chat'[c].state = "answering"
            /\ chat'[c].result = "unparsable" /\ chat'[c].content = none
            /\ \A d \in Chats \ {c} : chat'[d] = chat[d]
            /\ stack' \in Seq(Chats) /\ StackAnswered'
        BY <1>1, <4>1, AnswerToNew
      <4> QED BY <4>2
    <3>3. ~ (Len(called) + 1 > Len(opts.mock)) /\ opts.mock[Len(called) + 1] = Garbage
      BY <1>2, <2>1, <2>3
    <3> QED BY <1>1, <2>2, <3>2, <3>3, CalledStep
  <2>4. CASE said # Garbage
    <3>1. << said >> \in Seq(Contents)
      BY <2>1, <2>4, OptionTypes DEF IInv, Types
    <3>2. [chat[c] EXCEPT !.heard = << said >>] \in ChatRecord
      BY <1>1, <3>1 DEF ChatRecord
    <3>3. Answer(c, [chat[c] EXCEPT !.heard = << said >>], "ok", << said >>)
      BY <1>5, <1>2, <2>4 DEF ChatMock
    <3>4. /\ chat' \in [Chats -> ChatRecord] /\ stack' \in Seq(Chats) /\ StackAnswered'
          /\ chat'[c].state = "answering"
          /\ chat'[c].result = "ok" /\ chat'[c].content = << said >>
          /\ \A d \in Chats \ {c} : chat'[d] = chat[d]
      <4> DEFINE x == [chat[c] EXCEPT !.heard = << said >>]
                 words == << said >>
      <4>1. /\ x \in ChatRecord /\ words \in Seq(Contents)
            /\ "ok" \in Errors \cup {"ok"}
            /\ Answer(c, x, "ok", words)
        BY <3>1, <3>2, <3>3
      <4> HIDE DEF x, words
      <4>2. /\ chat' \in [Chats -> ChatRecord]
            /\ chat'[c].state = "answering"
            /\ chat'[c].result = "ok" /\ chat'[c].content = words
            /\ \A d \in Chats \ {c} : chat'[d] = chat[d]
            /\ stack' \in Seq(Chats) /\ StackAnswered'
        BY <1>1, <4>1, AnswerToNew
      <4> QED BY <4>2 DEF words
    <3>5. /\ ~ (Len(called) + 1 > Len(opts.mock))
          /\ opts.mock[Len(called) + 1] = said
      BY <1>2, <2>1
    <3> QED BY <1>1, <2>2, <2>4, <3>4, <3>5, CalledStep
  <2> QED BY <2>3, <2>4
<1> QED BY <1>4, <1>5 DEF ChatMock

LEMMA ChatStep == ASSUME IInv, NEW c \in Chats, Chat(c) PROVE IInv'
<1>1. /\ chat[c].state = "new" /\ opts' = opts /\ called' = Append(called, c)
      /\ chat \in [Chats -> ChatRecord] /\ mockIndex \in Nat
  BY DEF Chat, IInv, Types
<1>2. CASE ChatMock(c)
  BY <1>2, MockStep
<1>3. CASE ChatRefused(c)
  <2>1. PICK error \in {"incomplete", "noBody"} : Answer(c, chat[c], error, << >>)
    BY <1>3 DEF ChatRefused
  <2>2. error \in Errors \cup {"ok"} /\ << >> \in Seq(Contents)
    BY DEF Errors
  <2>3. mockIndex' = mockIndex /\ opts.mock = << >>
    BY <1>3 DEF ChatRefused
  <2>4. IndexCounts'
    BY <1>1, <2>3 DEF IndexCounts
  <2> QED BY <1>1, <2>1, <2>2, <2>3, <2>4, AnswerToNew, CalledStep
<1>4. CASE ChatSent(c)
  <2>1. opts.mock = << >> /\ mockIndex' = mockIndex /\ stack' = stack
    BY <1>4 DEF ChatSent
  <2>2. chat' = [chat EXCEPT ![c].state = "open"]
    BY <1>4 DEF ChatSent
  <2>3. /\ chat' \in [Chats -> ChatRecord] /\ chat'[c].state = "open"
        /\ chat'[c].result = "none"
        /\ \A d \in Chats \ {c} : chat'[d] = chat[d]
    BY <1>1, <2>2 DEF ChatRecord, States, IInv, Unanswered
  <2>4. stack' \in Seq(Chats) /\ StackAnswered'
    BY <1>1, <2>1, <2>3 DEF IInv, Types, StackAnswered
  <2>5. IndexCounts'
    BY <1>1, <2>1 DEF IndexCounts
  <2> QED BY <1>1, <2>1, <2>3, <2>4, <2>5, CalledStep
<1> QED BY <1>2, <1>3, <1>4 DEF Chat

-----------------------------------------------------------------------------

LEMMA SettlingSteps ==
  ASSUME IInv,
         \/ Return \/ Cancel \/ UNCHANGED vars
         \/ \E c \in Chats, payload \in Contents \cup {Garbage} : Stream(c, payload)
         \/ \E c \in Chats : Fail(c) \/ Complete(c)
  PROVE  /\ Settles /\ stack' \in Seq(Chats) /\ StackAnswered'
         /\ UNCHANGED <<opts, mockIndex, called>>
<1>1. CASE Return
  BY <1>1, ReturnSettles DEF Return
<1>2. CASE Cancel \/ UNCHANGED vars
  <2>1. UNCHANGED <<opts, mockIndex, called, stack, chat>>
    BY <1>2 DEF Cancel, vars
  <2> QED BY <2>1 DEF Settles, StackAnswered, IInv, Types
<1>3. ASSUME NEW c \in Chats, NEW payload \in Contents \cup {Garbage}, Stream(c, payload)
      PROVE  /\ Settles /\ stack' \in Seq(Chats) /\ StackAnswered'
             /\ UNCHANGED <<opts, mockIndex, called>>
  BY <1>3, StreamSettles DEF Stream
<1>4. ASSUME NEW c \in Chats, Fail(c) \/ Complete(c)
      PROVE  /\ Settles /\ stack' \in Seq(Chats) /\ StackAnswered'
             /\ UNCHANGED <<opts, mockIndex, called>>
  <2>1. UNCHANGED <<opts, mockIndex, called>>
    BY <1>4 DEF Fail, Complete
  <2> QED BY <1>4, <2>1, FailSettles, CompleteSettles
<1> QED BY <1>1, <1>2, <1>3, <1>4

LEMMA Inductive == IInv /\ [Next]_vars => IInv'
<1> SUFFICES ASSUME IInv, [Next]_vars PROVE IInv'
  OBVIOUS
<1>1. ASSUME NEW c \in Chats, Chat(c) PROVE IInv'
  BY <1>1, ChatStep
<1>2. CASE ~ \E c \in Chats : Chat(c)
  BY <1>2, SettlingSteps, SettledStep DEF Next
<1> QED BY <1>1, <1>2

(* The n-th call of chat() gets the n-th response of any script, however   *)
(* deep the calls are nested.                                              *)
THEOREM MockOrder == Spec => []MockInOrder
<1>1. IInv => MockInOrder
  BY DEF IInv
<1> QED BY Initially, Inductive, <1>1, PTL DEF Spec

(* An answer is not disturbed, by nested calls, by other requests, or by   *)
(* what happens to requests that were cancelled.                           *)
THEOREM AnswerStays == Spec => AnsweredOnce
<1> DEFINE Kept ==
      \A c \in Chats : chat[c].result # "none" =>
        [chat'[c] EXCEPT !.state = ""] = [chat[c] EXCEPT !.state = ""]
<1>1. ASSUME IInv, [Next]_vars PROVE [Kept]_vars
  <2> SUFFICES ASSUME NEW d \in Chats, chat[d].result # "none"
               PROVE  [chat'[d] EXCEPT !.state = ""] = [chat[d] EXCEPT !.state = ""]
    OBVIOUS
  <2>1. chat[d].state \notin {"new", "open"} /\ chat[d] \in ChatRecord
    BY <1>1 DEF IInv, Types, Unanswered
  <2>2. ASSUME NEW c \in Chats, Chat(c) PROVE chat'[d] = chat[d]
    <3>1. d # c /\ chat \in [Chats -> ChatRecord]
      BY <1>1, <2>1, <2>2 DEF Chat, IInv, Types
    <3>2. \/ \E x : chat' = [chat EXCEPT ![c] = x]
          \/ chat' = [chat EXCEPT ![c].state = "open"]
      BY <2>2 DEF Chat, ChatMock, ChatRefused, ChatSent, Answer
    <3> QED BY <3>1, <3>2
  <2>3. CASE ~ \E c \in Chats : Chat(c)
    <3>1. Settles
      BY <1>1, <2>3, SettlingSteps DEF Next
    <3>2. /\ chat'[d] \in ChatRecord
          /\ chat'[d].heard = chat[d].heard /\ chat'[d].result = chat[d].result
          /\ chat'[d].content = chat[d].content
      BY <2>1, <3>1 DEF Settles
    <3> QED BY <2>1, <3>2 DEF ChatRecord
  <2> QED BY <2>2, <2>3
<1> QED BY Initially, Inductive, <1>1, PTL DEF Spec, AnsweredOnce

-----------------------------------------------------------------------------
(* Streams                                                                 *)

Payloads == Contents \cup {Garbage}

LEMMA ParsedIs ==
  ASSUME NEW s \in Seq(Payloads)
  PROVE  \E g \in [0 .. Len(s) -> Seq(Contents)] :
           /\ Parsed(s) = g[Len(s)]
           /\ g[0] = << >>
           /\ \A i \in 1 .. Len(s) :
                g[i] = IF s[i] = Garbage THEN g[i - 1] ELSE Append(g[i - 1], s[i])
<1> DEFINE n == Len(s)
           Round(i, r) == IF s[i] = Garbage THEN r ELSE Append(r, s[i])
           upTo == CHOOSE f : f = [i \in 0 .. n |->
                     IF i = 0 THEN << >>
                     ELSE IF s[i] = Garbage THEN f[i - 1] ELSE Append(f[i - 1], s[i])]
           step == [i \in 1 .. n |-> [r \in Seq(Contents) |-> Round(i, r)]]
<1>1. n \in Nat /\ \A i \in 1 .. n : s[i] # Garbage => s[i] \in Contents
  <2>1. n \in Nat /\ \A i \in 1 .. n : s[i] \in Payloads
    BY LenProperties, ElementOfSeq
  <2> QED BY <2>1 DEF Payloads
<1>2. Parsed(s) = upTo[n]
  BY DEF Parsed
<1>3. \A i \in 1 .. n : \A r \in Seq(Contents) : Round(i, r) \in Seq(Contents)
  <2> SUFFICES ASSUME NEW i \in 1 .. n, NEW r \in Seq(Contents)
               PROVE  Round(i, r) \in Seq(Contents)
    OBVIOUS
  <2>1. s[i] # Garbage => Append(r, s[i]) \in Seq(Contents)
    BY <1>1, AppendProperties
  <2> QED BY <2>1
<1> HIDE DEF n
<1>4. PICK g : /\ g \in [0 .. n -> Seq(Contents)] /\ g[0] = << >>
               /\ \A i \in 1 .. n : g[i] = step[i][g[i - 1]]
  <2>1. << >> \in Seq(Contents)
    BY EmptySeq
  <2>2. step \in Loops(n, Seq(Contents))
    <3> HIDE DEF Round
    <3> QED BY <1>3 DEF Loops
  <2> HIDE DEF step
  <2>3. \E g : LoopRun(n, Seq(Contents), << >>, step, g)
    BY <1>1, <2>1, <2>2, LoopValues
  <2> QED BY <2>3 DEF LoopRun
<1>5. ASSUME NEW i \in 1 .. n
      PROVE  g[i] = Round(i, g[i - 1])
  <2>1. i - 1 \in 0 .. n
    BY <1>1
  <2>2. g[i] = step[i][g[i - 1]] /\ g[i - 1] \in Seq(Contents)
    BY <1>4, <2>1
  <2> HIDE DEF Round
  <2> QED BY <2>2
<1>6. g = [i \in 0 .. n |->
             IF i = 0 THEN << >>
             ELSE IF s[i] = Garbage THEN g[i - 1] ELSE Append(g[i - 1], s[i])]
  <2>1. \A i \in 0 .. n : i # 0 => i \in 1 .. n
    BY <1>1
  <2>2. \A i \in 0 .. n :
           g[i] = IF i = 0 THEN << >>
                  ELSE IF s[i] = Garbage THEN g[i - 1] ELSE Append(g[i - 1], s[i])
    BY <1>4, <1>5, <2>1
  <2>3. g = [i \in 0 .. n |-> g[i]]
    BY <1>4
  <2> QED BY <2>2, <2>3
<1>7. upTo = [i \in 0 .. n |->
             IF i = 0 THEN << >>
             ELSE IF s[i] = Garbage THEN upTo[i - 1] ELSE Append(upTo[i - 1], s[i])]
  BY <1>6
<1> HIDE DEF upTo
<1>8. upTo[0] = << >> /\ \A i \in 1 .. n : upTo[i] = Round(i, upTo[i - 1])
  <2>1. 0 \in 0 .. n /\ \A i \in 1 .. n : i \in 0 .. n /\ i # 0
    BY <1>1
  <2>2. upTo[0] = << >>
    BY <1>7, <2>1
  <2>3. ASSUME NEW i \in 1 .. n
        PROVE  upTo[i] = Round(i, upTo[i - 1])
    BY <1>7, <2>1
  <2> HIDE DEF Round
  <2> QED BY <2>2, <2>3
<1> DEFINE I == {i \in 0 .. n : upTo[i] \in Seq(Contents)}
<1>9. 0 \in I
  <2>1. << >> \in Seq(Contents) /\ 0 \in 0 .. n
    BY <1>1, EmptySeq
  <2> QED BY <1>8, <2>1
<1>10. ASSUME NEW i \in 1 .. n, i - 1 \in I
       PROVE  i \in I
  <2>1. upTo[i - 1] \in Seq(Contents) /\ i \in 0 .. n
    BY <1>1, <1>10
  <2> HIDE DEF Round
  <2> QED BY <1>3, <1>8, <2>1
<1>11. \A i \in 0 .. n : i \in I
  <2> HIDE DEF I
  <2> QED BY <1>1, <1>9, <1>10, LoopInduction
<1>12. upTo \in [0 .. n -> Seq(Contents)]
  BY <1>7, <1>11
<1> QED BY <1>2, <1>8, <1>12 DEF n

(* The deltas of a stream, when one more event comes. *)
LEMMA ParsedFacts ==
  ASSUME NEW s \in Seq(Payloads), NEW x \in Payloads
  PROVE  /\ Parsed(<< >>) = << >>
         /\ Parsed(Append(s, x)) = IF x = Garbage THEN Parsed(s) ELSE Append(Parsed(s), x)
<1> DEFINE n == Len(s)
           t == Append(s, x)
<1>1. /\ n \in Nat /\ t \in Seq(Payloads) /\ Len(t) = n + 1
      /\ \A i \in 1 .. n : t[i] = s[i]
      /\ t[n + 1] = x
  BY LenProperties, AppendProperties
<1>2. PICK g \in [0 .. n -> Seq(Contents)] :
         /\ Parsed(s) = g[n]
         /\ g[0] = << >>
         /\ \A i \in 1 .. n : g[i] = IF s[i] = Garbage THEN g[i - 1] ELSE Append(g[i - 1], s[i])
  BY ParsedIs
<1> HIDE DEF n, t
<1>3. PICK h \in [0 .. n + 1 -> Seq(Contents)] :
         /\ Parsed(t) = h[n + 1]
         /\ h[0] = << >>
         /\ \A i \in 1 .. n + 1 :
              h[i] = IF t[i] = Garbage THEN h[i - 1] ELSE Append(h[i - 1], t[i])
  <2>1. \E h \in [0 .. Len(t) -> Seq(Contents)] :
           /\ Parsed(t) = h[Len(t)]
           /\ h[0] = << >>
           /\ \A i \in 1 .. Len(t) :
                h[i] = IF t[i] = Garbage THEN h[i - 1] ELSE Append(h[i - 1], t[i])
    BY <1>1, ParsedIs
  <2> QED BY <1>1, <2>1
<1> DEFINE I == {i \in 0 .. n : g[i] = h[i]}
<1>4. 0 \in I
  BY <1>1, <1>2, <1>3
<1>5. ASSUME NEW i \in 1 .. n, i - 1 \in I
      PROVE  i \in I
  <2>1. g[i - 1] = h[i - 1] /\ i \in 0 .. n /\ i \in 1 .. n + 1 /\ t[i] = s[i]
    BY <1>1, <1>5
  <2>2. g[i] = IF s[i] = Garbage THEN g[i - 1] ELSE Append(g[i - 1], s[i])
    BY <1>2
  <2>3. h[i] = IF t[i] = Garbage THEN h[i - 1] ELSE Append(h[i - 1], t[i])
    BY <1>3, <2>1
  <2>4. g[i] = h[i]
    BY <2>1, <2>2, <2>3, Zenon
  <2> QED BY <2>1, <2>4
<1>6. g[n] = h[n]
  <2> HIDE DEF I
  <2>1. \A i \in 0 .. n : i \in I
    BY <1>1, <1>4, <1>5, LoopInduction
  <2>2. n \in I
    BY <1>1, <2>1
  <2> QED BY <2>2 DEF I
<1>7. n + 1 \in 1 .. n + 1 /\ (n + 1) - 1 = n
  BY <1>1
<1>8. Parsed(t) = IF x = Garbage THEN Parsed(s) ELSE Append(Parsed(s), x)
  BY <1>1, <1>2, <1>3, <1>6, <1>7
<1>9. Parsed(<< >>) = << >>
  <2>1. << >> \in Seq(Payloads) /\ Len(<< >>) = 0
    BY EmptySeq
  <2>2. \E f \in [0 .. Len(<< >>) -> Seq(Contents)] :
          Parsed(<< >>) = f[Len(<< >>)] /\ f[0] = << >>
    BY <2>1, ParsedIs
  <2> QED BY <2>1, <2>2
<1> QED BY <1>8, <1>9 DEF t

(* What OwnDeltasOnly needs to be inductive: the types of what was         *)
(* streamed, and that what was heard is what an answer is made of.         *)
HeardOwn ==
  (opts.mock = << >> /\ opts.stream) =>
    \A c \in Chats :
      /\ chat[c].heard = Parsed(served[c])
      /\ chat[c].result = "ok" => chat[c].content = chat[c].heard

StreamInv == IInv /\ served \in [Chats -> Seq(Payloads)] /\ HeardOwn

LEMMA StreamInvInitially ==
  Init => StreamInv
<1> SUFFICES ASSUME Init PROVE StreamInv
  OBVIOUS
<1>1. << >> \in Seq(Payloads)
  BY EmptySeq
<1>2. Garbage \in Payloads
  BY DEF Payloads
<1>3. Parsed(<< >>) = << >>
  BY <1>1, <1>2, ParsedFacts
<1>4. served \in [Chats -> Seq(Payloads)] /\ \A c \in Chats : served[c] = << >>
  BY <1>1 DEF Init
<1>5. \A c \in Chats : chat[c].heard = << >> /\ chat[c].result = "none"
  BY DEF Init, NewChat
<1> QED BY <1>3, <1>4, <1>5, Initially DEF StreamInv, HeardOwn

(* An answer leaves what was heard alone, and is made of it if it is one   *)
(* of a stream.                                                            *)
LEMMA AnswerHeard ==
  ASSUME StreamInv, opts' = opts, served' = served,
         NEW c \in Chats, NEW result, NEW content,
         Answer(c, chat[c], result, content),
         opts.stream /\ result = "ok" => content = chat[c].heard
  PROVE  served' \in [Chats -> Seq(Payloads)] /\ HeardOwn'
<1>1. /\ chat \in [Chats -> ChatRecord]
      /\ chat' = [chat EXCEPT ![c] = Answered(chat[c], result, content)]
  BY DEF StreamInv, IInv, Types, Answer
<1>2. chat[c] \in ChatRecord
  BY <1>1
<1>3. LET x == Answered(chat[c], result, content)
      IN  x.heard = chat[c].heard /\ x.result = result /\ x.content = content
  BY <1>2 DEF Answered, ChatRecord
<1>4. /\ chat'[c].heard = chat[c].heard
      /\ chat'[c].result = result /\ chat'[c].content = content
      /\ \A d \in Chats \ {c} : chat'[d] = chat[d]
  BY <1>1, <1>3
<1> QED BY <1>4 DEF StreamInv, HeardOwn

LEMMA StreamInvKept ==
  StreamInv /\ [Next]_vars => StreamInv'
<1> SUFFICES ASSUME StreamInv, [Next]_vars
             PROVE  served' \in [Chats -> Seq(Payloads)] /\ HeardOwn'
  BY Inductive DEF StreamInv
<1>1. /\ chat \in [Chats -> ChatRecord]
      /\ served \in [Chats -> Seq(Payloads)]
      /\ HeardOwn /\ Unanswered
  BY DEF StreamInv, IInv, Types
<1>2. ASSUME NEW c \in Chats, Chat(c)
      PROVE  served' \in [Chats -> Seq(Payloads)] /\ HeardOwn'
  <2>1. opts' = opts /\ served' = served
    BY <1>2 DEF Chat
  <2>2. CASE ChatMock(c)
    <3>1. opts.mock # << >>
      BY <2>2 DEF ChatMock
    <3> QED BY <1>1, <2>1, <3>1 DEF HeardOwn
  <2>3. CASE ChatRefused(c)
    <3>1. \E result \in {"incomplete", "noBody"} : Answer(c, chat[c], result, << >>)
      BY <2>3 DEF ChatRefused
    <3> QED BY <2>1, <3>1, AnswerHeard
  <2>4. CASE ChatSent(c)
    <3>1. chat' = [chat EXCEPT ![c].state = "open"]
      BY <2>4 DEF ChatSent
    <3>2. \A d \in Chats : /\ chat'[d].heard = chat[d].heard
                           /\ chat'[d].result = chat[d].result
                           /\ chat'[d].content = chat[d].content
      BY <1>1, <3>1 DEF ChatRecord
    <3> QED BY <1>1, <2>1, <3>2 DEF HeardOwn
  <2> QED BY <1>2, <2>2, <2>3, <2>4 DEF Chat
<1>3. CASE Return
  <2>1. /\ opts' = opts /\ served' = served
        /\ chat' = [chat EXCEPT ![stack[Len(stack)]].state = "done"]
    BY <1>3 DEF Return
  <2>2. \A d \in Chats : /\ chat'[d].heard = chat[d].heard
                         /\ chat'[d].result = chat[d].result
                         /\ chat'[d].content = chat[d].content
    BY <1>1, <2>1 DEF ChatRecord
  <2> QED BY <1>1, <2>1, <2>2 DEF HeardOwn
<1>4. CASE Cancel \/ UNCHANGED vars
  BY <1>1, <1>4 DEF Cancel, vars, HeardOwn
<1>5. ASSUME NEW c \in Chats, NEW payload \in Payloads, Stream(c, payload)
      PROVE  served' \in [Chats -> Seq(Payloads)] /\ HeardOwn'
  <2>1. /\ opts' = opts /\ chat[c].state = "open"
        /\ served' = [served EXCEPT ![c] = Append(@, payload)]
    BY <1>5 DEF Stream
  <2>2. served[c] \in Seq(Payloads) /\ Append(served[c], payload) \in Seq(Payloads)
    BY <1>1, <1>5, AppendProperties
  <2>3. /\ served' \in [Chats -> Seq(Payloads)]
        /\ served'[c] = Append(served[c], payload)
        /\ \A d \in Chats \ {c} : served'[d] = served[d]
    BY <1>1, <2>1, <2>2
  <2>4. chat[c].result = "none"
    BY <1>1, <2>1 DEF Unanswered
  <2>5. Parsed(served'[c]) = IF payload = Garbage THEN Parsed(served[c])
                             ELSE Append(Parsed(served[c]), payload)
    BY <1>5, <2>2, <2>3, ParsedFacts
  <2>6. CASE payload = Garbage
    <3>1. chat' = chat
      BY <1>5, <2>6 DEF Stream
    <3> QED BY <1>1, <2>1, <2>3, <2>5, <2>6, <3>1 DEF HeardOwn
  <2>7. CASE payload # Garbage
    <3>1. chat' = [chat EXCEPT ![c].heard = Append(@, payload)]
      BY <1>5, <2>7 DEF Stream, CtxOf
    <3>2. /\ chat'[c].heard = Append(chat[c].heard, payload)
          /\ chat'[c].result = chat[c].result
          /\ \A d \in Chats \ {c} : chat'[d] = chat[d]
      BY <1>1, <3>1 DEF ChatRecord
    <3>3. SUFFICES ASSUME opts.mock = << >>, opts.stream, NEW d \in Chats
                   PROVE  /\ chat'[d].heard = Parsed(served'[d])
                          /\ chat'[d].result = "ok" => chat'[d].content = chat'[d].heard
      BY <2>1, <2>3 DEF HeardOwn
    <3>4. /\ chat[d].heard = Parsed(served[d])
          /\ chat[d].result = "ok" => chat[d].content = chat[d].heard
      BY <1>1, <3>3 DEF HeardOwn
    <3>5. CASE d = c
      BY <2>4, <2>5, <2>7, <3>2, <3>4, <3>5
    <3>6. CASE d # c
      BY <2>3, <3>2, <3>4, <3>6
    <3> QED BY <3>5, <3>6
  <2> QED BY <2>6, <2>7
<1>6. ASSUME NEW c \in Chats, Fail(c)
      PROVE  served' \in [Chats -> Seq(Payloads)] /\ HeardOwn'
  <2>1. opts' = opts /\ served' = served
    BY <1>6 DEF Fail
  <2>2. PICK error \in {"transport", "http"} : Answer(c, chat[c], error, << >>)
    BY <1>6 DEF Fail
  <2> QED BY <2>1, <2>2, AnswerHeard
<1>7. ASSUME NEW c \in Chats, Complete(c)
      PROVE  served' \in [Chats -> Seq(Payloads)] /\ HeardOwn'
  <2>1. opts' = opts /\ served' = served
    BY <1>7 DEF Complete
  <2>2. CASE opts.stream /\ Answer(c, chat[c], "ok", Accumulated(c))
    BY <2>1, <2>2, AnswerHeard DEF Accumulated
  <2>3. CASE ~ opts.stream
    BY <1>1, <2>1, <2>3 DEF HeardOwn
  <2> QED BY <1>7, <2>2, <2>3 DEF Complete
<1> QED BY <1>2, <1>3, <1>4, <1>5, <1>6, <1>7 DEF Next, Payloads

(* With any number of streams in flight, cancelled or replaced as          *)
(* activeCtx_, each chat hears the deltas of its own server, in order, and *)
(* is answered with them.                                                  *)
THEOREM StreamsDoNotMix == Spec => []OwnDeltasOnly
<1>1. StreamInv => OwnDeltasOnly
  BY DEF StreamInv, HeardOwn, OwnDeltasOnly
<1> QED BY StreamInvInitially, StreamInvKept, <1>1, PTL DEF Spec

-----------------------------------------------------------------------------
(* The address of the server                                               *)

(* The segments that occur, those of an endpoint among them *)
Segments == STRING \cup {NoSegment, "v1", "chat", "completions"}

KeptSegments(url) == {n \in 1 .. Len(url) : n = 1 \/ url[n] # NoSegment}

LastKept(url) == CHOOSE n \in KeptSegments(url) : \A k \in KeptSegments(url) : k <= n

LEMMA LastKeptFacts ==
  ASSUME NEW url \in Seq(Segments), url # << >>
  PROVE  /\ LastKept(url) \in 1 .. Len(url)
         /\ StripTrailingSlash(url) = SubSeq(url, 1, LastKept(url))
<1> DEFINE n == Len(url)
           K == KeptSegments(url)
           S == {n - k : k \in K}
<1>1. n \in Nat /\ n >= 1
  BY LenProperties, EmptySeq
<1>2. K \subseteq 1 .. n /\ 1 \in K
  BY <1>1 DEF KeptSegments
<1> HIDE DEF n, K
<1>3. S \subseteq Nat /\ S # {}
  BY <1>1, <1>2
<1>4. \E m \in K : \A k \in K : k <= m
  <2>1. PICK x \in S : \A y \in S : x <= y
    <3> HIDE DEF S
    <3> QED BY <1>3, LeastNumber
  <2>2. PICK m \in K : x = n - m
    BY <2>1
  <2>3. \A k \in K : n - m <= n - k
    BY <2>1, <2>2
  <2>4. ASSUME NEW k \in K
        PROVE  k <= m
    BY <1>1, <1>2, <2>3
  <2> QED BY <2>4
<1>5. LastKept(url) \in K
  BY <1>4 DEF LastKept, K
<1>6. StripTrailingSlash(url) = SubSeq(url, 1, LastKept(url))
  BY DEF StripTrailingSlash, LastKept, KeptSegments
<1> QED BY <1>2, <1>5, <1>6 DEF n

(* A slash at the end of an address is not seen. *)
LEMMA SlashStripped ==
  ASSUME NEW url \in Seq(Segments), url # << >>
  PROVE  StripTrailingSlash(Append(url, NoSegment)) = StripTrailingSlash(url)
<1> DEFINE n == Len(url)
           longer == Append(url, NoSegment)
           m == LastKept(url)
<1>1. n \in Nat /\ n >= 1 /\ \A i \in 1 .. n : url[i] \in Segments
  BY LenProperties, EmptySeq, ElementOfSeq
<1>2. /\ longer \in Seq(Segments) /\ Len(longer) = n + 1 /\ longer # << >>
      /\ \A i \in 1 .. n : longer[i] = url[i]
      /\ longer[n + 1] = NoSegment
  <2>1. NoSegment \in Segments
    BY DEF Segments
  <2>2. /\ longer \in Seq(Segments) /\ Len(longer) = n + 1
        /\ \A i \in 1 .. n : longer[i] = url[i]
        /\ longer[n + 1] = NoSegment
    BY <2>1, AppendProperties
  <2> HIDE DEF longer, n
  <2>3. longer # << >>
    BY <1>1, <2>2, EmptySeq
  <2> QED BY <2>2, <2>3
<1> HIDE DEF longer, n
<1>3. KeptSegments(longer) = KeptSegments(url)
  <2>1. \A i \in 1 .. n + 1 : i \in 1 .. n \/ (i = n + 1 /\ i # 1)
    BY <1>1
  <2>2. 1 .. n \subseteq 1 .. n + 1
    BY <1>1
  <2> QED BY <1>2, <2>1, <2>2 DEF KeptSegments, n
<1>4. LastKept(longer) = m
  BY <1>3 DEF LastKept
<1>5. m \in 1 .. n /\ StripTrailingSlash(url) = SubSeq(url, 1, m)
  BY LastKeptFacts DEF n
<1>6. StripTrailingSlash(longer) = SubSeq(longer, 1, m)
  BY <1>2, <1>4, LastKeptFacts
<1> HIDE DEF m
<1>7. SubSeq(longer, 1, m) = SubSeq(url, 1, m)
  <2> DEFINE a == SubSeq(longer, 1, m)
             b == SubSeq(url, 1, m)
  <2>1. \A i \in 1 .. m : url[i] \in Segments /\ longer[i] = url[i]
    BY <1>1, <1>2, <1>5
  <2>2. /\ a \in Seq(Segments) /\ Len(a) = (IF 1 <= m THEN m - 1 + 1 ELSE 0)
        /\ \A i \in 1 .. m - 1 + 1 : a[i] = longer[1 + i - 1]
    BY <1>5, <2>1, SubSeqProperties
  <2>3. /\ b \in Seq(Segments) /\ Len(b) = (IF 1 <= m THEN m - 1 + 1 ELSE 0)
        /\ \A i \in 1 .. m - 1 + 1 : b[i] = url[1 + i - 1]
    BY <1>5, <2>1, SubSeqProperties
  <2> HIDE DEF a, b
  <2>4. Len(a) = m /\ Len(b) = m
    BY <1>5, <2>2, <2>3
  <2>5. ASSUME NEW i \in 1 .. m
        PROVE  a[i] = b[i]
    <3>1. i \in 1 .. m - 1 + 1 /\ 1 + i - 1 = i
      BY <1>5
    <3> QED BY <2>1, <2>2, <2>3, <3>1
  <2>6. a = b
    BY <2>2, <2>3, <2>4, <2>5, SeqEqual
  <2> QED BY <2>6 DEF a, b
<1> QED BY <1>5, <1>6, <1>7 DEF longer

LEMMA NothingStripped ==
  ASSUME NEW url \in Seq(Segments), url # << >>, url[Len(url)] # NoSegment
  PROVE  StripTrailingSlash(url) = url
<1> DEFINE n == Len(url)
           m == LastKept(url)
           b == SubSeq(url, 1, n)
<1>1. n \in Nat /\ n >= 1 /\ \A i \in 1 .. n : url[i] \in Segments
  BY LenProperties, EmptySeq, ElementOfSeq
<1>2. m \in 1 .. n /\ StripTrailingSlash(url) = SubSeq(url, 1, m)
  BY LastKeptFacts
<1>3. n \in KeptSegments(url) /\ \A k \in KeptSegments(url) : k <= n
  BY <1>1 DEF KeptSegments
<1>4. m \in KeptSegments(url) /\ \A k \in KeptSegments(url) : k <= m
  BY <1>3 DEF LastKept
<1> HIDE DEF m
<1>5. m = n
  <2> HIDE DEF n
  <2> QED BY <1>1, <1>2, <1>3, <1>4
<1>6. b = url
  <2>1. /\ b \in Seq(Segments) /\ Len(b) = (IF 1 <= n THEN n - 1 + 1 ELSE 0)
        /\ \A i \in 1 .. n - 1 + 1 : b[i] = url[1 + i - 1]
    BY <1>1, SubSeqProperties
  <2> HIDE DEF b
  <2>2. Len(b) = n /\ \A i \in 1 .. n : b[i] = url[i]
    <3> HIDE DEF n
    <3>1. 1 <= n /\ n - 1 + 1 = n /\ \A i \in 1 .. n : 1 + i - 1 = i
      BY <1>1
    <3> QED BY <2>1, <3>1
  <2> QED BY <2>1, <2>2, SeqEqual
<1> QED BY <1>2, <1>5, <1>6 DEF b

(* An address with /v1 behind it is one with the rest of the path to go. *)
LEMMA PathBehindV1 ==
  ASSUME NEW base \in Seq(Segments)
  PROVE  Append(base, "v1") \o << "chat", "completions" >>
           = base \o << "v1", "chat", "completions" >>
<1> DEFINE n == Len(base)
           v == Append(base, "v1")
           tail == << "chat", "completions" >>
           path == << "v1", "chat", "completions" >>
           a == v \o tail
           b == base \o path
<1>1. n \in Nat
  BY LenProperties
<1>2. /\ v \in Seq(Segments) /\ Len(v) = n + 1
      /\ \A i \in 1 .. n : v[i] = base[i]
      /\ v[n + 1] = "v1"
  <2>1. "v1" \in Segments
    BY DEF Segments
  <2> QED BY <2>1, AppendProperties
<1>3. /\ tail \in Seq(Segments) /\ Len(tail) = 2
      /\ tail[1] = "chat" /\ tail[2] = "completions"
  BY DEF Segments
<1>4. /\ path \in Seq(Segments) /\ Len(path) = 3
      /\ path[1] = "v1" /\ path[2] = "chat" /\ path[3] = "completions"
  BY DEF Segments
<1> HIDE DEF v, tail, path
<1>5. /\ a \in Seq(Segments) /\ Len(a) = Len(v) + Len(tail)
      /\ \A i \in 1 .. Len(v) + Len(tail) : a[i] = IF i <= Len(v) THEN v[i] ELSE tail[i - Len(v)]
  BY <1>2, <1>3, ConcatProperties
<1>6. /\ b \in Seq(Segments) /\ Len(b) = n + Len(path)
      /\ \A i \in 1 .. n + Len(path) : b[i] = IF i <= n THEN base[i] ELSE path[i - n]
  BY <1>4, ConcatProperties
<1> HIDE DEF a, b, n
<1>7. Len(a) = n + 3 /\ Len(b) = n + 3
  BY <1>1, <1>2, <1>3, <1>4, <1>5, <1>6
<1>8. ASSUME NEW i \in 1 .. n + 3
      PROVE  a[i] = b[i]
  <2>1. i \in 1 .. n \/ i = n + 1 \/ i = n + 2 \/ i = n + 3
    BY <1>1
  <2>2. i \in 1 .. Len(v) + Len(tail) /\ i \in 1 .. n + Len(path)
    BY <1>1, <1>2, <1>3, <1>4
  <2>3. /\ a[i] = IF i <= n + 1 THEN v[i] ELSE tail[i - (n + 1)]
        /\ b[i] = IF i <= n THEN base[i] ELSE path[i - n]
    BY <1>2, <1>5, <1>6, <2>2
  <2>4. CASE i \in 1 .. n
    <3>1. i <= n + 1 /\ i <= n
      BY <1>1, <2>4
    <3> QED BY <1>2, <2>3, <2>4, <3>1
  <2>5. CASE i = n + 1
    <3>1. i <= n + 1 /\ ~ (i <= n) /\ i - n = 1
      BY <1>1, <2>5
    <3> QED BY <1>2, <1>4, <2>3, <2>5, <3>1
  <2>6. CASE i = n + 2
    <3>1. ~ (i <= n + 1) /\ ~ (i <= n) /\ i - n = 2 /\ i - (n + 1) = 1
      BY <1>1, <2>6
    <3> QED BY <1>3, <1>4, <2>3, <3>1
  <2>7. CASE i = n + 3
    <3>1. ~ (i <= n + 1) /\ ~ (i <= n) /\ i - n = 3 /\ i - (n + 1) = 2
      BY <1>1, <2>7
    <3> QED BY <1>3, <1>4, <2>3, <3>1
  <2> QED BY <2>1, <2>4, <2>5, <2>6, <2>7
<1>9. a = b
  BY <1>5, <1>6, <1>7, <1>8, SeqEqual
<1> QED BY <1>9 DEF a, b, v, tail, path

LEMMA EndpointMentions ==
  ASSUME NEW base \in Seq(Segments), NEW path \in Seq(Segments), path # << >>,
         path[Len(path)] = "completions"
  PROVE  MentionsCompletions(base \o path)
<1> DEFINE n == Len(base)
           m == Len(path)
           p == base \o path
<1>1. n \in Nat /\ m \in Nat /\ m >= 1
  BY LenProperties, EmptySeq
<1>2. /\ p \in Seq(Segments) /\ Len(p) = n + m
      /\ \A i \in 1 .. n + m : p[i] = IF i <= n THEN base[i] ELSE path[i - n]
  BY ConcatProperties
<1> HIDE DEF n, m, p
<1>3. n + m \in 1 .. n + m /\ ~ (n + m <= n) /\ (n + m) - n = m
  BY <1>1
<1>4. DOMAIN p = 1 .. n + m
  BY <1>2, LenProperties
<1>5. p[n + m] = "completions"
  BY <1>2, <1>3 DEF m
<1>6. "completions" \in Completions
  BY LlmClientConstants
<1>7. MentionsCompletions(p)
  BY <1>3, <1>4, <1>5, <1>6 DEF MentionsCompletions
<1> QED BY <1>7 DEF p

(* One segment more, that does not mention completions *)
LEMMA LongerAddress ==
  ASSUME NEW url \in Seq(Segments), url # << >>, ~ MentionsCompletions(url),
         NEW segment \in {NoSegment, "v1"}
  PROVE  LET longer == Append(url, segment)
         IN  /\ longer \in Seq(Segments) /\ longer # << >> /\ longer # << NoSegment >>
             /\ Len(longer) = Len(url) + 1 /\ Len(longer) > 1
             /\ longer[Len(longer)] = segment
             /\ ~ MentionsCompletions(longer)
<1> DEFINE n == Len(url)
           longer == Append(url, segment)
<1>1. n \in Nat /\ n >= 1 /\ DOMAIN url = 1 .. n
  BY LenProperties, EmptySeq
<1>2. /\ longer \in Seq(Segments) /\ Len(longer) = n + 1
      /\ \A i \in 1 .. n : longer[i] = url[i]
      /\ longer[n + 1] = segment
  <2>1. segment \in Segments
    BY DEF Segments
  <2> QED BY <2>1, AppendProperties
<1>3. DOMAIN longer = 1 .. n + 1
  BY <1>2, LenProperties
<1> HIDE DEF longer, n
<1>4. longer # << NoSegment >> /\ longer # << >>
  BY <1>1, <1>2
<1>5. segment \notin Completions
  BY LlmClientConstants DEF NoSegment
<1>6. ASSUME NEW i \in 1 .. n + 1
      PROVE  longer[i] \notin Completions
  <2>1. i \in 1 .. n \/ i = n + 1
    BY <1>1
  <2> QED BY <1>1, <1>2, <1>5, <2>1 DEF MentionsCompletions
<1>7. ~ MentionsCompletions(longer)
  BY <1>3, <1>6 DEF MentionsCompletions
<1> QED BY <1>1, <1>2, <1>4, <1>7 DEF longer, n

(* The base of an address that does not mention completions *)
LEMMA BaseFacts ==
  ASSUME NEW url \in Seq(Segments), url # << >>, ~ MentionsCompletions(url)
  PROVE  LET base == StripTrailingSlash(url)
         IN  base \in Seq(Segments) /\ base # << >> /\ ~ MentionsCompletions(base)
<1> DEFINE n == Len(url)
           m == LastKept(url)
           base == StripTrailingSlash(url)
<1>1. m \in 1 .. n /\ base = SubSeq(url, 1, m)
  BY LastKeptFacts
<1>2. n \in Nat /\ DOMAIN url = 1 .. n /\ \A i \in 1 .. n : url[i] \in Segments
  BY LenProperties, ElementOfSeq
<1> HIDE DEF m, n, base
<1>3. m \in Nat /\ m >= 1 /\ \A i \in 1 .. m : url[i] \in Segments
  BY <1>1, <1>2
<1> DEFINE b == SubSeq(url, 1, m)
<1>4. /\ b \in Seq(Segments) /\ Len(b) = (IF 1 <= m THEN m - 1 + 1 ELSE 0)
      /\ \A i \in 1 .. m - 1 + 1 : b[i] = url[1 + i - 1]
  BY <1>3, SubSeqProperties
<1> HIDE DEF b
<1>5. Len(b) = m /\ DOMAIN b = 1 .. m
  BY <1>3, <1>4, LenProperties
<1>6. ASSUME NEW i \in 1 .. m
      PROVE  b[i] \notin Completions
  <2>1. i \in 1 .. m - 1 + 1 /\ 1 + i - 1 = i /\ i \in 1 .. n
    BY <1>1, <1>2, <1>3
  <2> QED BY <1>2, <1>4, <2>1 DEF MentionsCompletions
<1>7. ~ MentionsCompletions(b) /\ b # << >>
  BY <1>3, <1>5, <1>6, EmptySeq DEF MentionsCompletions
<1> QED BY <1>1, <1>4, <1>7 DEF b, base

LEMMA EndpointFacts ==
  ASSUME NEW url \in Seq(Segments), url # << >>
  PROVE  LET base == StripTrailingSlash(url)
             endpoint == ResolveUrl(url)
         IN  /\ ResolveUrl(endpoint) = endpoint
             /\ url # << NoSegment >> /\ ~ MentionsCompletions(url) =>
                  /\ ResolveUrl(Append(url, NoSegment)) = endpoint
                  /\ EndsWithV1(base) \/ ResolveUrl(Append(base, "v1")) = endpoint
<1> DEFINE base == StripTrailingSlash(url)
           endpoint == ResolveUrl(url)
           longer == Append(url, NoSegment)
           v1 == Append(base, "v1")
<1>1. CASE url = << NoSegment >> \/ MentionsCompletions(url)
  <2>1. endpoint = url
    BY <1>1 DEF ResolveUrl
  <2> QED BY <1>1, <2>1
<1>2. CASE url # << NoSegment >> /\ ~ MentionsCompletions(url)
  <2>1. endpoint = IF EndsWithV1(base) THEN base \o << "chat", "completions" >>
                   ELSE base \o << "v1", "chat", "completions" >>
    BY <1>2 DEF ResolveUrl
  <2>2. base \in Seq(Segments) /\ base # << >> /\ ~ MentionsCompletions(base)
    BY <1>2, BaseFacts
  <2>3. MentionsCompletions(endpoint)
    <3> HIDE DEF base
    <3>1. LET p == << "chat", "completions" >>
          IN  p \in Seq(Segments) /\ p # << >> /\ p[Len(p)] = "completions"
      BY DEF Segments
    <3>2. LET p == << "v1", "chat", "completions" >>
          IN  p \in Seq(Segments) /\ p # << >> /\ p[Len(p)] = "completions"
      BY DEF Segments
    <3> HIDE DEF endpoint
    <3>3. CASE EndsWithV1(base)
      BY <2>1, <2>2, <3>1, <3>3, EndpointMentions
    <3>4. CASE ~ EndsWithV1(base)
      BY <2>1, <2>2, <3>2, <3>4, EndpointMentions
    <3> QED BY <3>3, <3>4
  <2>4. ResolveUrl(endpoint) = endpoint
    <3> HIDE DEF endpoint
    <3> QED BY <2>3 DEF ResolveUrl
  <2>5. longer # << NoSegment >> /\ ~ MentionsCompletions(longer)
    BY <1>2, LongerAddress
  <2>6. StripTrailingSlash(longer) = base
    BY SlashStripped
  <2>7. ResolveUrl(longer) = endpoint
    <3> HIDE DEF longer, endpoint, base
    <3> QED BY <2>1, <2>5, <2>6 DEF ResolveUrl, base
  <2>8. ASSUME ~ EndsWithV1(base)
        PROVE  ResolveUrl(v1) = endpoint
    <3> HIDE DEF base, endpoint
    <3>1. /\ v1 \in Seq(Segments) /\ v1 # << >> /\ v1 # << NoSegment >>
          /\ Len(v1) > 1 /\ v1[Len(v1)] = "v1"
          /\ ~ MentionsCompletions(v1)
      BY <2>2, LongerAddress
    <3> HIDE DEF v1
    <3>2. StripTrailingSlash(v1) = v1
      <4>1. v1[Len(v1)] # NoSegment
        BY <3>1 DEF NoSegment
      <4> QED BY <3>1, <4>1, NothingStripped
    <3>3. ResolveUrl(v1) = v1 \o << "chat", "completions" >>
      BY <3>1, <3>2 DEF ResolveUrl, EndsWithV1
    <3>4. v1 \o << "chat", "completions" >> = base \o << "v1", "chat", "completions" >>
      BY <2>2, PathBehindV1 DEF v1
    <3> QED BY <2>1, <2>8, <3>3, <3>4
  <2> QED BY <2>4, <2>7, <2>8
<1> QED BY <1>1, <1>2

(* For every address that does not mention completions, the endpoint that  *)
(* resolveChatCompletionsUrl makes of it is the same with a slash more and *)
(* with the /v1 it lacks; and every endpoint it makes, of any address, it  *)
(* makes of itself.                                                        *)
THEOREM OneEndpoint == Spec => []EndpointStable
<1> DEFINE Given == opts \in Options
<1>1. Init => Given
  BY DEF Init
<1>2. Given /\ [Next]_vars => Given'
  <2>1. [Next]_vars => opts' = opts
    BY DEF Next, vars, Chat, Return, Cancel, Stream, Fail, Complete
  <2> QED BY <2>1
<1>3. Given => EndpointStable
  <2> SUFFICES ASSUME Given PROVE EndpointStable
    OBVIOUS
  <2>1. opts.url \in Seq(STRING) /\ opts.url # << >>
    BY LlmClientConstants DEF LlmClientConstants
  <2> DEFINE u == opts.url
  <2> HIDE DEF u
  <2>2. u \in Seq(Segments) /\ u # << >>
    <3>1. u \in Seq(STRING)
      BY <2>1 DEF u
    <3>2. Len(u) \in Nat /\ u \in [1 .. Len(u) -> STRING]
      BY <3>1, LenProperties
    <3>3. u \in [1 .. Len(u) -> Segments]
      BY <3>2 DEF Segments
    <3>4. u \in Seq(Segments)
      BY <3>2, <3>3, SeqDef
    <3> QED BY <2>1, <3>4 DEF u
  <2>3. LET base == StripTrailingSlash(u)
            endpoint == ResolveUrl(u)
        IN  /\ ResolveUrl(endpoint) = endpoint
            /\ u # << NoSegment >> /\ ~ MentionsCompletions(u) =>
                 /\ ResolveUrl(Append(u, NoSegment)) = endpoint
                 /\ EndsWithV1(base) \/ ResolveUrl(Append(base, "v1")) = endpoint
    BY <2>2, EndpointFacts
  <2> QED BY <2>3 DEF EndpointStable, u
<1> QED BY <1>1, <1>2, <1>3, PTL DEF Spec
=============================================================================

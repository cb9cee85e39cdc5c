----------------------------- MODULE EaLlmClient -----------------------------
(***************************************************************************)
(* EaLlmClient: one chat() per request to the LLM.  A chat is answered     *)
(* from the scripted mock responses or refused, both before chat()         *)
(* returns, or by the HTTP client later on: in one piece, or as a stream   *)
(* of deltas and a completion.  The callback that takes the answer may     *)
(* call chat() again (the agent does, for the next tool round), so calls   *)
(* nest; stack holds those that have not returned.                         *)
(*                                                                         *)
(* Everything runs in the loop thread: the HTTP client calls back when no  *)
(* call is running.  Several requests may be in flight, because cancel()   *)
(* aborts none.                                                            *)
(***************************************************************************)
EXTENDS Naturals, Sequences

CONSTANTS Chats, NoChat,  (* calls of chat(), each made once                *)
          Contents,       (* what a message or a delta says                 *)
          Garbage,        (* a payload or a body that does not parse        *)
          Options,        (* EaLlmClientOptions a client may be given       *)
          Completions,    (* the segments of a URL that have "completions"  *)
                          (* somewhere in them                              *)
          MaxPieces       (* bound on the stream events of a chat           *)

(* complete: url, key and model are given.  A URL is a sequence of its     *)
(* segments: the scheme and host are one, a trailing slash adds an empty   *)
(* one, and the empty string is << NoSegment >>.                           *)
ASSUME LlmClientConstants ==
  /\ NoChat \notin Chats
  /\ Completions \subseteq STRING
  /\ "completions" \in Completions
  /\ Completions \cap {"", "v1", "chat"} = {}
  /\ Garbage \notin Contents
  /\ MaxPieces \in Nat
  /\ \A o \in Options :
        /\ o.mock \in Seq(Contents \cup {Garbage})
        /\ o.complete \in BOOLEAN /\ o.stream \in BOOLEAN
        /\ o.url \in Seq(STRING) \ {<< >>}

VARIABLES
  opts,       (* opts_                                                      *)
  mockIndex,  (* mockIndex_                                                 *)
  activeCtx,  (* the chat whose ChatContext activeCtx_ holds                *)
  stack,      (* the chats whose answer is being taken, innermost last      *)
  called,     (* history: the chats in the order of their calls             *)
  served,     (* history: what the server streamed for every chat           *)
  chat        (* every chat: [state, heard, content, result]                *)

vars == <<opts, mockIndex, activeCtx, stack, called, served, chat>>

Errors == {"exhausted", "unparsable", "incomplete", "noBody", "transport", "http"}

NewChat == [state |-> "new", heard |-> << >>, content |-> << >>, result |-> "none"]

-----------------------------------------------------------------------------
(* resolveChatCompletionsUrl                                               *)

(* What stands between two slashes, or behind the last one *)
NoSegment == ""

(* Mutant of StripTrailingSlash: the slashes stay. *)
KeepTrailingSlash(url) == url

StripTrailingSlash(url) ==
  LET kept == {n \in 1 .. Len(url) : n = 1 \/ url[n] # NoSegment}
  IN  SubSeq(url, 1, CHOOSE n \in kept : \A k \in kept : k <= n)

(* url.find("completions"): in the path, or in the name of the host *)
MentionsCompletions(url) == \E i \in DOMAIN url : url[i] \in Completions

EndsWithV1(url) == Len(url) > 1 /\ url[Len(url)] = "v1"

(* An address that mentions completions is taken as it is, with all its    *)
(* slashes.                                                                *)
ResolveUrl(url) ==
  LET base == StripTrailingSlash(url)
  IN  IF url = << NoSegment >> \/ MentionsCompletions(url) THEN url
      ELSE IF EndsWithV1(base)
      THEN base \o << "chat", "completions" >>
      ELSE base \o << "v1", "chat", "completions" >>

-----------------------------------------------------------------------------
(* Answers: onDone runs, inside chat() or inside a callback of the HTTP    *)
(* client, until Return.                                                   *)

(* Mutant of Answered: the request stays open and may be completed again. *)
AnsweredAndOpen(x, result, content) == [x EXCEPT !.result = result, !.content = content]

Answered(x, result, content) ==
  [x EXCEPT !.state = "answering", !.result = result, !.content = content]

Answer(c, x, result, content) ==
  /\ chat' = [chat EXCEPT ![c] = Answered(x, result, content)]
  /\ stack' = Append(stack, c)

(* Mutant of NextMock: the index moves only when the script is used up. *)
NextMockLate(index) == IF index + 1 < Len(opts.mock) THEN index ELSE index + 1

(* mockIndex_ moves before any callback is called. *)
NextMock(index) == index + 1

ChatMock(c) ==
  LET said == opts.mock[mockIndex + 1]
  IN  /\ opts.mock # << >>
      /\ \/ /\ mockIndex >= Len(opts.mock)
            /\ Answer(c, chat[c], "exhausted", << >>)
            /\ UNCHANGED mockIndex
         \/ /\ mockIndex < Len(opts.mock)
            /\ mockIndex' = NextMock(mockIndex)
            /\ IF said = Garbage THEN Answer(c, chat[c], "unparsable", << >>)
               ELSE Answer(c, [chat[c] EXCEPT !.heard = << said >>], "ok", << said >>)
      /\ UNCHANGED activeCtx

(* A request that never leaves: something is missing in the options, or    *)
(* its body cannot be built.                                               *)
ChatRefused(c) ==
  /\ opts.mock = << >>
  /\ \/ ~ opts.complete /\ Answer(c, chat[c], "incomplete", << >>)
     \/ opts.complete /\ Answer(c, chat[c], "noBody", << >>)
  /\ UNCHANGED <<mockIndex, activeCtx>>

ChatSent(c) ==
  /\ opts.mock = << >>
  /\ opts.complete
  /\ chat' = [chat EXCEPT ![c].state = "open"]
  /\ activeCtx' = IF opts.stream THEN c ELSE activeCtx
  /\ UNCHANGED <<mockIndex, stack>>

Chat(c) ==
  /\ chat[c].state = "new"
  /\ called' = Append(called, c)
  /\ ChatMock(c) \/ ChatRefused(c) \/ ChatSent(c)
  /\ UNCHANGED <<opts, served>>

Return ==
  /\ stack # << >>
  /\ chat' = [chat EXCEPT ![stack[Len(stack)]].state = "done"]
  /\ stack' = SubSeq(stack, 1, Len(stack) - 1)
  /\ UNCHANGED <<opts, mockIndex, activeCtx, called, served>>

Cancel ==
  /\ activeCtx # NoChat
  /\ activeCtx' = NoChat
  /\ UNCHANGED <<opts, mockIndex, stack, called, served, chat>>

-----------------------------------------------------------------------------
(* Callbacks of the HTTP client                                            *)

(* Mutant of CtxOf: the callbacks go by activeCtx_. *)
CtxOfActive(c) == IF activeCtx # NoChat THEN activeCtx ELSE c

(* The callbacks of a stream hold the context they were made with. *)
CtxOf(c) == c

Stream(c, payload) ==
  /\ stack = << >>
  /\ opts.stream /\ chat[c].state = "open"
  /\ Len(served[c]) < MaxPieces
  /\ served' = [served EXCEPT ![c] = Append(@, payload)]
  /\ chat' = IF payload = Garbage THEN chat
             ELSE [chat EXCEPT ![CtxOf(c)].heard = Append(@, payload)]
  /\ UNCHANGED <<opts, mockIndex, activeCtx, stack, called>>

(* A transport error, or an HTTP code outside 200 .. 299 *)
Fail(c) ==
  /\ stack = << >>
  /\ chat[c].state = "open"
  /\ \E error \in {"transport", "http"} : Answer(c, chat[c], error, << >>)
  /\ UNCHANGED <<opts, mockIndex, activeCtx, called, served>>

(* What the accumulator of a stream has taken in: every delta, whether     *)
(* the stream has come to its end or not.                                  *)
Accumulated(c) == chat[c].heard

Complete(c) ==
  /\ stack = << >>
  /\ chat[c].state = "open"
  /\ \/ opts.stream /\ Answer(c, chat[c], "ok", Accumulated(c))
     \/ ~ opts.stream /\ Answer(c, chat[c], "unparsable", << >>)
     \/ ~ opts.stream /\ \E said \in Contents : Answer(c, chat[c], "ok", << said >>)
  /\ UNCHANGED <<opts, mockIndex, activeCtx, called, served>>

-----------------------------------------------------------------------------

Init ==
  /\ opts \in Options
  /\ mockIndex = 0
  /\ activeCtx = NoChat
  /\ stack = << >>
  /\ called = << >>
  /\ served = [c \in Chats |-> << >>]
  /\ chat = [c \in Chats |-> NewChat]

Next ==
  \/ \E c \in Chats : Chat(c)
  \/ Return
  \/ Cancel
  \/ \E c \in Chats, payload \in Contents \cup {Garbage} : Stream(c, payload)
  \/ \E c \in Chats : Fail(c)
  \/ \E c \in Chats : Complete(c)

Spec == Init /\ [][Next]_vars

-----------------------------------------------------------------------------
(* Properties                                                              *)

Parsed(payloads) ==
  LET upTo[n \in 0 .. Len(payloads)] ==
        IF n = 0 THEN << >>
        ELSE IF payloads[n] = Garbage THEN upTo[n - 1]
        ELSE Append(upTo[n - 1], payloads[n])
  IN  upTo[Len(payloads)]

(* Conversations do not mix: with several streams in flight, some of them  *)
(* cancelled or replaced as activeCtx_, every chat hears the deltas its    *)
(* own server sent, in their order, and its answer is made of these.       *)
OwnDeltasOnly ==
  (opts.mock = << >> /\ opts.stream) =>
    \A c \in Chats :
      /\ chat[c].heard = Parsed(served[c])
      /\ chat[c].result = "ok" => chat[c].content = Parsed(served[c])

(* "one per chat()": the n-th call of chat() gets the n-th mock response,  *)
(* also when it is made inside the callback of the call before, and none   *)
(* gets a response twice.                                                  *)
MockInOrder ==
  opts.mock # << >> =>
    \A n \in DOMAIN called :
      LET x == chat[called[n]]
      IN  IF n > Len(opts.mock) THEN x.result = "exhausted"
          ELSE IF opts.mock[n] = Garbage THEN x.result = "unparsable"
          ELSE x.result = "ok" /\ x.content = << opts.mock[n] >>

(* A chat is answered once, and hears nothing more once it is: neither     *)
(* nested calls nor requests that go on after cancel() disturb an answer.  *)
AnsweredOnce ==
  [][\A c \in Chats : chat[c].result # "none" =>
        [chat'[c] EXCEPT !.state = ""] = [chat[c] EXCEPT !.state = ""]]_vars

(* A base address leads to one endpoint whether it is given with or        *)
(* without slashes at its end and with or without /v1; and an endpoint     *)
(* that was resolved is left alone when it is given in its turn.  The      *)
(* first is not claimed of an address that mentions completions anywhere,  *)
(* in its host or its path: that one is used as it is, so that a slash     *)
(* more is another endpoint, and a base address on such a host gets no     *)
(* path at all.                                                            *)
EndpointStable ==
  LET url == opts.url
      base == StripTrailingSlash(url)
      endpoint == ResolveUrl(url)
  IN  /\ ResolveUrl(endpoint) = endpoint
      /\ url # << NoSegment >> /\ ~ MentionsCompletions(url) =>
           /\ ResolveUrl(Append(url, NoSegment)) = endpoint
           /\ EndsWithV1(base) \/ ResolveUrl(Append(base, "v1")) = endpoint
=============================================================================

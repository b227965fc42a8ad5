---------------------------- MODULE ModelProviders ----------------------------
(***************************************************************************)
(* Model providers (core/models): which ones there are, what a call of one *)
(* needs before it is made, and the tool proposals that are read from its  *)
(* reply.                                                                  *)
(*                                                                         *)
(* A reply is a sequence of blocks, texts and tool calls, whatever the     *)
(* protocol calls them.  Of a tool call its name is told apart, the form   *)
(* its arguments come in, and whether they say that it mutates state and   *)
(* hold a secret.                                                          *)
(***************************************************************************)
EXTENDS SequencesExt

CONSTANTS
  Replies,   \* what a live provider may answer
  Outage     \* the network fails, or the answer is no JSON

Forms == {"object", "json text", "garbled"}

\* The packaged configurations of the providers.
Protocol == [mock |-> "mock", openai |-> "responses", anthropic |-> "messages",
             ollama |-> "responses", vllm |-> "chat_completions"]
ApiKey == [openai |-> "CENTROID_OPENAI_API_KEY", anthropic |-> "CENTROID_ANTHROPIC_API_KEY",
           vllm |-> "CENTROID_VLLM_API_KEY"]

\* "ready" holds the option --live, the keys in the environment and the
\* packages that are installed.
LiveReady(provider, ready) ==
  "live" \in ready /\ (provider \in DOMAIN ApiKey => ApiKey[provider] \in ready)

\* How a call ends: "refused" is a ProviderConfigurationError, "failed" any other.
End(how, proposals) == [end |-> how, proposals |-> proposals]
Refused == End("refused", <<>>)
Failed == End("failed", <<>>)

Proposal(action, mutates, secret) == [action |-> action, mutates |-> mutates, secret |-> secret]

\* What does not say whether it mutates state is taken to.
Proposed(calls) == [i \in DOMAIN calls |-> Proposal(calls[i].tool, calls[i].mutates # "no", calls[i].secret)]

ToolCalls(reply) == SelectSeq(reply, LAMBDA b : b.tool # "none")

Normalized(reply, forms) ==
  LET calls == ToolCalls(reply)
  IN  IF \E i \in DOMAIN calls : calls[i].form \notin forms
      THEN Failed ELSE End("returned", Proposed(calls))

\* A text is parsed, except by the last, for which it is an error.
NormalizeResponses(reply) == Normalized(reply, {"object", "json text"})
NormalizeChatCompletions(reply) == Normalized(reply, {"object", "json text"})
NormalizeMessages(reply) == Normalized(reply, {"object"})

OpenAI(ready, reply) ==
  IF "openai" \notin ready THEN Refused
  ELSE IF reply = Outage THEN Failed ELSE NormalizeResponses(reply)

Anthropic(ready, reply) ==
  IF "anthropic" \notin ready THEN Refused
  ELSE IF reply = Outage THEN Failed ELSE NormalizeMessages(reply)

\* Both providers of this kind have a base URL of their own.
OpenAICompatible(provider, reply) ==
  IF reply = Outage THEN Failed
  ELSE IF Protocol[provider] = "responses" THEN NormalizeResponses(reply)
  ELSE NormalizeChatCompletions(reply)

Mock(scenario) ==
  End("returned", IF scenario \in {"tool-proposal", "operations-observer", "safety-gate"}
                  THEN <<Proposal("restart_service", TRUE, FALSE)>> ELSE <<>>)

Generate(provider, ready, scenario, reply) ==
  CASE provider \notin DOMAIN Protocol -> Refused
    [] provider = "mock" -> Mock(scenario)
    [] provider \in {"openai", "anthropic", "ollama", "vllm"} ->
         IF ~LiveReady(provider, ready) THEN Refused
         ELSE IF provider = "openai" THEN OpenAI(ready, reply)
         ELSE IF provider = "anthropic" THEN Anthropic(ready, reply)
         ELSE OpenAICompatible(provider, reply)
=============================================================================

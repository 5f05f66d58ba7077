------------------------------ MODULE Adapters ------------------------------
(***************************************************************************)
(* The adapters of the providers of models                                 *)
(* (llm/byok/implementations.py) and what they share                       *)
(* (llm/byok/adapters.py): what they make of an answer when they chat and  *)
(* when they verify a key.                                                 *)
(*                                                                         *)
(* The bodies of requests (of system messages Anthropic is sent the last,  *)
(* Google none), the counts of tokens and the lists of models are left     *)
(* out: no one decides on them.                                            *)
(***************************************************************************)
EXTENDS Naturals, Sequences

\* refused: the status that a verification takes for a refused key (0: none);
\* listStream: stream returns a list; mapped: errors go through _handle_error;
\* url: there is a default address.
AdOpenAI     == [refused |-> 401, listStream |-> TRUE, mapped |-> TRUE, url |-> TRUE]
AdAnthropic  == [refused |-> 401, listStream |-> FALSE, mapped |-> TRUE, url |-> TRUE]
AdGoogle     == [refused |-> 403, listStream |-> FALSE, mapped |-> TRUE, url |-> TRUE]
AdGroq       == [refused |-> 401, listStream |-> FALSE, mapped |-> TRUE, url |-> TRUE]
AdOpenRouter == [refused |-> 401, listStream |-> FALSE, mapped |-> TRUE, url |-> TRUE]
AdTogether   == [refused |-> 401, listStream |-> FALSE, mapped |-> TRUE, url |-> TRUE]
AdDeepSeek   == [refused |-> 401, listStream |-> FALSE, mapped |-> TRUE, url |-> TRUE]
AdMistral    == [refused |-> 401, listStream |-> FALSE, mapped |-> TRUE, url |-> TRUE]
AdXAI        == [refused |-> 401, listStream |-> FALSE, mapped |-> TRUE, url |-> TRUE]
AdOllama     == [refused |-> 0, listStream |-> TRUE, mapped |-> FALSE, url |-> FALSE]

\* The registry that the adapters register themselves with.
AdAdapter ==
  [openai |-> AdOpenAI, anthropic |-> AdAnthropic, google |-> AdGoogle, groq |-> AdGroq, openrouter |-> AdOpenRouter,
   together |-> AdTogether, deepseek |-> AdDeepSeek, mistral |-> AdMistral, xai |-> AdXAI, ollama |-> AdOllama]

\* Answers that are not 200; and none: a timeout, or a body that cannot be read.
AdNoAnswer == [status |-> 0, type |-> "other", quota |-> FALSE]

AdRefusals ==
  [status : {400, 401, 403, 429, 500}, type : {"invalid", "expired", "other"}, quota : BOOLEAN] \cup {AdNoAnswer}

\* _handle_error: the exception that an answer becomes.
AdMapped(answer) ==
  IF answer.status = 401 \/ answer.type = "invalid" THEN "invalid_api_key"
  ELSE IF answer.status = 403 \/ answer.type = "expired" THEN "expired_api_key"
  ELSE IF answer.status = 429 THEN "rate_limit"
  ELSE IF answer.status >= 500 THEN "provider_offline"
  ELSE IF answer.quota THEN "quota_exceeded"
  ELSE "provider_error"

AdErrorOf(adapter, answer) ==
  CASE answer = AdNoAnswer -> "failed"
    [] answer # AdNoAnswer /\ adapter.mapped -> AdMapped(answer)
    [] OTHER -> "provider_error"

\* verify_key: the error code that it finds.
AdVerdict(adapter, answer) ==
  IF answer.status = adapter.refused /\ answer # AdNoAnswer THEN "invalid_api_key" ELSE "none"
=============================================================================

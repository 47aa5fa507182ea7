------------------------------ MODULE LLMFailure ------------------------------
(***************************************************************************)
(* How the failure of a provider becomes an error of LLM client            *)
(* (src/lib/llm-client.js) and the error a failure class                   *)
(* (src/lib/llm-classifier.js).                                            *)
(*                                                                         *)
(* An error is its chain of causes, outermost first.  Of a text, a message *)
(* or a response body, only the classifier's patterns it matches are kept, *)
(* and the status code a message quotes.                                   *)
(***************************************************************************)
EXTENDS Naturals, Sequences, FiniteSetsExt

CONSTANTS
  HttpStatus,  \* the error statuses to consider
  BodyText     \* the response bodies, each the set of patterns it matches

ASSUME FailureAssumption == HttpStatus \subseteq 400 .. 599

NoStatus == 0
NoBody == {"no_body"}

NetworkKind ==
  {"no_key", "refused", "reset", "timed_out", "connect_timeout", "aborted"}

Failure ==
  [kind : NetworkKind \cup {"not_JSON"}, status : {NoStatus}, says : {{}}]
    \cup [kind : {"http"}, status : HttpStatus, says : BodyText]

\* Only callOpenAICompatible sets a timeout that aborts the request.
FailureOf(provider) ==
  {f \in Failure : f.kind = "aborted" => provider = "openai-compatible"}

-----------------------------------------------------------------------------
(* llm-client.js                                                           *)

PlainError ==
  [code |-> "none", isAbort |-> FALSE, isSyntax |-> FALSE, status |-> NoStatus,
   body |-> NoBody, says |-> {}, saysStatus |-> NoStatus]

\* What fetch rejects with: undici's TypeError "fetch failed" and its cause.
\* An abort is not wrapped.
fetchRejection(f) ==
  LET caused(code, words) ==
        <<PlainError, [PlainError EXCEPT !.code = code, !.says = words]>>
  IN  CASE f.kind = "refused" -> caused("ECONNREFUSED", {"ECONNREFUSED"})
        [] f.kind = "reset" -> caused("ECONNRESET", {})
        [] f.kind = "timed_out" -> caused("ETIMEDOUT", {})
        [] f.kind = "connect_timeout" ->
             caused("UND_ERR_CONNECT_TIMEOUT", {"timeout"})
        [] f.kind = "aborted" -> <<[PlainError EXCEPT !.isAbort = TRUE]>>

syntaxError == [PlainError EXCEPT !.isSyntax = TRUE, !.says = {"JSON"}]

callAnthropic(f) ==
  CASE f.kind = "http" ->
         <<[PlainError EXCEPT !.says = f.says, !.saysStatus = f.status]>>
    [] f.kind = "not_JSON" -> <<syntaxError>>
    [] OTHER -> fetchRejection(f)

callOpenAICompatible(f) ==
  CASE f.kind = "http" ->
         <<[PlainError EXCEPT !.status = f.status, !.body = f.says,
                              !.says = f.says, !.saysStatus = f.status]>>
    [] f.kind = "not_JSON" ->
         <<[PlainError EXCEPT !.status = 200, !.says = {"JSON"}], syntaxError>>
    [] OTHER -> <<PlainError>> \o fetchRejection(f)

\* The error chat() throws: LLMUnavailableError, or an LLMCallError that
\* repeats the message of its cause.
chatError(provider, f) ==
  IF f.kind = "no_key" THEN <<PlainError>>
  ELSE LET cause == IF provider = "anthropic" THEN callAnthropic(f)
                    ELSE callOpenAICompatible(f)
       IN  <<[PlainError EXCEPT !.says = cause[1].says,
                                !.saysStatus = cause[1].saysStatus]>> \o cause

-----------------------------------------------------------------------------
(* llm-classifier.js                                                       *)

\* The first of err and its cause that has the field, or the default.
FirstOfTwo(err, field, none, default) ==
  CASE err[1][field] # none -> err[1][field]
    [] err[1][field] = none /\ Len(err) > 1 /\ err[2][field] # none ->
         err[2][field]
    [] OTHER -> default

readStatus(err) == FirstOfTwo(err, "status", NoStatus, err[1].saysStatus)
readBody(err) == FirstOfTwo(err, "body", NoBody, err[1].says)

\* mutant: the causes are not looked at
readOwnCode(err) == err[1].code

\* The codes that match ^E[A-Z]+$; those of undici do not.
readSyscallCode(err) ==
  LET coded == {i \in DOMAIN err :
                  err[i].code \in {"ECONNREFUSED", "ECONNRESET", "ETIMEDOUT"}}
  IN  IF coded = {} THEN "none" ELSE err[Min(coded)].code

isAbortError(err) == \E i \in DOMAIN err : err[i].isAbort
isSyntaxError(err) == \E i \in DOMAIN err : err[i].isSyntax

\* mutant: 4xx counts as a server error
Is4xxOr5xx(status) == status \in 400 .. 599

Is5xx(status) == status \in 500 .. 599

\* The rules in the order of their precedence.
Rules(err) ==
  LET syscall == readSyscallCode(err)
      message == err[1].says
      status == readStatus(err)
      body == readBody(err)
  IN  << <<"connection_refused",
            syscall = "ECONNREFUSED" \/ "ECONNREFUSED" \in message>>,
         <<"connection_timeout",
            \/ syscall \in {"ETIMEDOUT", "UND_ERR_CONNECT_TIMEOUT"}
            \/ isAbortError(err) \/ "timeout" \in message>>,
         <<"model_not_loaded", status = 503 /\ "not_loaded" \in body>>,
         <<"http_503", status = 503>>,
         <<"http_429", status = 429>>,
         <<"model_not_loaded", "not_loaded" \in body>>,
         <<"http_5xx", Is5xx(status)>>,
         <<"context_length_exceeded", "context_length" \in body>>,
         <<"content_filter_triggered", "content_filter" \in body>>,
         <<"parse_error", isSyntaxError(err) \/ "JSON" \in message>>,
         <<"http_4xx", status \in 400 .. 499>> >>

classifyLLMFailure(err) ==
  LET matches == {i \in DOMAIN Rules(err) : Rules(err)[i][2]}
  IN  IF matches = {} THEN "unknown" ELSE Rules(err)[Min(matches)][1]

\* D4 and D5: the classes returned with fallback_eligible true and false.
EligibleClass ==
  {"connection_refused", "connection_timeout", "http_5xx", "http_503",
   "http_429", "model_not_loaded"}

ClosedClass ==
  {"http_4xx", "parse_error", "context_length_exceeded",
   "content_filter_triggered", "unknown"}

=============================================================================

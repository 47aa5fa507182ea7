------------------------------- MODULE ToolCall -------------------------------
(***************************************************************************)
(* What the replies of the live loop to tool calls carry: the payloads of  *)
(* src/lib/tool-errors.js and of the fallback handler that createOrgan     *)
(* registers (src/lib/tool-fallback-handler.js), their way through JSON to *)
(* the requester, and the check they meet there                            *)
(* (src/lib/tool-response-schema.js).                                      *)
(*                                                                         *)
(* A JavaScript value is one of the kinds that the code tells apart.  The  *)
(* object in the field error is flattened into error.code, error.message.  *)
(***************************************************************************)
EXTENDS LiveLoop

CONSTANT Tool     \* the kind of payload.tool of each message

Value == {"undefined", "null", "empty", "text", "negative", "number", "not_finite",
          "object", "array"}

ASSUME ToolAssumption == Tool \in [Message -> Value]

IsString(v) == v \in {"empty", "text"}
IsNumber(v) == v \in {"negative", "number", "not_finite"}

TOOL_STATUS == {"SUCCESS", "NOT_IMPLEMENTED", "TOOL_NOT_FOUND", "TOOL_ERROR",
                "TOOL_TIMEOUT", "ORGAN_DEGRADED"}
SCHEMA_VERSION == "1.0"

-----------------------------------------------------------------------------
(* tool-errors.js.                                                         *)

Common(status_, tool) ==
  [event_type |-> "tool_call_response", schema_version |-> SCHEMA_VERSION,
   status |-> status_, tool |-> tool]

\* The payload with that field.
With(payload, field, value) ==
  [f \in DOMAIN payload \cup {field} |-> IF f = field THEN value ELSE payload[f]]

WithMeta(payload, meta) ==
  IF meta = "undefined" THEN payload ELSE With(payload, "meta", meta)

success(tool, data, meta) ==
  WithMeta(With(Common("SUCCESS", tool), "data", data), meta)

\* The reason is a sentence with the organ's name in it.
notImplemented(tool) == With(Common("NOT_IMPLEMENTED", tool), "reason", "text")
toolNotFound(tool) == With(Common("TOOL_NOT_FOUND", tool), "reason", "text")

toolError(tool, code, message, meta) ==
  WithMeta(With(With(Common("TOOL_ERROR", tool), "error.code", code),
                "error.message", message), meta)

toolTimeout(tool, elapsedMs, limitMs) ==
  With(With(Common("TOOL_TIMEOUT", tool), "elapsed_ms", elapsedMs), "limit_ms", limitMs)

organDegraded(tool, checksStatus) ==
  With(Common("ORGAN_DEGRADED", tool), "checks_status", checksStatus)

\* Whatever a tool method and its caller put in; tool names are strings.
Constructed ==
  UNION {{success(tool, v, w), toolError(tool, v, w, "undefined"),
          toolError(tool, "text", v, w), toolTimeout(tool, v, w),
          organDegraded(tool, v), notImplemented(tool), toolNotFound(tool)}
           : tool \in {"empty", "text"}, v \in Value, w \in Value}

-----------------------------------------------------------------------------
(* tool-fallback-handler.js.                                               *)

\* mutant: an empty name counts as one
AnyString(tool) == IF IsString(tool) THEN tool ELSE "text"

\* "unknown" where there is no name.
extractTool(tool) == IF tool = "text" THEN tool ELSE "text"

toolFallbackHandler(tool) == notImplemented(extractTool(tool))

-----------------------------------------------------------------------------
\* JSON.stringify in spine.send: a field that is undefined is left out, a
\* number that is not finite is null.
Wire(payload) ==
  [f \in {g \in DOMAIN payload : payload[g] # "undefined"} |->
     IF payload[f] = "not_finite" THEN "null" ELSE payload[f]]

-----------------------------------------------------------------------------
(* tool-response-schema.js.                                                *)

ErrorFields == {"error.code", "error.message"}

ALLOWED_KEYS ==
  {"event_type", "schema_version", "status", "tool", "data", "reason",
   "elapsed_ms", "limit_ms", "checks_status", "meta"} \cup ErrorFields

Field(payload, f) == IF f \in DOMAIN payload THEN payload[f] ELSE "undefined"

IsElapsed(v) == IsNumber(v) /\ v # "negative"

ConditionalFields(payload) ==
  LET v(f) == Field(payload, f) IN
    CASE payload.status = "SUCCESS" -> "data" \in DOMAIN payload
      [] payload.status \in {"NOT_IMPLEMENTED", "TOOL_NOT_FOUND"} -> v("reason") = "text"
      [] payload.status = "TOOL_ERROR" ->
           v("error.code") = "text" /\ IsString(v("error.message"))
      [] payload.status = "TOOL_TIMEOUT" ->
           IsElapsed(v("elapsed_ms")) /\ IsElapsed(v("limit_ms"))
      [] payload.status = "ORGAN_DEGRADED" -> v("checks_status") = "text"

validateToolResponse(payload) ==
  /\ DOMAIN payload \subseteq ALLOWED_KEYS
  /\ Field(payload, "event_type") = "tool_call_response"
  /\ Field(payload, "schema_version") = SCHEMA_VERSION
  /\ Field(payload, "tool") = "text"
  /\ Field(payload, "status") \in TOOL_STATUS
  /\ ConditionalFields(payload)
  /\ "meta" \in DOMAIN payload => payload.meta = "object"

\* The JSON schema for everybody else: types, but no conditions.
TOOL_RESPONSE_SCHEMA(payload) ==
  LET Typed(f, S) == f \in DOMAIN payload => payload[f] \in S IN
    /\ {"event_type", "schema_version", "status", "tool"} \subseteq DOMAIN payload
    /\ DOMAIN payload \subseteq ALLOWED_KEYS
    /\ payload.status \in TOOL_STATUS
    /\ Typed("tool", {"text"}) /\ Typed("error.code", {"text"})
    /\ \A f \in {"reason", "error.message", "checks_status"} : Typed(f, {"empty", "text"})
    /\ Typed("elapsed_ms", {"number"}) /\ Typed("limit_ms", {"number"})
    /\ Typed("meta", {"object"})

\* What JSON cannot carry: a tool that returns nothing, a time that is no time.
Lossy(payload) ==
  \/ Field(payload, "data") = "undefined" /\ payload.status = "SUCCESS"
  \/ \E f \in {"elapsed_ms", "limit_ms"} : Field(payload, f) = "not_finite"

Travels ==
  \A payload \in Constructed :
    validateToolResponse(payload) /\ ~Lossy(payload) =>
      validateToolResponse(Wire(payload)) /\ TOOL_RESPONSE_SCHEMA(Wire(payload))

\* The requester finds valid, and the schema allows, what the organ that built
\* it would have found valid, unless JSON cannot carry it; the fallback's reply
\* is always valid, however malformed the request ("still emits a well-formed
\* response", tool-fallback-handler.js:28).
ToolRepliesValid ==
  \A r \in replies : isHandledToolCall(r.to) =>
    /\ validateToolResponse(Wire(toolFallbackHandler(Tool[r.to])))
    /\ Travels

=============================================================================

--------------------------- MODULE ErrorSemantics ---------------------------
(***************************************************************************)
(* What the gateway makes of an error its upstream reports: the class of   *)
(* failure the account is settled with, how long the account is blocked    *)
(* for, and whether the caller is told of the error or only that no         *)
(* account is available.                                                   *)
(*                                                                         *)
(* One error may arrive in many ways (the carrier of a report): as an HTTP *)
(* answer, as an answer of the token endpoint ("refresh"), as a             *)
(* response.failed event, as an error event with its fields at the top      *)
(* ("flat") or in an error object ("wrapped", on a stream and on the         *)
(* websocket), as a close frame, or as a transport that broke.  Texts are    *)
(* known by the hint the code looks for in them.                           *)
(***************************************************************************)
EXTENDS Integers

None   == "none"
Absent == -1

\* The answers of an HTTP server, and the events of a stream.
Answers == {"http", "refresh"}
Events  == {"failed", "flat", "wrapped"}

\* FailureClass
Classes == {"access_token_rejected", "auth_invalid", "rate_limited", "quota_exhausted",
            "risk_controlled", "temporary_failure", "request_rejected", "internal_failure"}

\* What the code recognises in a text: "rate limit"; "quota" or "usage cap";
\* "credits" or "limit reached"; a risk control's "unusual activity", "arkose" or
\* "turnstile"; "unauthorized"; or an invalid refresh token.
Hints == {"rate_limit", "quota", "credits", "risk", "unauthorized", "refresh_token"}

\* Only for the codes and types whose own text has a hint.
Mentions(word) ==
  IF word \in {"quota_exceeded", "insufficient_quota"} THEN {"quota"} ELSE {}

-----------------------------------------------------------------------------
(* The class of a failure *)

TypeClass == [usage_limit_reached |-> "quota_exhausted",
              usage_not_included  |-> "request_rejected"]

CodeClass == [rate_limit_exceeded                |-> "rate_limited",
              insufficient_quota                 |-> "quota_exhausted",
              websocket_connection_limit_reached |-> "temporary_failure",
              server_is_overloaded               |-> "temporary_failure",
              slow_down                          |-> "temporary_failure",
              invalid_prompt                     |-> "request_rejected",
              context_length_exceeded            |-> "request_rejected"]

\* classify_structured_error
Structured(code, type) ==
  IF type \in DOMAIN TypeClass THEN TypeClass[type]
  ELSE IF code \in DOMAIN CodeClass THEN CodeClass[code]
  ELSE None

\* classify_http_from_status_and_text
FromStatusAndText(status, text) ==
  IF status = 403 /\ "risk" \in text THEN "risk_controlled"
  ELSE IF status = 429 \/ "rate_limit" \in text THEN "rate_limited"
  ELSE IF {"quota", "credits"} \cap text # {} THEN "quota_exhausted"
  ELSE IF status = 403 \/ status \in 500..599 THEN "temporary_failure"
  ELSE "request_rejected"

\* Mutant of ClassifyError: the status counts for more than the code.
ClassifyErrorByStatus(status, code, type, text, unauthorized) ==
  IF status = 401 THEN unauthorized
  ELSE IF status \in 500..599 THEN "temporary_failure"
  ELSE IF Structured(code, type) # None THEN Structured(code, type)
  ELSE FromStatusAndText(status, text)

\* classify_error
ClassifyError(status, code, type, text, unauthorized) ==
  IF status = 401 THEN unauthorized
  ELSE IF Structured(code, type) # None THEN Structured(code, type)
  ELSE FromStatusAndText(status, text)

\* Mutant of InferStatus: the type of a server's error is not in the table.
InferStatusForgets(code, type, text) ==
  IF code = "invalid_api_key" \/ type = "authentication_error" THEN 401
  ELSE IF code = "forbidden" \/ type = "permission_error" THEN 403
  ELSE IF \/ type \in {"usage_limit_reached", "rate_limit_error"}
          \/ code = "rate_limit_exceeded" THEN 429
  ELSE IF code = "insufficient_quota" THEN 403
  ELSE IF code \in {"server_is_overloaded", "slow_down", "internal_server_error"} THEN 503
  ELSE IF code \in {"invalid_prompt", "context_length_exceeded"} THEN 400
  ELSE IF "unauthorized" \in text THEN 401
  ELSE IF "risk" \in text THEN 403
  ELSE 400

\* infer_response_error_status: an event has no status of its own.
InferStatus(code, type, text) ==
  IF code = "invalid_api_key" \/ type = "authentication_error" THEN 401
  ELSE IF code = "forbidden" \/ type = "permission_error" THEN 403
  ELSE IF \/ type \in {"usage_limit_reached", "rate_limit_error"}
          \/ code = "rate_limit_exceeded" THEN 429
  ELSE IF code = "insufficient_quota" THEN 403
  ELSE IF \/ code \in {"server_is_overloaded", "slow_down", "internal_server_error"}
          \/ type = "server_error" THEN 503
  ELSE IF code \in {"invalid_prompt", "context_length_exceeded"} THEN 400
  ELSE IF "unauthorized" \in text THEN 401
  ELSE IF "risk" \in text THEN 403
  ELSE 400

\* A flat error event's type is that of the event.
TypeIn(r) == IF r.carrier = "flat" THEN "error" ELSE r.type

\* wrapped_error_status, or the status inferred
StatusOf(r) ==
  IF r.carrier \in Answers \/ (r.carrier = "wrapped" /\ r.status # Absent)
  THEN r.status
  ELSE InferStatus(r.code, TypeIn(r), r.says)

\* The whole body of an answer is searched, but only the message of an event.
TextOf(r) ==
  IF r.carrier \in Answers THEN r.says \cup Mentions(r.code) \cup Mentions(r.type)
  ELSE r.says

\* classify_websocket_close_reason, for a turn that is under way
CloseClass(text) ==
  IF "risk" \in text THEN "risk_controlled"
  ELSE IF "rate_limit" \in text THEN "rate_limited"
  ELSE IF "quota" \in text THEN "quota_exhausted"
  ELSE "temporary_failure"

\* analyze_refresh_http: a rejected exchange whose answer names the token.
RefreshClass(r) ==
  LET class == ClassifyError(r.status, r.code, r.type, TextOf(r), "auth_invalid")
  IN  IF class = "request_rejected" /\ "refresh_token" \in TextOf(r)
      THEN "auth_invalid" ELSE class

\* classify_request_error, classify_response_failed_event, classify_openai_error_event
\* and classify_wrapped_error_event
ClassOf(r) ==
  CASE r.carrier = "transport" -> IF r.code = "build" THEN "internal_failure"
                                  ELSE "temporary_failure"
    [] r.carrier = "close"     -> CloseClass(r.says)
    [] r.carrier = "refresh"   -> RefreshClass(r)
    [] OTHER -> ClassifyError(StatusOf(r), r.code, TypeIn(r), TextOf(r),
                              "access_token_rejected")

-----------------------------------------------------------------------------
(* How long the account is blocked for *)

\* retry-after, of an answer or in a wrapped event
HeaderOf(r) == IF r.carrier \in Answers \cup {"wrapped"} THEN r.header ELSE Absent

\* The retry_after of analyze_error: parse_retry_after_header,
\* parse_resets_retry_after_payload (times are counted from now) and
\* parse_retry_after_message ("try again in").
DelayOf(r) ==
  IF r.carrier \notin Answers \cup Events THEN Absent
  ELSE IF HeaderOf(r) # Absent THEN HeaderOf(r)
  ELSE IF r.resetsAt > 0 THEN r.resetsAt
  ELSE IF r.resetsIn > 0 THEN r.resetsIn
  ELSE r.again

-----------------------------------------------------------------------------
(* What becomes of the request *)

\* Mutant of FailsOver: an exhausted quota is told at once.
FailsOverNotQuota(class) ==
  class \in {"access_token_rejected", "auth_invalid", "rate_limited",
             "risk_controlled", "temporary_failure"}

\* should_failover_failure_class
FailsOver(class) ==
  class \in {"access_token_rejected", "auth_invalid", "rate_limited",
             "quota_exhausted", "risk_controlled", "temporary_failure"}

\* should_retry_request_error under the policy of UpstreamClient::new: the same
\* account is sent the request again.
WorthAnother(r) ==
  \/ /\ r.carrier = "http" /\ r.status \in 500..599
     /\ ClassOf(r) \in {"temporary_failure", "internal_failure"}
  \/ r.carrier = "transport" /\ r.code \in {"timeout", "network"}

\* Mutant of Unavailability: a 403 is told like any other status.
UnavailabilityByClass(status, class) == class # "request_rejected"

\* downstream_failure_kind_from_status: the caller is told that the gateway has
\* no account.  Absent is the status of what has none.
Unavailability(status, class) == status = 403 \/ class # "request_rejected"

\* fallback_error_code_for_http, by class and status
FallbackCode(class, status) ==
  CASE class \in {"access_token_rejected", "auth_invalid"} -> "invalid_api_key"
    [] class = "rate_limited"    -> "rate_limit_exceeded"
    [] class = "quota_exhausted" -> "insufficient_quota"
    [] class = "risk_controlled" -> "forbidden"
    [] OTHER ->
         CASE class = "request_rejected" /\ status = 400 -> "invalid_request_error"
           [] class = "request_rejected" /\ status = 403 -> "forbidden"
           [] class = "request_rejected" /\ status = 404 -> "not_found"
           [] class = "request_rejected" /\ status = 409 -> "conflict"
           [] status = 408        -> "request_timeout"
           [] status \in 500..599 -> "internal_server_error"
           [] OTHER               -> "http_error"

OpenAiTypes == {"authentication_error", "permission_error", "rate_limit_error",
                "server_error", "invalid_request_error"}

\* default_openai_error_type
DefaultType(status, code) ==
  IF status = 401 \/ code = "invalid_api_key" THEN "authentication_error"
  ELSE IF status = 403 \/ code \in {"insufficient_quota", "forbidden"}
       THEN "permission_error"
  ELSE IF status = 429 THEN "rate_limit_error"
  ELSE IF status \in 500..599 THEN "server_error"
  ELSE "invalid_request_error"

\* normalize_openai_error_type
NormalType(type, status, code) ==
  IF type \in OpenAiTypes THEN type ELSE DefaultType(status, code)
=============================================================================

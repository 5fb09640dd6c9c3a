--------------------------- MODULE MCFailurePaths ---------------------------
(* A small instance of FailurePaths for TLC. *)
EXTENDS FailurePaths

Codes == {None, "rate_limit_exceeded", "insufficient_quota", "server_is_overloaded",
          "websocket_connection_limit_reached", "invalid_prompt", "invalid_api_key",
          "forbidden", "internal_server_error", "quota_exceeded"}

Types == OpenAiTypes \cup {None, "usage_limit_reached", "usage_not_included",
                          "insufficient_quota"}

Statuses == {400, 401, 403, 404, 429, 502, 503}

\* Every code with every type, every hint where it can count, and every mixture of
\* delays: the times tell which field a delay is taken from.
Errors ==
  [code : Codes, type : Types, says : {{}}, header : {Absent}, resetsAt : {Absent},
   resetsIn : {Absent}, again : {Absent}]
  \cup [code : {None, "quota_exceeded"} \cup Placed, type : {None, "invalid_request_error"},
        says : {{h} : h \in Hints}, header : {Absent}, resetsAt : {Absent},
        resetsIn : {Absent}, again : {Absent}]
  \cup [code : {None, "rate_limit_exceeded", "invalid_prompt"}, type : {None},
        says : {{}}, header : {Absent, 1}, resetsAt : {Absent, -2, 2},
        resetsIn : {Absent, 0, 3}, again : {Absent, 4}]

Carried(e, c, status) ==
  [carrier |-> c, status |-> status, code |-> e.code, type |-> e.type, says |-> e.says,
   header |-> e.header, resetsAt |-> e.resetsAt, resetsIn |-> e.resetsIn,
   again |-> e.again]

Bare(c, code, says) ==
  Carried([code |-> code, type |-> None, says |-> says, header |-> Absent,
           resetsAt |-> Absent, resetsIn |-> Absent, again |-> Absent], c, Absent)

SmallReports ==
  {Carried(e, c, s) : e \in Errors, c \in Answers, s \in Statuses}
  \cup {Carried(e, "wrapped", s) : e \in Errors, s \in Statuses \cup {Absent}}
  \cup {Carried(e, c, Absent) : e \in Errors, c \in {"failed", "flat"}}
  \cup {Bare("close", None, says) : says \in {{}} \cup {{h} : h \in Hints}}
  \cup {Bare("transport", kind, {}) : kind \in {"timeout", "network", "retry_limit", "build"}}
=============================================================================

---------------------------- MODULE FailurePaths ----------------------------
(***************************************************************************)
(* One request and the errors it meets on its way: what each means for the *)
(* account that met it, whether another account is tried, and what the      *)
(* caller is told, on every surface of the gateway.                        *)
(*                                                                         *)
(* The pool is left as a number of accounts: which is selected, and when a   *)
(* block ends, is AccountPool's; the replay of a websocket request is         *)
(* WebsocketProxy's and the bytes of a stream are ResponseStream's.          *)
(* Successes end the model's interest in the request.                      *)
(***************************************************************************)
EXTENDS ErrorSemantics

CONSTANTS
  Reports,      \* the errors the upstream may report
  MaxAccounts,  \* candidates when the request comes in
  MaxRetries    \* RetryConfig.max_attempts

Report == [carrier : Answers \cup Events \cup {"close", "transport"},
           status : {Absent} \cup 100..599, code : STRING, type : STRING,
           says : SUBSET Hints, header : Nat \cup {Absent}, resetsAt : Int,
           resetsIn : Int, again : Nat \cup {Absent}]

\* An answer has a status, only a wrapped event may have one as well, and a broken
\* transport is known by its kind.
ASSUME PathsAssumption ==
  /\ \A r \in Reports :
       /\ r \in Report
       /\ r.carrier \in Answers => r.status # Absent
       /\ r.status # Absent => r.carrier \in Answers \cup {"wrapped"}
       /\ r.carrier = "transport" => r.code \in {"timeout", "network", "retry_limit", "build"}
       /\ r.carrier \notin Answers \cup Events => r.type = None
       /\ r.carrier \in Answers \cup Events => r.type # "error"
  /\ MaxAccounts \in Nat \ {0} /\ MaxRetries \in Nat

VARIABLES
  surface,    \* how the request was made, and in which shape it is answered
  phase,      \* "asking" an account, its "stream" is open, a request on the
              \* websocket is "pending" or "committed", or the replay is "reasking"
  left,       \* candidates, the account being asked included
  refreshed,  \* forced_refresh_attempted has this account
  attempt,    \* of execute_with_semantic_retry
  sends,      \* how often this account was sent the request and refused it
  report,     \* the error met last, or NoReport
  settled,    \* what it means for the account that met it, or NotSettled
  answer      \* what the caller is told, or NoAnswer

vars == <<surface, phase, left, refreshed, attempt, sends, report, settled, answer>>

Surfaces == [shape : {"codex", "openai"}, kind : {"unary", "stream", "websocket"}]

NoReport == [carrier |-> None]

NotSettled == [class |-> None, delay |-> Absent]

NoAnswer == [status |-> 0, code |-> None, type |-> None, shows |-> {}]

TypeOK ==
  /\ surface \in Surfaces
  /\ phase \in {"asking", "stream", "pending", "committed", "reasking"}
  /\ left \in 1..MaxAccounts
  /\ refreshed \in BOOLEAN
  /\ attempt \in 0..MaxRetries /\ sends \in Nat
  /\ report \in Report \cup {NoReport}
  /\ settled \in [class : Classes \cup {None}, delay : Nat \cup {Absent}]
  /\ answer \in [status : {Absent, 0} \cup 100..599, code : STRING, type : STRING,
                 shows : SUBSET {"header", "resets"}]

Init ==
  /\ surface \in Surfaces
  /\ phase = "asking" /\ left = MaxAccounts /\ refreshed = FALSE
  /\ attempt = 0 /\ sends = 0
  /\ report = NoReport /\ settled = NotSettled /\ answer = NoAnswer

-----------------------------------------------------------------------------
(* What the caller is told *)

\* What of the delays of a report a copy of it shows.
Shows(r, where) ==
  where \cap ((IF r.header # Absent THEN {"header"} ELSE {})
              \cup IF {r.resetsAt, r.resetsIn} # {Absent} THEN {"resets"} ELSE {})

OwnCode == "server_is_overloaded"

\* Answers to callers of the OpenAI shape: openai_error_body and
\* sanitize_passthrough_openai_error_body, headers being filtered by
\* shape_openai_http_headers.
OpenAiAnswer(status, code, type) ==
  [status |-> status, code |-> code, type |-> NormalType(type, status, code), shows |-> {}]

\* response.failed in a stream of status 200, which is also how a Codex caller is
\* told before there is a stream.
FailedEvent(code, type, shows) ==
  [status |-> 200, code |-> code, type |-> type, shows |-> shows]

\* render_gateway_unavailable_response, render_codex_pre_stream_failure,
\* rewrite_gateway_unavailable_event and websocket_gateway_unavailable_message.
Unavailable ==
  IF phase = "stream" \/ (phase = "asking" /\ surface = [shape |-> "codex", kind |-> "stream"])
  THEN FailedEvent(OwnCode, None, {})
  ELSE IF phase = "asking" /\ surface.shape = "openai"
  THEN OpenAiAnswer(503, OwnCode, None)
  ELSE [status |-> 503, code |-> OwnCode, type |-> None, shows |-> {}]

CodeOr(code, other) == IF code # None THEN code ELSE other

\* Before a stream or an upgrade, the rejection of an HTTP request is told in the
\* caller's shape: transport_error_response_ref, openai_transport_error_response_ref
\* and synthetic_response_failed_payload_from_transport.
Rejected(r) ==
  LET code == CodeOr(r.code, FallbackCode(ClassOf(r), r.status))
  IN  IF phase = "reasking"
      THEN [status |-> r.status, code |-> code, type |-> r.type, shows |-> Shows(r, {"resets"})]
      ELSE IF surface.shape = "openai" THEN OpenAiAnswer(r.status, code, r.type)
      ELSE IF surface.kind = "stream" THEN FailedEvent(code, r.type, Shows(r, {"resets"}))
      ELSE [status |-> r.status, code |-> r.code, type |-> r.type,
            shows |-> Shows(r, {"header", "resets"})]

\* Afterwards its event is passed on as it is.
PassedOn(r) ==
  [status |-> r.status, code |-> r.code, type |-> TypeIn(r),
   shows |-> Shows(r, IF r.carrier = "wrapped" THEN {"header", "resets"} ELSE {"resets"})]

\* synthetic_transport_error_event: the stream broke.
Broken(r) ==
  FailedEvent(CASE r.code = "timeout" -> "request_timeout"
                [] r.code = "network" -> "network_error"
                [] r.code = "build"   -> "internal_server_error"
                [] OTHER              -> "retry_limit_reached", None, {})

-----------------------------------------------------------------------------
(* Steps *)

Waiting == report = NoReport /\ answer = NoAnswer

\* An account has been selected and its token refreshed if need be: it answers,
\* and what follows is a stream or the websocket.  A unary answer ends the request.
Accept ==
  /\ Waiting /\ phase \in {"asking", "reasking"}
  /\ surface.kind # "unary"
  /\ phase' = IF surface.kind = "stream" THEN "stream" ELSE "pending"
  /\ UNCHANGED <<surface, left, refreshed, attempt, sends, report, settled, answer>>

\* upstream_message_commits_request
Commit ==
  /\ Waiting /\ phase = "pending"
  /\ phase' = "committed"
  /\ UNCHANGED <<surface, left, refreshed, attempt, sends, report, settled, answer>>

\* What can be met where.
MetIn(p) ==
  CASE p \in {"asking", "reasking"} -> Answers \cup {"transport"}
    [] p = "stream"    -> Events \cup {"transport"}
    [] p = "pending"   -> {"failed", "wrapped", "close"}
    [] p = "committed" -> {"failed", "wrapped"}

\* A token is refreshed before the request is sent.  A retry-after in an event
\* counts on a stream and on a websocket; a websocket that has reached its
\* connection limit is told as it is (WebsocketProxy).
Meet ==
  /\ Waiting
  /\ \E r \in Reports :
       /\ r.carrier \in MetIn(phase)
       /\ phase = "pending" => \/ r.carrier # "wrapped"
                               \/ r.code # "websocket_connection_limit_reached"
       /\ r.carrier = "refresh" => attempt = 0
       /\ report' = r
       /\ settled' = [class |-> ClassOf(r), delay |-> DelayOf(r)]
       /\ sends' = IF phase \in {"asking", "reasking"} /\ r.carrier # "refresh"
                   THEN sends + 1 ELSE sends
  /\ UNCHANGED <<surface, phase, left, refreshed, attempt, answer>>

Met(p) == report # NoReport /\ answer = NoAnswer /\ phase \in p

Tell(what) ==
  /\ answer' = what
  /\ UNCHANGED <<surface, phase, left, refreshed, attempt, sends, report, settled>>

\* The next candidate is asked, or there is none: resolve_selection_failure tells
\* that the pool is blocked, whatever the last error was.
NextAccount(p) ==
  IF left = 1 THEN Tell(Unavailable)
  ELSE /\ left' = left - 1 /\ phase' = p
       /\ refreshed' = FALSE /\ attempt' = 0 /\ sends' = 0
       /\ report' = NoReport /\ settled' = NotSettled
       /\ UNCHANGED <<surface, answer>>

\* The upstream client keeps an overload, a timeout or a broken connection to itself
\* while it has attempts left; a websocket is connected once.
Retries ==
  /\ phase = "asking" /\ surface.kind # "websocket"
  /\ attempt < MaxRetries /\ WorthAnother(report)

Resend ==
  /\ Met({"asking"})
  /\ Retries
  /\ attempt' = attempt + 1 /\ report' = NoReport /\ settled' = NotSettled
  /\ UNCHANGED <<surface, phase, left, refreshed, sends, answer>>

TokenRefused == report.carrier = "http" /\ settled.class = "access_token_rejected"

\* Mutant of ForceRefresh: forced_refresh_attempted is not written.
ForceRefreshForgets ==
  /\ Met({"asking", "reasking"})
  /\ TokenRefused /\ ~refreshed
  /\ attempt' = 0 /\ report' = NoReport /\ settled' = NotSettled
  /\ UNCHANGED <<surface, phase, left, refreshed, sends, answer>>

\* A refused access token is refreshed once, and the same account asked again.
ForceRefresh ==
  /\ Met({"asking", "reasking"})
  /\ TokenRefused /\ ~refreshed
  /\ refreshed' = TRUE /\ attempt' = 0 /\ report' = NoReport /\ settled' = NotSettled
  /\ UNCHANGED <<surface, phase, left, sends, answer>>

\* execute_with_failover: an error ends the attempt with this account.
AttemptFails ==
  /\ Met({"asking", "reasking"})
  /\ ~Retries /\ ~(TokenRefused /\ ~refreshed)
  /\ IF FailsOver(settled.class) THEN NextAccount(phase)
     ELSE IF \/ report.carrier = "refresh"
             \/ Unavailability(report.status, settled.class)
          THEN Tell(Unavailable)
     ELSE Tell(Rejected(report))

\* parse_sse_event: the event is rewritten if the account is to blame.
StreamFails ==
  /\ Met({"stream"})
  /\ Tell(IF report.carrier = "transport" THEN Broken(report)
          ELSE IF Unavailability(StatusOf(report), settled.class) THEN Unavailable
          ELSE PassedOn(report))

\* should_failover_precommit_failure
PrecommitFailsOver ==
  IF report.carrier = "close" THEN FailsOver(settled.class)
  ELSE Unavailability(StatusOf(report), settled.class)

\* retry_pending_websocket_request, or the message is passed on.
PendingFails ==
  /\ Met({"pending"})
  /\ IF PrecommitFailsOver THEN NextAccount("reasking")
     ELSE Tell(PassedOn(report))

\* Once the request has committed the message is passed on, whatever it says.
CommittedFails ==
  /\ Met({"committed"})
  /\ Tell(PassedOn(report))

\* Before any account is asked: the request is malformed (render_status_message_error)
\* or the gateway itself fails (FailoverFailure::Internal).
OwnError(status) ==
  LET code == FallbackCode(FromStatusAndText(status, {}), status)
  IN  /\ Waiting /\ phase = "asking"
      /\ Tell(IF surface.shape = "openai" THEN OpenAiAnswer(status, code, None)
              ELSE IF surface.kind = "stream" THEN FailedEvent(code, None, {})
              ELSE [status |-> status, code |-> None, type |-> None, shows |-> {}])

Next ==
  \/ Accept \/ Commit
  \/ Meet
  \/ Resend \/ ForceRefresh \/ AttemptFails \/ StreamFails \/ PendingFails \/ CommittedFails
  \/ \E status \in {400, 500} : OwnError(status)

Spec == Init /\ [][Next]_vars

-----------------------------------------------------------------------------
(* Safety *)

Told == answer # NoAnswer /\ report # NoReport

\* The error names a limit of the account's, or the upstream's overload.
NamesLimit(r) ==
  /\ r.carrier \in Answers \cup Events
  /\ \/ TypeIn(r) = "usage_limit_reached"
     \/ /\ r.code \in {"rate_limit_exceeded", "insufficient_quota",
                      "server_is_overloaded", "slow_down"}
        /\ TypeIn(r) # "usage_not_included"

\* README.md: account-routing failures collapse "into a gateway-level unavailable
\* shape ...; they do not expose upstream retry-after or resets_*".  Limits,
\* refused tokens, 403s and every failure of a refresh are told alike on all
\* surfaces, up to the commit of a websocket request (failover_failure_kind and
\* the renderers, each of which decides for itself whether an error may be shown).
Collapsed ==
  /\ Told
  /\ phase # "committed"
  /\ NamesLimit(report) \/ report.carrier = "refresh" \/ report.status \in {401, 403}
  => answer.code = OwnCode /\ answer.shows = {} /\ answer.type \in {None, "server_error"}

\* FAQ.md: a request-shape problem "does not automatically fail over".  A prompt
\* the upstream refuses is told to the caller with the upstream's code whatever
\* the HTTP status it came with and however it came, and no account is blamed
\* (classify_structured_error before the status).  A refused token and a 403
\* are the account's all the same.
RejectionShown ==
  /\ Told
  /\ report.carrier \in {"http"} \cup Events
  /\ report.code \in {"invalid_prompt", "context_length_exceeded"}
  /\ TypeIn(report) # "usage_limit_reached"
  /\ StatusOf(report) \notin {401, 403}
  => answer.code = report.code /\ settled.class = "request_rejected"

\* "No account available right now" is the answer to a limit only when every
\* candidate has been asked, unless the answer to the request has begun: the two
\* ways to decide on a failover, by class before a connection and by status and
\* class on the websocket, miss none (should_failover_failure_class,
\* should_failover_precommit_failure).
LastResort ==
  Told /\ phase \in {"asking", "pending", "reasking"} /\ NamesLimit(report)
  => left = 1 /\ answer.code = OwnCode

\* One request costs an account at most two rounds of the upstream client, however
\* refused tokens, overloads and timeouts alternate: the retry and the forced
\* refresh do not start each other's count again (execute_with_semantic_retry inside
\* the failover loop).  And what it answered is not asked of it again when that
\* blames the request or names a limit of the account's, whatever the status,
\* unless the token was refused (should_retry_http_failure).
AskedAgain ==
  /\ [](sends <= 2 * (MaxRetries + 1))
  /\ [][ /\ report # NoReport /\ report' = NoReport /\ left' = left
         => \/ report.carrier = "http" /\ report.status = 401
            \/ /\ NamesLimit(report) =>
                    report.code \in {"server_is_overloaded", "slow_down"}
               /\ report.code \notin {"invalid_prompt", "context_length_exceeded"}
               /\ report.type \notin DOMAIN TypeClass
       ]_vars

\* The type OpenAI gives the errors of these codes, and the codes whose class and
\* status both tables of the code know.
StandsFor == [invalid_api_key       |-> "authentication_error",
              forbidden             |-> "permission_error",
              internal_server_error |-> "server_error"]

Placed == DOMAIN CodeClass \ {"websocket_connection_limit_reached"}

\* An error settles the account alike whether it comes as an HTTP answer or as an
\* event: infer_response_error_status reads from the code, the type or the text of
\* the event a status that means what the answer's does, the types being those
\* default_openai_error_type writes for that status.  An answer is searched for hints
\* beyond its message; "unauthorized" and the risk hints, in the text of an error that
\* nothing else places, mean more in an event than in an answer.
ReportsAgree ==
  LET type == DefaultType(report.status, None)
      As(carrier) == [report EXCEPT !.carrier = carrier, !.type = type, !.status = Absent]
  IN  /\ report # NoReport /\ report.carrier = "http"
      /\ report.type \in {None, type}
      /\ report.code \in DOMAIN StandsFor => StandsFor[report.code] = type
      /\ Mentions(report.code) \subseteq report.says
      /\ \/ type # "invalid_request_error" \/ report.code \in Placed
         \/ {"unauthorized", "risk"} \cap report.says = {}
      => \A carrier \in Events :
           \/ carrier = "flat" /\ report.code \notin DOMAIN StandsFor
           \/ ClassOf(As(carrier)) = settled.class
=============================================================================

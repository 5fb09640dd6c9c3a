------------------------- MODULE FailurePathsProofs -------------------------
(***************************************************************************)
(* What holds of the failure paths whatever the upstream reports: for any   *)
(* set of reports, any number of accounts and of retries.                   *)
(*                                                                          *)
(* The tables of ErrorSemantics come first: what a class tells of the       *)
(* report.  The steps then need one fact about the state, that what is      *)
(* settled is what was met (MetInv).                                        *)
(***************************************************************************)
EXTENDS FailurePaths, TLAPS

-----------------------------------------------------------------------------
(* The tables *)

Rejections == {"invalid_prompt", "context_length_exceeded"}

Overloads == {"server_is_overloaded", "slow_down"}

LEMMA TypeDecides ==
  ASSUME NEW code, NEW type
  PROVE  /\ type = "usage_limit_reached" => Structured(code, type) = "quota_exhausted"
         /\ type = "usage_not_included" => Structured(code, type) = "request_rejected"
         /\ DOMAIN TypeClass = {"usage_limit_reached", "usage_not_included"}
  BY DEF Structured, TypeClass

LEMMA CodeDecides ==
  ASSUME NEW code, NEW type, type \notin {"usage_limit_reached", "usage_not_included"}
  PROVE  /\ code = "rate_limit_exceeded" => Structured(code, type) = "rate_limited"
         /\ code = "insufficient_quota" => Structured(code, type) = "quota_exhausted"
         /\ code = "websocket_connection_limit_reached"
              => Structured(code, type) = "temporary_failure"
         /\ code \in Overloads => Structured(code, type) = "temporary_failure"
         /\ code \in Rejections => Structured(code, type) = "request_rejected"
         /\ code \notin DOMAIN CodeClass => Structured(code, type) = None
         /\ DOMAIN CodeClass = {"rate_limit_exceeded", "insufficient_quota",
                                "websocket_connection_limit_reached"}
                               \cup Overloads \cup Rejections
  BY DEF Structured, TypeClass, CodeClass, Overloads, Rejections

LEMMA StructuredRange ==
  ASSUME NEW code, NEW type
  PROVE  Structured(code, type) \in {None, "quota_exhausted", "request_rejected",
                                     "rate_limited", "temporary_failure"}
<1>1. CASE type \in {"usage_limit_reached", "usage_not_included"}
  BY <1>1, TypeDecides
<1>2. CASE type \notin {"usage_limit_reached", "usage_not_included"}
  BY <1>2, CodeDecides
<1> QED
  BY <1>1, <1>2

LEMMA TextRange ==
  ASSUME NEW status, NEW text
  PROVE  FromStatusAndText(status, text) \in {"risk_controlled", "rate_limited",
           "quota_exhausted", "temporary_failure", "request_rejected"}
  BY DEF FromStatusAndText

\* An error names a limit of the account.
LimitNamed(code, type) ==
  \/ type = "usage_limit_reached"
  \/ /\ code \in {"rate_limit_exceeded", "insufficient_quota"} \cup Overloads
     /\ type # "usage_not_included"

LEMMA LimitClassified ==
  ASSUME NEW status, NEW code, NEW type, NEW text, NEW unauthorized,
         LimitNamed(code, type)
  PROVE  ClassifyError(status, code, type, text, unauthorized)
           \in {unauthorized, "quota_exhausted", "rate_limited", "temporary_failure"}
<1>1. Structured(code, type) \in {"quota_exhausted", "rate_limited", "temporary_failure"}
  <2>1. CASE type = "usage_limit_reached"
    BY <2>1, TypeDecides
  <2>2. CASE type # "usage_limit_reached"
    BY <2>2, CodeDecides DEF LimitNamed
  <2> QED
    BY <2>1, <2>2
<1>2. Structured(code, type) # None
  BY <1>1 DEF None
<1> QED
  BY <1>1, <1>2 DEF ClassifyError

LEMMA RejectionClassified ==
  ASSUME NEW status, NEW code, NEW type, NEW text, NEW unauthorized,
         status # 401, code \in Rejections, type # "usage_limit_reached"
  PROVE  ClassifyError(status, code, type, text, unauthorized) = "request_rejected"
<1>1. Structured(code, type) = "request_rejected"
  BY TypeDecides, CodeDecides
<1> QED
  BY <1>1 DEF ClassifyError, None

\* The token is refused by status, and by nothing else.
LEMMA RefusedByStatus ==
  ASSUME NEW status, NEW code, NEW type, NEW text, NEW unauthorized
  PROVE  /\ status = 401 =>
              ClassifyError(status, code, type, text, unauthorized) = unauthorized
         /\ status # 401 =>
              ClassifyError(status, code, type, text, unauthorized)
                \in {"risk_controlled", "rate_limited", "quota_exhausted",
                     "temporary_failure", "request_rejected"}
  BY StructuredRange, TextRange DEF ClassifyError, None

-----------------------------------------------------------------------------
(* What a class tells of a report *)

\* The class of all but closed and broken connections.
EventClass(r) ==
  ClassifyError(StatusOf(r), r.code, TypeIn(r), TextOf(r), "access_token_rejected")

LEMMA ClassByCarrier ==
  ASSUME NEW r \in Report
  PROVE  /\ r.carrier \in {"http"} \cup Events => ClassOf(r) = EventClass(r)
         /\ r.carrier = "refresh" => ClassOf(r) = RefreshClass(r)
         /\ r.carrier = "close" => ClassOf(r) = CloseClass(r.says)
         /\ r.carrier = "transport" => ClassOf(r) \in {"internal_failure", "temporary_failure"}
         /\ r.carrier \in Answers \cup Events \cup {"close", "transport"}
  BY DEF ClassOf, EventClass, Events, Answers, Report

LEMMA ClassOfEvent ==
  ASSUME NEW r, r.carrier \in Events
  PROVE  ClassOf(r) = EventClass(r)
  BY DEF ClassOf, EventClass, Events

LEMMA LimitFailsOver ==
  ASSUME NEW r \in Report, NamesLimit(r)
  PROVE  FailsOver(ClassOf(r)) /\ ClassOf(r) # "request_rejected"
<1>1. LimitNamed(r.code, TypeIn(r))
  BY DEF NamesLimit, LimitNamed, Overloads
<1>2. CASE r.carrier = "refresh"
  <2>1. TypeIn(r) = r.type
    BY <1>2 DEF TypeIn
  <2>2. ClassifyError(r.status, r.code, r.type, TextOf(r), "auth_invalid")
          \in {"auth_invalid", "quota_exhausted", "rate_limited", "temporary_failure"}
    BY <1>1, <2>1, LimitClassified
  <2> QED
    BY <1>2, <2>2, ClassByCarrier DEF RefreshClass, FailsOver
<1>3. CASE r.carrier # "refresh"
  <2>1. r.carrier \in {"http"} \cup Events
    BY <1>3 DEF NamesLimit, Answers
  <2>2. EventClass(r)
          \in {"access_token_rejected", "quota_exhausted", "rate_limited", "temporary_failure"}
    BY <1>1, LimitClassified DEF EventClass
  <2> QED
    BY <2>1, <2>2, ClassByCarrier DEF FailsOver
<1> QED
  BY <1>2, <1>3

LEMMA RejectionIsTold ==
  ASSUME NEW r \in Report, r.carrier \in {"http"} \cup Events, r.code \in Rejections,
         TypeIn(r) # "usage_limit_reached", StatusOf(r) # 401
  PROVE  ClassOf(r) = "request_rejected"
  BY ClassByCarrier, RejectionClassified DEF EventClass

LEMMA RefusalFailsOver ==
  ASSUME NEW r \in Report, r.carrier \in {"http"} \cup Events, StatusOf(r) = 401
  PROVE  ClassOf(r) = "access_token_rejected"
  BY ClassByCarrier, RefusedByStatus DEF EventClass

\* Only a temporary failure of a server is worth another try.
LEMMA WorthAnotherIsTemporary ==
  ASSUME NEW r \in Report, r.carrier = "http", WorthAnother(r)
  PROVE  /\ NamesLimit(r) => r.code \in Overloads
         /\ r.code \notin Rejections
         /\ r.type \notin DOMAIN TypeClass
<1>1. /\ r.status \in 500..599
      /\ ClassOf(r) \in {"temporary_failure", "internal_failure"}
  BY DEF WorthAnother
<1>2. /\ StatusOf(r) = r.status /\ r.status # 401
      /\ TypeIn(r) = r.type
      /\ ClassOf(r) = EventClass(r)
  BY <1>1, ClassByCarrier DEF StatusOf, TypeIn, Answers
<1>3. ClassOf(r) = IF Structured(r.code, r.type) # None THEN Structured(r.code, r.type)
                   ELSE FromStatusAndText(r.status, TextOf(r))
  BY <1>2 DEF EventClass, ClassifyError
<1>4. r.type \notin {"usage_limit_reached", "usage_not_included"}
  BY <1>1, <1>3, TypeDecides DEF None
<1>5. r.code \notin Rejections
  BY <1>1, <1>3, <1>4, CodeDecides DEF None
<1>6. r.code \notin {"rate_limit_exceeded", "insufficient_quota"}
  BY <1>1, <1>3, <1>4, CodeDecides DEF None
<1>7. NamesLimit(r) => r.code \in Overloads
  BY <1>2, <1>4, <1>6 DEF NamesLimit, Overloads
<1> QED
  BY <1>4, <1>5, <1>7, TypeDecides

-----------------------------------------------------------------------------
(* The state *)

\* What is settled is what was met, where it can be met.
MetInv ==
  report # NoReport =>
    /\ report \in Report
    /\ report \in Reports
    /\ settled = [class |-> ClassOf(report), delay |-> DelayOf(report)]
    /\ report.carrier \in MetIn(phase)

LEMMA NoReportIsNone ==
  ASSUME NEW r \in Reports
  PROVE  r \in Report /\ r # NoReport
<1>1. r \in Report
  BY PathsAssumption
<1>2. r.carrier # None
  BY <1>1 DEF Report, None, Answers, Events
<1> QED
  BY <1>1, <1>2 DEF NoReport

LEMMA MetInvariant == Spec => []MetInv
<1>1. Init => MetInv
  BY DEF Init, MetInv
<1>2. MetInv /\ [Next]_vars => MetInv'
  <2> SUFFICES ASSUME MetInv, [Next]_vars, report' # NoReport
               PROVE  /\ report' \in Report /\ report' \in Reports
                      /\ settled' = [class |-> ClassOf(report'), delay |-> DelayOf(report')]
                      /\ report'.carrier \in MetIn(phase')
    BY DEF MetInv
  <2>1. CASE Meet
    BY <2>1, NoReportIsNone DEF Meet
  <2>2. CASE UNCHANGED <<phase, report, settled>>
    BY <2>2 DEF MetInv
  <2>3. CASE report' = NoReport
    BY <2>3
  <2>4. CASE Accept \/ Commit
    BY <2>4 DEF Accept, Commit, Waiting
  <2>5. CASE Resend \/ ForceRefresh
    BY <2>3, <2>5 DEF Resend, ForceRefresh
  <2>6. ASSUME NEW p, NextAccount(p)
        PROVE  report' = NoReport \/ UNCHANGED <<phase, report, settled>>
    BY <2>6 DEF NextAccount, Tell
  <2>7. CASE AttemptFails \/ StreamFails \/ PendingFails \/ CommittedFails
    BY <2>2, <2>3, <2>6, <2>7 DEF AttemptFails, StreamFails, PendingFails, CommittedFails, Tell
  <2>8. CASE \E status \in {400, 500} : OwnError(status)
    BY <2>2, <2>8 DEF OwnError, Tell
  <2>9. CASE UNCHANGED vars
    BY <2>2, <2>9 DEF vars
  <2> QED
    BY <2>1, <2>4, <2>5, <2>7, <2>8, <2>9 DEF Next
<1> QED
  BY <1>1, <1>2, PTL DEF Spec

-----------------------------------------------------------------------------
(* What the caller is told *)

\* The error is collapsed, because the account is to blame and no other is left, or
\* because the request is refused with a 403;
Collapses ==
  /\ answer' = Unavailable
  /\ FailsOver(ClassOf(report)) => left = 1 \/ phase = "stream"
  /\ ClassOf(report) = "request_rejected" =>
       report.carrier = "refresh" \/ StatusOf(report) = 403

\* or it is the request's, and shown;
ShowsError ==
  /\ answer' \in {Rejected(report), PassedOn(report)}
  /\ report.carrier \in {"http"} \cup Events
  /\ ClassOf(report) = "request_rejected" /\ StatusOf(report) # 403

\* or the answer had begun.
BreaksOff ==
  \/ phase = "committed" /\ answer' = PassedOn(report)
  \/ phase = "stream" /\ answer' = Broken(report) /\ report.carrier = "transport"

Tells ==
  /\ UNCHANGED <<phase, left, report, settled>> /\ report # NoReport
  /\ Collapses \/ ShowsError \/ BreaksOff

LEMMA LastAccount ==
  ASSUME NEW p, NextAccount(p)
  PROVE  \/ report' = NoReport
         \/ left = 1 /\ answer' = Unavailable /\ UNCHANGED <<phase, left, report, settled>>
  BY DEF NextAccount, Tell

LEMMA AttemptTells == MetInv /\ AttemptFails => report' = NoReport \/ Tells
<1> SUFFICES ASSUME MetInv, AttemptFails, report' # NoReport
             PROVE  Tells
  OBVIOUS
<1> USE DEF AttemptFails, Met, MetInv
<1>1. /\ report \in Report /\ settled.class = ClassOf(report)
      /\ report.carrier \in Answers \cup {"transport"}
  BY DEF MetIn
<1>2. CASE FailsOver(settled.class)
  <2>1. left = 1 /\ answer' = Unavailable /\ UNCHANGED <<phase, left, report, settled>>
    BY <1>2, LastAccount
  <2> QED
    BY <1>1, <1>2, <2>1 DEF Tells, Collapses, FailsOver
<1>3. CASE ~FailsOver(settled.class) /\ report.carrier = "refresh"
  BY <1>1, <1>3 DEF Tell, Tells, Collapses
<1>4. CASE /\ ~FailsOver(settled.class) /\ report.carrier # "refresh"
           /\ Unavailability(report.status, settled.class)
  <2>1. ClassOf(report) = "request_rejected" => StatusOf(report) = 403
    BY <1>1, <1>4, ClassByCarrier DEF Unavailability, StatusOf, Answers
  <2> QED
    BY <1>1, <1>4, <2>1 DEF Tell, Tells, Collapses
<1>5. CASE /\ ~FailsOver(settled.class) /\ report.carrier # "refresh"
           /\ ~Unavailability(report.status, settled.class)
  <2>1. ClassOf(report) = "request_rejected" /\ report.status # 403
    BY <1>1, <1>5 DEF Unavailability
  <2>2. report.carrier = "http"
    BY <1>1, <1>5, <2>1, ClassByCarrier DEF Answers
  <2>3. StatusOf(report) # 403
    BY <2>1, <2>2 DEF StatusOf, Answers
  <2> QED
    BY <1>5, <2>1, <2>2, <2>3 DEF Tell, Tells, ShowsError
<1> QED
  BY <1>2, <1>3, <1>4, <1>5

LEMMA StreamTells == MetInv /\ StreamFails => Tells
<1> SUFFICES ASSUME MetInv, StreamFails
             PROVE  Tells
  OBVIOUS
<1> USE DEF StreamFails, Met, MetInv, Tell
<1>1. /\ report \in Report /\ settled.class = ClassOf(report)
      /\ report.carrier \in Events \cup {"transport"} /\ phase = "stream"
  BY DEF MetIn
<1>2. CASE report.carrier = "transport"
  BY <1>1, <1>2 DEF Tells, BreaksOff
<1>3. CASE report.carrier # "transport" /\ Unavailability(StatusOf(report), settled.class)
  BY <1>1, <1>3 DEF Tells, Collapses, Unavailability
<1>4. CASE report.carrier # "transport" /\ ~Unavailability(StatusOf(report), settled.class)
  BY <1>1, <1>4 DEF Tells, ShowsError, Unavailability
<1> QED
  BY <1>2, <1>3, <1>4

LEMMA PendingTells == MetInv /\ PendingFails => report' = NoReport \/ Tells
<1> SUFFICES ASSUME MetInv, PendingFails, report' # NoReport
             PROVE  Tells
  OBVIOUS
<1> USE DEF PendingFails, Met, MetInv
<1>1. /\ report \in Report /\ settled.class = ClassOf(report) /\ phase = "pending"
      /\ report.carrier \in {"failed", "wrapped", "close"}
  BY DEF MetIn
<1>2. report.carrier = "close" => FailsOver(ClassOf(report))
  BY <1>1, ClassByCarrier DEF CloseClass, FailsOver
<1>3. CASE PrecommitFailsOver
  <2>1. left = 1 /\ answer' = Unavailable /\ UNCHANGED <<phase, left, report, settled>>
    BY <1>3, LastAccount
  <2>2. ClassOf(report) = "request_rejected" => StatusOf(report) = 403
    BY <1>1, <1>2, <1>3 DEF PrecommitFailsOver, Unavailability, FailsOver
  <2> QED
    BY <2>1, <2>2 DEF Tells, Collapses
<1>4. CASE ~PrecommitFailsOver
  <2>1. /\ report.carrier \in Events /\ ClassOf(report) = "request_rejected"
        /\ StatusOf(report) # 403
    BY <1>1, <1>2, <1>4 DEF PrecommitFailsOver, Unavailability, Events
  <2> QED
    BY <1>4, <2>1 DEF Tells, Tell, ShowsError
<1> QED
  BY <1>3, <1>4

LEMMA StepTells ==
  MetInv /\ [Next]_vars =>
    \/ answer' = NoAnswer \/ report' = NoReport
    \/ UNCHANGED <<phase, left, report, settled, answer>>
    \/ Tells
<1> SUFFICES ASSUME MetInv, [Next]_vars,
                    answer' # NoAnswer, report' # NoReport,
                    ~UNCHANGED <<phase, left, report, settled, answer>>
             PROVE  Tells
  OBVIOUS
<1>1. CASE Accept \/ Commit \/ Meet
  BY <1>1 DEF Accept, Commit, Meet, Waiting
<1>2. CASE Resend \/ ForceRefresh
  BY <1>2 DEF Resend, ForceRefresh
<1>3. CASE AttemptFails
  BY <1>3, AttemptTells
<1>4. CASE StreamFails
  BY <1>4, StreamTells
<1>5. CASE PendingFails
  BY <1>5, PendingTells
<1>6. CASE CommittedFails
  BY <1>6 DEF CommittedFails, Met, Tell, Tells, BreaksOff
<1>7. CASE \E status \in {400, 500} : OwnError(status)
  BY <1>7 DEF OwnError, Waiting, Tell
<1>8. CASE UNCHANGED vars
  BY <1>8 DEF vars
<1> QED
  BY <1>1, <1>2, <1>3, <1>4, <1>5, <1>6, <1>7, <1>8 DEF Next

LEMMA UnavailableIsBlank ==
  /\ Unavailable.code = OwnCode
  /\ Unavailable.shows = {}
  /\ Unavailable.type \in {None, "server_error"}
<1>1. NormalType(None, 503, OwnCode) = "server_error"
  BY DEF NormalType, DefaultType, OpenAiTypes, OwnCode, None
<1> QED
  BY <1>1 DEF Unavailable, FailedEvent, OpenAiAnswer

LEMMA RejectionNamed ==
  ASSUME NEW r \in Report, r.code \in Rejections
  PROVE  Rejected(r).code = r.code /\ PassedOn(r).code = r.code
<1>1. CodeOr(r.code, FallbackCode(ClassOf(r), r.status)) = r.code
  BY DEF CodeOr, Rejections, None
<1> QED
  BY <1>1 DEF Rejected, PassedOn, OpenAiAnswer, FailedEvent

LEMMA StatusGiven ==
  ASSUME NEW r \in Reports, r.status # Absent
  PROVE  r.carrier = "refresh" \/ (r.carrier \in {"http", "wrapped"} /\ StatusOf(r) = r.status)
  BY PathsAssumption DEF StatusOf, Answers

\* Whatever the upstream reports, a limit, a refused token and a 403 are told alike
\* (failover_failure_kind and the renderers).
THEOREM LimitsCollapse == Spec => []Collapsed
<1>1. Init => Collapsed
  BY DEF Init, Collapsed, Told
<1>2. MetInv /\ Collapsed /\ [Next]_vars => Collapsed'
  <2> SUFFICES ASSUME MetInv, Collapsed, [Next]_vars, Told', phase' # "committed",
                      \/ NamesLimit(report') \/ report'.carrier = "refresh"
                      \/ report'.status \in {401, 403}
               PROVE  /\ answer'.code = OwnCode /\ answer'.shows = {}
                      /\ answer'.type \in {None, "server_error"}
    BY DEF Collapsed, NamesLimit, TypeIn
  <2>1. answer' # NoAnswer /\ report' # NoReport
    BY DEF Told
  <2>2. CASE UNCHANGED <<phase, left, report, settled, answer>>
    BY <2>2 DEF Collapsed, Told
  <2>3. ASSUME Tells
        PROVE  answer' = Unavailable
    <3> USE <2>3 DEF Tells
    <3>1. report \in Report /\ report \in Reports /\ report' = report /\ phase' = phase
      BY DEF MetInv
    <3>2. ~ShowsError
      <4> SUFFICES ASSUME ShowsError
                   PROVE  FALSE
        OBVIOUS
      <4>1. ~NamesLimit(report)
        BY <3>1, LimitFailsOver DEF ShowsError
      <4>2. report.carrier # "refresh"
        BY DEF ShowsError, Events
      <4>3. StatusOf(report) = report.status
        BY <3>1, <4>1, <4>2, StatusGiven DEF Absent
      <4> QED
        BY <3>1, <4>1, <4>2, <4>3, RefusalFailsOver DEF ShowsError
    <3>3. ~BreaksOff
      <4> SUFFICES ASSUME report.carrier = "transport"
                   PROVE  FALSE
        BY <3>1 DEF BreaksOff
      <4> QED
        BY <3>1, StatusGiven DEF NamesLimit, Answers, Events, Absent
    <3> QED
      BY <3>2, <3>3 DEF Collapses
  <2> QED
    BY <2>1, <2>2, <2>3, StepTells, UnavailableIsBlank
<1> QED
  BY <1>1, <1>2, MetInvariant, PTL DEF Spec

\* Whatever the upstream reports, what it refuses for the request's sake is told and
\* blames no account (classify_structured_error before the status).
THEOREM RejectionsShown == Spec => []RejectionShown
<1>1. Init => RejectionShown
  BY DEF Init, RejectionShown, Told
<1>2. MetInv /\ RejectionShown /\ [Next]_vars => RejectionShown'
  <2> SUFFICES ASSUME MetInv, RejectionShown, [Next]_vars, Told',
                      report'.carrier \in {"http"} \cup Events,
                      report'.code \in Rejections, TypeIn(report') # "usage_limit_reached",
                      StatusOf(report') \notin {401, 403}
               PROVE  answer'.code = report'.code /\ settled'.class = "request_rejected"
    BY DEF RejectionShown, Rejections, StatusOf, TypeIn
  <2>1. answer' # NoAnswer /\ report' # NoReport
    BY DEF Told
  <2>2. CASE UNCHANGED <<phase, left, report, settled, answer>>
    BY <2>2 DEF RejectionShown, Told, Rejections
  <2>3. ASSUME Tells
        PROVE  answer' \in {Rejected(report), PassedOn(report)}
               /\ settled'.class = "request_rejected"
    <3> USE <2>3 DEF Tells
    <3>1. report \in Report /\ report' = report /\ settled'.class = ClassOf(report)
      BY DEF MetInv
    <3>2. ClassOf(report) = "request_rejected"
      BY <3>1, RejectionIsTold
    <3> QED
      BY <3>1, <3>2 DEF Collapses, ShowsError, BreaksOff, Events
  <2>4. CASE Tells
    BY <2>3, <2>4, RejectionNamed DEF Tells, MetInv
  <2> QED
    BY <2>1, <2>2, <2>4, StepTells
<1> QED
  BY <1>1, <1>2, MetInvariant, PTL DEF Spec

\* Whatever the upstream reports, a caller is told of a limit, as of an unavailable
\* pool, only after the last candidate (should_failover_failure_class and
\* should_failover_precommit_failure).
THEOREM LimitIsLastResort == Spec => []LastResort
<1>1. Init => LastResort
  BY DEF Init, LastResort, Told
<1>2. MetInv /\ LastResort /\ [Next]_vars => LastResort'
  <2> SUFFICES ASSUME MetInv, LastResort, [Next]_vars, Told',
                      phase' \in {"asking", "pending", "reasking"}, NamesLimit(report')
               PROVE  left' = 1 /\ answer'.code = OwnCode
    BY DEF LastResort, NamesLimit, TypeIn
  <2>1. answer' # NoAnswer /\ report' # NoReport
    BY DEF Told
  <2>2. CASE UNCHANGED <<phase, left, report, settled, answer>>
    BY <2>2 DEF LastResort, Told
  <2>3. CASE Tells
    <3> USE <2>3 DEF Tells
    <3>1. report \in Report /\ report' = report /\ phase' = phase /\ left' = left
      BY DEF MetInv
    <3>2. FailsOver(ClassOf(report)) /\ ClassOf(report) # "request_rejected"
      BY <3>1, LimitFailsOver
    <3> QED
      BY <3>1, <3>2, UnavailableIsBlank DEF Collapses, ShowsError, BreaksOff
  <2> QED
    BY <2>1, <2>2, <2>3, StepTells
<1> QED
  BY <1>1, <1>2, MetInvariant, PTL DEF Spec

-----------------------------------------------------------------------------
(* What an account is asked again *)

LEMMA RefusedToken ==
  ASSUME NEW r \in Report, r.carrier = "http", ClassOf(r) = "access_token_rejected"
  PROVE  r.status = 401
<1>1. StatusOf(r) = r.status /\ ClassOf(r) = EventClass(r)
  BY ClassByCarrier DEF StatusOf, Answers
<1> QED
  BY <1>1, RefusedByStatus DEF EventClass

LEMMA AgainForAReason ==
  MetInv /\ [Next]_vars /\ report # NoReport /\ report' = NoReport /\ left' = left /\ left \in Nat
  => \/ report.carrier = "http" /\ report.status = 401
     \/ /\ NamesLimit(report) => report.code \in Overloads
        /\ report.code \notin Rejections
        /\ report.type \notin DOMAIN TypeClass
<1> SUFFICES ASSUME MetInv, [Next]_vars, report # NoReport, report' = NoReport,
                    left' = left, left \in Nat
             PROVE  \/ report.carrier = "http" /\ report.status = 401
                    \/ /\ NamesLimit(report) => report.code \in Overloads
                       /\ report.code \notin Rejections
                       /\ report.type \notin DOMAIN TypeClass
  OBVIOUS
<1>1. report \in Report /\ report \in Reports /\ settled.class = ClassOf(report)
  BY DEF MetInv
<1>2. CASE Resend
  <2>1. WorthAnother(report)
    BY <1>2 DEF Resend, Retries
  <2>2. CASE report.carrier = "http"
    BY <1>1, <2>1, <2>2, WorthAnotherIsTemporary
  <2>3. CASE report.carrier # "http"
    <3>1. report.carrier = "transport" /\ report.code \in {"timeout", "network"}
      BY <2>1, <2>3 DEF WorthAnother
    <3>2. report.type = None
      BY <1>1, <3>1, PathsAssumption DEF Answers, Events
    <3> QED
      BY <3>1, <3>2, TypeDecides DEF NamesLimit, Answers, Events, Rejections, None
  <2> QED
    BY <2>2, <2>3
<1>3. CASE ForceRefresh
  <2>1. report.carrier = "http" /\ settled.class = "access_token_rejected"
    BY <1>3 DEF ForceRefresh, TokenRefused
  <2>2. ClassOf(report) = "access_token_rejected"
    BY <1>1, <2>1, Zenon
  <2>3. report.status = 401
    BY <1>1, <2>1, <2>2, RefusedToken, Zenon
  <2> QED
    BY <2>1, <2>3, Zenon
<1>4. ASSUME NEW p, NextAccount(p)
      PROVE  FALSE
  BY <1>4 DEF NextAccount, Tell
<1>5. CASE AttemptFails \/ StreamFails \/ PendingFails \/ CommittedFails
  BY <1>4, <1>5 DEF AttemptFails, StreamFails, PendingFails, CommittedFails, Tell
<1>6. CASE Accept \/ Commit \/ Meet \/ \E status \in {400, 500} : OwnError(status)
  BY <1>6 DEF Accept, Commit, Meet, OwnError, Waiting
<1>7. CASE UNCHANGED vars
  BY <1>7 DEF vars
<1> QED
  BY <1>2, <1>3, <1>5, <1>6, <1>7 DEF Next

\* How often the account has been sent the request: a round of the client, and
\* another one before it if its token was refused.
SendsInv ==
  /\ left \in Nat \ {0} /\ refreshed \in BOOLEAN
  /\ attempt \in 0..MaxRetries /\ sends \in Nat
  /\ sends <= (IF refreshed THEN MaxRetries + 1 ELSE 0) + attempt
              + (IF report # NoReport THEN 1 ELSE 0)

LEMMA Bounds ==
  MaxAccounts \in Nat \ {0} /\ MaxRetries \in Nat
  BY PathsAssumption

LEMMA SendsCounted ==
  SendsInv /\ [Next]_vars => SendsInv'
<1> SUFFICES ASSUME SendsInv, [Next]_vars
             PROVE  SendsInv'
  OBVIOUS
<1> USE Bounds DEF SendsInv
<1>1. CASE Accept \/ Commit
  BY <1>1 DEF Accept, Commit
<1>2. CASE Meet
  <2>1. report = NoReport /\ report' # NoReport
    BY <1>2, NoReportIsNone DEF Meet, Waiting
  <2>2. UNCHANGED <<left, refreshed, attempt>> /\ sends' \in {sends, sends + 1}
    BY <1>2 DEF Meet
  <2> QED
    BY <2>1, <2>2
<1>3. CASE Resend
  BY <1>3 DEF Resend, Retries, Met
<1>4. CASE ForceRefresh
  BY <1>4 DEF ForceRefresh, Met
<1>5. ASSUME NEW p, NextAccount(p)
      PROVE  SendsInv'
  <2>1. CASE left = 1
    BY <1>5, <2>1 DEF NextAccount, Tell
  <2>2. CASE left # 1
    <3>1. left' = left - 1 /\ attempt' = 0 /\ sends' = 0
      BY <1>5, <2>2 DEF NextAccount
    <3>2. refreshed' \in BOOLEAN
      BY <1>5, <2>2, Zenon DEF NextAccount
    <3>3. left - 1 \in Nat \ {0}
      BY <2>2
    <3>4. 0 <= (IF refreshed' THEN MaxRetries + 1 ELSE 0) + 0
               + (IF report' # NoReport THEN 1 ELSE 0)
      BY Bounds
    <3> QED
      BY <3>1, <3>2, <3>3, <3>4
  <2> QED
    BY <2>1, <2>2
<1>6. ASSUME NEW what, Tell(what)
      PROVE  SendsInv'
  BY <1>6 DEF Tell
<1>7. CASE AttemptFails
  BY <1>5, <1>6, <1>7 DEF AttemptFails
<1>8. CASE StreamFails \/ PendingFails \/ CommittedFails
  BY <1>5, <1>6, <1>8 DEF StreamFails, PendingFails, CommittedFails
<1>9. CASE \E status \in {400, 500} : OwnError(status)
  BY <1>6, <1>9 DEF OwnError
<1>10. CASE UNCHANGED vars
  BY <1>10 DEF vars
<1> QED
  BY <1>1, <1>2, <1>3, <1>4, <1>7, <1>8, <1>9, <1>10 DEF Next

\* Whatever the upstream reports, an account is asked again for a reason, and a
\* bounded number of times (execute_with_semantic_retry inside the failover loop).
THEOREM AskedAgainInBounds == Spec => AskedAgain
<1>1. Init => SendsInv
  <2> SUFFICES ASSUME Init PROVE SendsInv
    OBVIOUS
  <2>1. left = MaxAccounts /\ attempt = 0 /\ sends = 0
    BY DEF Init
  <2>2. refreshed \in BOOLEAN
    BY Zenon DEF Init
  <2>3. 0 <= (IF refreshed THEN MaxRetries + 1 ELSE 0) + 0
             + (IF report # NoReport THEN 1 ELSE 0)
    BY Bounds
  <2> QED
    BY <2>1, <2>2, <2>3, Bounds DEF SendsInv
<1>2. SendsInv => sends <= 2 * (MaxRetries + 1)
  BY Bounds DEF SendsInv
<1>3. MetInv /\ SendsInv /\ [Next]_vars
      => [/\ report # NoReport /\ report' = NoReport /\ left' = left
          => \/ report.carrier = "http" /\ report.status = 401
             \/ /\ NamesLimit(report) =>
                     report.code \in {"server_is_overloaded", "slow_down"}
                /\ report.code \notin {"invalid_prompt", "context_length_exceeded"}
                /\ report.type \notin DOMAIN TypeClass]_vars
  BY AgainForAReason DEF SendsInv, Overloads, Rejections
<1>4. Spec => []SendsInv
  BY <1>1, SendsCounted, PTL DEF Spec
<1>5. Spec => [](sends <= 2 * (MaxRetries + 1))
  BY <1>2, <1>4, PTL
<1>6. Spec
      => [][/\ report # NoReport /\ report' = NoReport /\ left' = left
            => \/ report.carrier = "http" /\ report.status = 401
               \/ /\ NamesLimit(report) =>
                       report.code \in {"server_is_overloaded", "slow_down"}
                  /\ report.code \notin {"invalid_prompt", "context_length_exceeded"}
                  /\ report.type \notin DOMAIN TypeClass]_vars
  BY <1>3, <1>4, MetInvariant, PTL DEF Spec
<1> QED
  BY <1>5, <1>6 DEF AskedAgain

-----------------------------------------------------------------------------
(* The ways a report may come *)

\* Where two statuses mean the same to classify_http_from_status_and_text.
Telling(s) == s \in {401, 403, 429} \/ s \in 500..599

Like(s, t) ==
  \/ s = t
  \/ s \in 500..599 /\ t \in 500..599
  \/ ~Telling(s) /\ ~Telling(t)

LEMMA LikeClasses ==
  ASSUME NEW s \in Int, NEW t \in Int, NEW code, NEW type1, NEW type2, NEW text,
         Structured(code, type1) = Structured(code, type2),
         \/ Like(s, t)
         \/ Structured(code, type1) # None /\ 401 \notin {s, t}
  PROVE  ClassifyError(s, code, type1, text, "access_token_rejected")
           = ClassifyError(t, code, type2, text, "access_token_rejected")
<1>1. Like(s, t) => FromStatusAndText(s, text) = FromStatusAndText(t, text)
  BY DEF Like, Telling, FromStatusAndText
<1>2. Like(s, t) => (s = 401 <=> t = 401)
  BY DEF Like, Telling
<1> QED
  BY <1>1, <1>2 DEF ClassifyError

\* No type OpenAI knows decides a class by itself.
LEMMA TypesDecideNothing ==
  ASSUME NEW code, NEW type1 \in {None, "error"} \cup OpenAiTypes,
         NEW type2 \in {None, "error"} \cup OpenAiTypes
  PROVE  /\ Structured(code, type1) = Structured(code, type2)
         /\ code \in Placed => Structured(code, type1) # None
         /\ {type1, type2} \cap {"usage_limit_reached", "usage_not_included"} = {}
         /\ code \in DOMAIN StandsFor => code \notin Placed
  BY DEF Structured, TypeClass, CodeClass, Placed, StandsFor, OpenAiTypes, None

\* The five types, and the status each is for.
LEMMA TypeOfStatus ==
  ASSUME NEW status \in 100..599
  PROVE  LET type == DefaultType(status, None)
         IN  /\ type \in OpenAiTypes
             /\ type = "authentication_error"  <=> status = 401
             /\ type = "permission_error"      <=> status = 403
             /\ type = "rate_limit_error"      <=> status = 429
             /\ type = "server_error"          <=> status \in 500..599
             /\ type = "invalid_request_error"
                  <=> status \notin {401, 403, 429} \cup 500..599
  BY DEF DefaultType, OpenAiTypes, None

\* An event with a type of its own: the type's status, or a code the class goes by.
LEMMA TypeRead ==
  ASSUME NEW status \in 100..599, NEW code, NEW type \in OpenAiTypes, NEW text,
         type = DefaultType(status, None),
         code \in DOMAIN StandsFor => StandsFor[code] = type,
         \/ type # "invalid_request_error" \/ code \in Placed
         \/ {"unauthorized", "risk"} \cap text = {}
  PROVE  \/ Like(status, InferStatus(code, type, text))
         \/ code \in Placed /\ 401 \notin {status, InferStatus(code, type, text)}
<1> DEFINE read == InferStatus(code, type, text)
<1>1. /\ type = "authentication_error"  <=> status = 401
      /\ type = "permission_error"      <=> status = 403
      /\ type = "rate_limit_error"      <=> status = 429
      /\ type = "server_error"          <=> status \in 500..599
      /\ type = "invalid_request_error" <=> ~Telling(status)
  BY TypeOfStatus DEF Telling
<1>2. /\ code = "invalid_api_key" => type = "authentication_error"
      /\ code = "forbidden" => type = "permission_error"
      /\ code = "internal_server_error" => type = "server_error"
  BY DEF StandsFor
<1>3. Placed = {"rate_limit_exceeded", "insufficient_quota", "server_is_overloaded",
                "slow_down", "invalid_prompt", "context_length_exceeded"}
  BY DEF Placed, CodeClass
<1>4. CASE type = "authentication_error"
  <2>1. read = 401
    BY <1>4 DEF InferStatus
  <2> QED
    BY <1>1, <1>4, <2>1 DEF Like
<1>5. CASE type = "permission_error"
  <2>1. read = 403
    BY <1>2, <1>5 DEF InferStatus
  <2> QED
    BY <1>1, <1>5, <2>1 DEF Like
<1>6. CASE type = "rate_limit_error"
  <2>1. read = 429
    BY <1>2, <1>6 DEF InferStatus
  <2> QED
    BY <1>1, <1>6, <2>1 DEF Like
<1>7. CASE type = "server_error"
  <2>1. CASE code \in {"rate_limit_exceeded", "insufficient_quota"}
    <3>1. read \in {429, 403}
      BY <1>7, <2>1 DEF InferStatus
    <3>2. read # 401 /\ status # 401
      BY <1>1, <1>7, <3>1
    <3> QED
      BY <1>3, <2>1, <3>2
  <2>2. CASE code \notin {"rate_limit_exceeded", "insufficient_quota"}
    <3>1. read = 503
      BY <1>2, <1>7, <2>2 DEF InferStatus
    <3> QED
      BY <1>1, <1>7, <3>1 DEF Like
  <2> QED
    BY <2>1, <2>2
<1>8. CASE type = "invalid_request_error"
  <2>1. ~Telling(status) /\ status # 401
    BY <1>1, <1>8
  <2>2. CASE code \in Placed
    <3>1. read # 401
      BY <1>3, <1>8, <2>2 DEF InferStatus
    <3> QED
      BY <2>1, <2>2, <3>1
  <2>3. CASE code \notin Placed
    <3>1. "unauthorized" \notin text /\ "risk" \notin text
      BY <1>8, <2>3
    <3>2. read = 400
      BY <1>2, <1>3, <1>8, <2>3, <3>1 DEF InferStatus
    <3>3. ~Telling(read)
      BY <3>2 DEF Telling
    <3> QED
      BY <2>1, <3>3 DEF Like
  <2> QED
    BY <2>2, <2>3
<1> QED
  BY <1>4, <1>5, <1>6, <1>7, <1>8 DEF OpenAiTypes

\* A flat event has only its code to stand for the status.
LEMMA CodeRead ==
  ASSUME NEW status \in 100..599, NEW code \in DOMAIN StandsFor, NEW text,
         StandsFor[code] = DefaultType(status, None)
  PROVE  Like(status, InferStatus(code, "error", text))
<1>1. \/ code = "invalid_api_key" /\ status = 401
      \/ code = "forbidden" /\ status = 403
      \/ code = "internal_server_error" /\ status \in 500..599
  BY TypeOfStatus DEF StandsFor
<1> QED
  BY <1>1 DEF InferStatus, Like

\* An error settles the account alike whether it comes as an answer or as an event:
\* the tables of infer_response_error_status and of default_openai_error_type agree
\* wherever they are both asked of the same error.
THEOREM ReportsSettleAlike == Spec => []ReportsAgree
<1>1. MetInv => ReportsAgree
  <2> SUFFICES ASSUME MetInv, report # NoReport, report.carrier = "http",
                      report.type \in {None, DefaultType(report.status, None)},
                      report.code \in DOMAIN StandsFor =>
                        StandsFor[report.code] = DefaultType(report.status, None),
                      Mentions(report.code) \subseteq report.says,
                      \/ DefaultType(report.status, None) # "invalid_request_error"
                      \/ report.code \in Placed
                      \/ {"unauthorized", "risk"} \cap report.says = {},
                      NEW carrier \in Events,
                      ~(carrier = "flat" /\ report.code \notin DOMAIN StandsFor)
               PROVE  ClassOf([report EXCEPT !.carrier = carrier,
                                             !.type = DefaultType(report.status, None),
                                             !.status = Absent]) = settled.class
    BY DEF ReportsAgree
  <2> DEFINE type == DefaultType(report.status, None)
             r == [report EXCEPT !.carrier = carrier, !.type = type, !.status = Absent]
  <2>1. /\ report \in Report /\ report \in Reports
        /\ settled = [class |-> ClassOf(report), delay |-> DelayOf(report)]
    BY DEF MetInv
  <2>2. report.status \in 100..599
    BY <2>1, PathsAssumption DEF Answers, Report
  <2>3. /\ type \in OpenAiTypes /\ type # "error"
        /\ Mentions(report.type) = {}
    BY <2>2, TypeOfStatus DEF OpenAiTypes, Mentions, None
  <2>4. settled.class = ClassifyError(report.status, report.code, report.type, report.says,
                                      "access_token_rejected")
    <3>1. ClassOf(report) = EventClass(report)
      BY <2>1, ClassByCarrier
    <3>2. /\ TypeIn(report) = report.type /\ StatusOf(report) = report.status
          /\ TextOf(report) = report.says
      BY <2>3 DEF TypeIn, StatusOf, TextOf, Answers
    <3> QED
      BY <2>1, <3>1, <3>2 DEF EventClass
  <2> HIDE DEF type
  <2>5. /\ r.carrier = carrier /\ r.status = Absent /\ r.type = type
        /\ r.code = report.code /\ r.says = report.says
    BY <2>1 DEF Report
  <2>6. ClassOf(r) = EventClass(r)
    BY <2>5, ClassOfEvent
  <2> HIDE DEF r
  <2>7. /\ ClassOf(r) = EventClass(r) /\ TextOf(r) = report.says
        /\ StatusOf(r) = InferStatus(report.code, TypeIn(r), report.says)
        /\ TypeIn(r) = IF carrier = "flat" THEN "error" ELSE type
    BY <2>5, <2>6 DEF TextOf, StatusOf, TypeIn, Answers, Events
  <2>8. \/ Like(report.status, StatusOf(r))
        \/ report.code \in Placed /\ 401 \notin {report.status, StatusOf(r)}
    <3>1. CASE carrier = "flat"
      BY <2>2, <2>7, <3>1, CodeRead DEF type
    <3>2. CASE carrier # "flat"
      <4>1. StatusOf(r) = InferStatus(report.code, DefaultType(report.status, None), report.says)
        BY <2>7, <3>2 DEF type
      <4>2. DefaultType(report.status, None) \in OpenAiTypes
        BY <2>3 DEF type
      <4> QED
        BY <2>2, <4>1, <4>2, TypeRead
    <3> QED
      BY <3>1, <3>2
  <2>9. /\ report.type \in {None, "error"} \cup OpenAiTypes
        /\ TypeIn(r) \in {None, "error"} \cup OpenAiTypes
    BY <2>3, <2>7 DEF type
  <2>10. /\ Structured(report.code, report.type) = Structured(report.code, TypeIn(r))
         /\ report.code \in Placed => Structured(report.code, report.type) # None
    BY <2>9, TypesDecideNothing
  <2>11. EventClass(r) = ClassifyError(StatusOf(r), report.code, TypeIn(r), report.says,
                                       "access_token_rejected")
    BY <2>5, <2>7 DEF EventClass
  <2>12. report.status \in Int /\ StatusOf(r) \in Int
    BY <2>2, <2>7 DEF InferStatus
  <2> QED
    BY <2>4, <2>7, <2>8, <2>10, <2>11, <2>12, LikeClasses DEF r, type
<1> QED
  BY <1>1, MetInvariant, PTL
=============================================================================

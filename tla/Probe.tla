--------------------------------- MODULE Probe ---------------------------------
(***************************************************************************)
(* internal/registry: what CheckImageAvailability concludes from what a     *)
(* registry answers. One answer per credential that applies to the image    *)
(* (Keyring.tla; one anonymous attempt when none does):                     *)
(*                                                                          *)
(*   [status, exhausted]                                                    *)
(*                                                                          *)
(* "status" is the outcome of the request: OK, the status of a transport    *)
(* error, or Lost when no HTTP answer came; "exhausted" whether the last    *)
(* headers say ratelimit-remaining: 0. Left out: time-outs but as Lost, and *)
(* the transport's retries of the statuses it retries.                      *)
(***************************************************************************)
EXTENDS Integers, Sequences, SequencesExt

OK == 200
Lost == 0

\* Mutant: the first credential decides.
FirstOnly(answers) == SubSeq(answers, 1, 1)

\* Execute: the credentials are tried in order up to the first that works.
Tried(answers) ==
    LET success == SelectInSeq(answers, LAMBDA a : a.status = OK)
    IN  IF success = 0 THEN answers ELSE SubSeq(answers, 1, success)

Succeeds(answers) == Last(Tried(answers)).status = OK

\* TransportStatusCode of the joined errors: of the first that is a transport
\* error.
StatusCode(answers) ==
    LET k == SelectInSeq(answers, LAMBDA a : a.status # Lost)
    IN  IF k = 0 THEN Lost ELSE answers[k].status

\* IsRateLimited(GetLastHeaders()): a lost answer leaves the headers before it.
RateLimited(answers) ==
    LET k == SelectLastInSeq(Tried(answers), LAMBDA a : a.status # Lost)
    IN  k # 0 /\ answers[k].exhausted

\* Mutant: whatever was refused was not found.
AnyErrorIsNotFound(status) == IF status = 429 THEN "QuotaExceeded" ELSE "NotFound"

\* availabilityFromError
AvailabilityFromError(status) ==
    CASE status = 429 -> "QuotaExceeded"
      [] status = 404 -> "NotFound"
      [] status \in {401, 403} -> "InvalidAuth"
      [] OTHER -> "Unreachable"

\* checkDigestPath: a second request, for the digest of the tag.
CheckDigestPath(method, isDigest, digestAnswers) ==
    IF isDigest THEN "Available"
    ELSE IF RateLimited(digestAnswers) THEN "QuotaExceeded"
    ELSE IF Succeeds(digestAnswers) THEN "Available"
    ELSE IF StatusCode(digestAnswers) \in {405, 501} /\ method = "HEAD" THEN "Available"
    ELSE AvailabilityFromError(StatusCode(digestAnswers))

CheckImageAvailability(method, resolveDigest, isDigest, answers, digestAnswers) ==
    IF RateLimited(answers) THEN "QuotaExceeded"
    ELSE IF ~Succeeds(answers) THEN AvailabilityFromError(StatusCode(answers))
    ELSE IF resolveDigest THEN CheckDigestPath(method, isDigest, digestAnswers)
    ELSE "Available"
=============================================================================

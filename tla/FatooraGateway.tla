--------------------------- MODULE FatooraGateway ---------------------------
(***************************************************************************)
(* What the program makes of an answer of ZATCA's Fatoora service          *)
(* (lib/zatca/provider/fatooraClient.ts, fatooraProvider.ts, errors.ts).   *)
(*                                                                         *)
(* An answer is what came over the wire: nothing, or a status with a body  *)
(* that is or is not JSON and has or has not the expected fields.  Each    *)
(* operation maps it to a verdict: a result, or the category of the        *)
(* ZatcaError that is thrown.                                              *)
(***************************************************************************)
EXTENDS Naturals

NoAnswer == {"timeout", "unreachable"}
Statuses == {200, 202, 208, 303, 400, 401, 403, 404, 406, 409, 428, 429, 500}
Bodies == {"not_json", "unexpected", "positive", "negative"}
Answers == [status : {0}, body : NoAnswer] \cup [status : Statuses, body : Bodies]

Arrived(w) == w.body \notin NoAnswer
Expected(w) == w.body \in {"positive", "negative"}

ErrorCategories == {"configuration", "authentication", "authorization", "validation", "duplicate",
                    "rate_limited", "network", "external_service"}
Results == {"issued", "not_compliant", "compliance_pending", "reported", "cleared", "rejected",
            "connected", "credential_rejected"}

Retryable(category) == category \in {"rate_limited", "network", "external_service"}

\* fatooraRequestComplianceCsid.  No credential is sent, so 401 is like any other status.
ComplianceCsid(w) ==
    IF ~Arrived(w) THEN "network"
    ELSE IF w.status \in {400, 406} THEN "validation"
    ELSE IF w.status = 200 /\ Expected(w) THEN "issued" ELSE "external_service"

\* fatooraRequestProductionCsidOnboarding.
ProductionCsid(w) ==
    IF ~Arrived(w) THEN "network"
    ELSE IF w.status = 401 THEN "authentication"
    ELSE IF w.status \in {400, 406} THEN "validation"
    ELSE IF w.status = 200 /\ Expected(w) THEN "issued" ELSE "external_service"

\* fatooraRequestProductionCsidRenewal: 428 carries a certificate of its own.
RenewedCsid(w) ==
    IF w.status = 428 THEN (IF Expected(w) THEN "not_compliant" ELSE "external_service")
    ELSE ProductionCsid(w)

\* What the body of an answer says of a document.
Normalized(w, accepted) ==
    IF ~Expected(w) THEN "external_service" ELSE IF w.body = "positive" THEN accepted ELSE "rejected"

\* fatooraRequestComplianceInvoice: 400 carries a result too.
ComplianceInvoice(w) ==
    IF ~Arrived(w) THEN "network"
    ELSE IF w.status = 401 THEN "authentication"
    ELSE IF w.status = 406 THEN "validation"
    ELSE IF w.status \in {200, 400} THEN Normalized(w, "compliance_pending") ELSE "external_service"

\* fatooraRequest, and the result of clearing or reporting.
Submission(w, accepted) ==
    IF ~Arrived(w) THEN "network"
    ELSE IF w.status = 401 THEN "authentication"
    ELSE IF w.status = 403 THEN "authorization"
    ELSE IF w.status = 429 THEN "rate_limited"
    ELSE IF w.status >= 500 \/ w.body = "not_json" THEN "external_service"
    ELSE IF w.status \in {208, 409} THEN "duplicate"
    ELSE IF w.status = 303 THEN "configuration"
    ELSE IF w.status >= 400 THEN "validation"
    ELSE Normalized(w, accepted)
ClearInvoice(w) == Submission(w, "cleared")
ReportInvoice(w) == Submission(w, "reported")

\* fatooraProbe and checkConnection: whatever is not 401 or 403 counts as a connection.
CheckConnection(w) ==
    IF ~Arrived(w) THEN "network"
    ELSE IF w.status \in {401, 403} THEN "credential_rejected" ELSE "connected"

-----------------------------------------------------------------------------
\* An answer that did not arrive, or of a service that is down, never settles anything: whatever the
\* operation makes of it may be tried again.
ASSUME LostAnswersRetried ==
    \A w \in Answers : ~Arrived(w) \/ w.status = 500 =>
        \A v \in {ComplianceCsid(w), ProductionCsid(w), RenewedCsid(w), ComplianceInvoice(w),
                  ClearInvoice(w), ReportInvoice(w)} : Retryable(v)

\* Only a success with the expected fields is taken for an acceptance or a certificate.
ASSUME OnlyAcceptedIsAccepted ==
    \A w \in Answers :
        /\ ClearInvoice(w) = "cleared" \/ ReportInvoice(w) = "reported" => w.status \in {200, 202} /\ w.body = "positive"
        /\ "issued" \in {ComplianceCsid(w), ProductionCsid(w), RenewedCsid(w)} => w.status = 200 /\ Expected(w)

=============================================================================

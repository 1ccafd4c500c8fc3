------------------------------- MODULE Config -------------------------------
(***************************************************************************)
(* config.Load (internal/config/config.go): what the server makes of its   *)
(* environment.  An environment is a record with one field per variable,   *)
(* holding what the parsers tell apart.  Which refusal is reported first   *)
(* is wording, so a refusal is the set of parsers that refuse.             *)
(***************************************************************************)
EXTENDS Integers, Sequences

\* A numeric variable or a duration.
Unset == [text |-> "", val |-> 0]
Bad == [text |-> "bad", val |-> 0]
Given(n) == [text |-> "given", val |-> n]
OrDefault(raw, default) == IF raw = Unset THEN default ELSE raw.val

\* parseIntEnv: zero is accepted for every threshold.
BadInt(raw) == raw = Bad \/ raw.val < 0

\* parseBool
BadBool(raw) == raw \notin {"", "true", "false"}
ParseBool(raw, default) == IF raw = "" THEN default ELSE raw = "true"

\* Client ids: none, given by the operator, or registered by the n-th login.
NoClient == <<"none", 0>>
AppClient == <<"given", 0>>
DcrClient(n) == <<"dcr", n>>

AuthMode(e) == IF e.user /\ e.password THEN "password" ELSE "oauth"

-----------------------------------------------------------------------------
BaseRefuses(e) == \/ e.url \in {"", "bad"}
                  \/ e.user # e.password
                  \/ e.logLevel = "bad"
                  \/ e.httpTimeout = Bad

\* Fault: a secret without a client id is let through.
SecretAccepted(e) == FALSE

SecretAlone(e) == e.secret /\ e.client = NoClient

\* loadOAuth looks at its variables in either mode; only the place of the token
\* file may stay unknown in password mode.
OAuthRefuses(e) == \/ e.scopesGiven /\ e.scopes = <<>>
                   \/ SecretAlone(e)
                   \/ e.redirect = "bad"
                   \/ e.loginTimeout = Bad
                   \/ BadBool(e.noninteractive) \/ BadBool(e.resourceOnRefresh)
                   \/ e.tokenFile = "" /\ ~e.home /\ AuthMode(e) = "oauth"

ResultsRefuse(e) == \/ BadBool(e.spoolEnabled) \/ BadBool(e.autoLimit)
                    \/ e.spoolTTL # Unset /\ e.spoolTTL.val <= 0
                    \/ BadInt(e.spoolMaxBytes) \/ BadInt(e.inlineMax) \/ BadInt(e.previewRows)

Refusals(e) == {p \in {"base", "oauth", "results"} :
                  CASE p = "base" -> BaseRefuses(e)
                    [] p = "oauth" -> OAuthRefuses(e)
                    [] p = "results" -> ResultsRefuse(e)}

-----------------------------------------------------------------------------
\* The part of Config that the start of the server reads.  A url stands for the
\* resource that it becomes with /api/metabase-mcp after it.  bounded: an HTTP
\* timeout of zero or less is accepted, and is no limit at all.
Load(e) == [
  refusals |-> Refusals(e),
  mode |-> AuthMode(e),
  bounded |-> OrDefault(e.httpTimeout, 30) > 0,
  resource |-> IF e.resource = "" THEN e.url ELSE e.resource,
  scopes |-> IF e.scopesGiven THEN e.scopes ELSE <<"mb:full">>,
  client |-> e.client,
  secret |-> e.secret,
  fixedPort |-> e.redirect = "fixed",
  noninteractive |-> ParseBool(e.noninteractive, FALSE)]

=============================================================================

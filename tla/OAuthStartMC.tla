---------------------------- MODULE OAuthStartMC ----------------------------
(***************************************************************************)
(* OAuthStart on small instances: a few environments around a plain one,   *)
(* and two versions of what the authorization server publishes.            *)
(***************************************************************************)
EXTENDS OAuthStart

Plain == [url |-> "mb", user |-> FALSE, password |-> FALSE, logLevel |-> "",
          httpTimeout |-> Unset, resource |-> "", scopesGiven |-> FALSE, scopes |-> <<>>,
          client |-> NoClient, secret |-> FALSE, redirect |-> "", loginTimeout |-> Unset,
          noninteractive |-> "", resourceOnRefresh |-> "", tokenFile |-> "", home |-> TRUE,
          spoolEnabled |-> "", autoLimit |-> "", spoolTTL |-> Unset,
          spoolMaxBytes |-> Unset, inlineMax |-> Unset, previewRows |-> Unset]

\* A client of the operator's, and no HTTP timeout.
Confidential == [Plain EXCEPT !.client = AppClient, !.secret = TRUE, !.httpTimeout = Given(0)]

\* Two scopes and a fixed port; and the same scopes in the other order, for a start
\* without a user.
Scoped == [Plain EXCEPT !.redirect = "fixed", !.scopesGiven = TRUE, !.scopes = <<"r", "w">>]
Headless == [Plain EXCEPT !.scopesGiven = TRUE, !.scopes = <<"w", "r">>,
                          !.noninteractive = "true"]

\* A secret that belongs to no client: refused.
Orphan == [Plain EXCEPT !.secret = TRUE]

MCEnvs == {Plain, Confidential, Scoped, Headless, Orphan}

Metadata == [issuer |-> "as1", resource |-> "mb", token |-> "t1", authorize |-> "a1",
             s256 |-> TRUE, register |-> TRUE, methods |-> {"client_secret_post"}]

\* Moved to another authorization server, which registers no clients and takes no
\* secrets.
MCPublished == {Metadata, [Metadata EXCEPT !.issuer = "as2", !.token = "t2",
                                           !.register = FALSE, !.methods = {}]}

MCHeaders == {<<>>}

\* Password mode, with each of the variables that it has no use for wrong.
Password == [Plain EXCEPT !.user = TRUE, !.password = TRUE]
PasswordEnvs == {Password, [Password EXCEPT !.user = FALSE],
                 [Password EXCEPT !.redirect = "bad"], [Password EXCEPT !.secret = TRUE],
                 [Password EXCEPT !.loginTimeout = Bad],
                 [Password EXCEPT !.noninteractive = "maybe"],
                 [Password EXCEPT !.scopesGiven = TRUE]}

=============================================================================

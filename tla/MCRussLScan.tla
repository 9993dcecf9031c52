---------------------------- MODULE MCRussLScan ----------------------------
(***************************************************************************)
(* Servers for checking RussLScan.                                         *)
(***************************************************************************)
EXTENDS RussLScan

CONSTANTS a1, site, fallback

Modern ==
  [ validName |-> TRUE, chain |-> 2, leafParses |-> TRUE, issuerParses |-> TRUE,
    responder |-> "url", revocation |-> "Good", logged |-> 2, remaining |-> 3 * Day,
    versions |-> {"TLS 1.2", "TLS 1.3"}, suites |-> Suites, trusted |-> TRUE,
    up |-> {a1}, sni |-> [a \in {a1} |-> site], bare |-> [a \in {a1} |-> fallback],
    ip |-> FALSE, staples |-> TRUE, issues |-> {"tls12", "tls13"}, http |-> "header" ]

\* An up-to-date server that resumes sessions on either version, the same under
\* a chain nobody trusts, one that still speaks the deprecated versions, and one
\* whose leaf does not parse.
MCServers ==
  { Modern,
    [Modern EXCEPT !.trusted = FALSE, !.chain = 1, !.remaining = -1],
    [Modern EXCEPT !.versions = {"TLS 1.0", "TLS 1.1", "TLS 1.2"}, !.suites = {1},
                   !.issues = {"tls12"}, !.http = "noheader"],
    [Modern EXCEPT !.leafParses = FALSE] }

\* Trusted and up to date.
MCModern == {Modern}

\* Accepting the deprecated versions next to the current ones, under a chain the
\* native roots do not verify.
MCLegacy == {[Modern EXCEPT !.versions = {"TLS 1.0", "TLS 1.1", "TLS 1.2", "TLS 1.3"},
                            !.trusted = FALSE]}
=============================================================================

---------------------------- MODULE PrettyReport ----------------------------
(***************************************************************************)
(* `output::pretty::print`: which sections and which rows the table shows  *)
(* of a scan result, and what the rows of the connection section say.      *)
(* Every row is the operator named after it; layout, and the rows that     *)
(* copy a field, are left out.  X_y is a deliberately wrong variant of X.  *)
(***************************************************************************)
CONSTANT None   \* an Option that is None, an empty list

\* The verdicts that made it into the list of cipher suites: a task that
\* panicked has none.
Listed(ciphers) ==
  IF ciphers = None THEN {} ELSE {t \in DOMAIN ciphers : ciphers[t] # "missing"}

Sections(ciphers, connection, vulns) ==
  {"Certificate", "Protocol Support"}
  \cup (IF Listed(ciphers) # {} THEN {"Cipher Suites"} ELSE {})
  \cup (IF connection # None THEN {"Connection Properties"} ELSE {})
  \cup (IF vulns # None THEN {"Vulnerability Checks"} ELSE {})

\* The rows of the certificate table that are not always there.
OptionalRows(certificate) ==
  (IF certificate.ocsp # None THEN {"OCSP Status"} ELSE {})
  \cup (IF certificate.ct # None THEN {"CT Log Entries"} ELSE {})

FsRow(fs) ==
  IF fs.all_forward_secret THEN "All negotiated suites" ELSE "Non-ephemeral suite negotiated"

StaplingRow(probes) == IF probes.staple THEN "Yes" ELSE "No"

\* The mechanisms listed, or the verdict that there is none.
ResumptionRow(probes) == IF probes.tickets # {} THEN probes.tickets ELSE {"Not offered"}

\* Some(h) with the header, Some(h) without it, None.
HstsRow_TwoCases(probes) == IF probes.hsts = "header" THEN "max-age" ELSE "Not present"
HstsRow(probes) ==
  CASE probes.hsts = "header" -> "max-age"
    [] probes.hsts = "noheader" -> "Not present"
    [] probes.hsts = "none" -> "(probe failed)"
=============================================================================

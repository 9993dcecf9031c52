----------------------------- MODULE RussLScan -----------------------------
(***************************************************************************)
(* A whole run of the program: `main` turns the command line into          *)
(* ScanOpts, `scanner::run_scan` runs the stages one after the other, and  *)
(* the report is printed or the error is.                                  *)
(*                                                                         *)
(* The certificate, cipher and connection stages are the one-shot reports  *)
(* that CertInspect, CipherEnum and ConnectionInspect are checked to       *)
(* implement (CertReport, CipherReport, ConnectionReport); the protocol    *)
(* stage is ProtocolProbe itself, vulns::check_all and                     *)
(* connection::forward_secrecy are functions of its results, and the       *)
(* printed table is PrettyReport.  X_y is a deliberately wrong variant     *)
(* of X.                                                                   *)
(***************************************************************************)
EXTENDS Integers, Sequences

CONSTANTS
  TimeoutSecs,  \* --timeout; 0 disables the limit
  Suites,       \* the probed cipher suites
  Day,          \* seconds in a day
  None,         \* an Option that is None, an empty report section
  Refuse,       \* "no certificate: the handshake is aborted"
  Servers       \* the servers that may be scanned

VARIABLES
  server,       \* the scanned server, fixed for the run
  flags,        \* the checks named on the command line
  all,          \* --all
  stage,        \* the stage of run_scan, then "print" and "exited"
  certificate,  \* ScanResult.certificate
  step,         \* inside the protocol stage, see ProtocolProbe
  protocols,    \* ScanResult.protocols
  ciphers,      \* ScanResult.cipher_suites
  vulns,        \* ScanResult.vulnerabilities
  connection,   \* ScanResult.connection
  exit          \* the exit code, None while running

config == <<server, flags, all>>
vars == <<server, flags, all, stage, certificate, step, protocols, ciphers, vulns, connection, exit>>

Checks == {"ciphers", "vulns", "ocsp", "ct", "connection"}

Cert(outcome, opts) == INSTANCE CertReport
Cipher(report) == INSTANCE CipherReport
Conn(outcome) == INSTANCE ConnectionReport
Proto == INSTANCE ProtocolProbe
Pretty == INSTANCE PrettyReport

\* None is told apart from every value it could be mistaken for.
ASSUME RunAssumption ==
  /\ None \notin {"success", "failure", "no verdict"}
  /\ None \notin [poodle : BOOLEAN, beast : BOOLEAN, tls11 : BOOLEAN, heartbleed : BOOLEAN]
  /\ \A s \in Servers :
       /\ s.revocation # None
       /\ s.http \in {"header", "noheader", "nothttp"} /\ s.issues \subseteq {"tls12", "tls13"}
       /\ None \notin Cipher(None)!Truthful(s)
       /\ \A opts \in SUBSET {"ocsp", "ct"} : None \notin Cert(None, {})!Reports(s, opts)

\* `cli.x || cli.all`, field by field.
Requested_OcspNotInAll == IF all THEN (Checks \ {"ocsp"}) \cup flags ELSE flags
Requested == IF all THEN Checks ELSE flags

\* vulns::check_all: POODLE and Heartbleed are constants.
Supports(v) == \E k \in 1..Len(protocols) : protocols[k].version = v /\ protocols[k].supported
CheckAll == [poodle |-> FALSE, beast |-> Supports("TLS 1.0"), tls11 |-> Supports("TLS 1.1"),
             heartbleed |-> FALSE]

\* connection::forward_secrecy: the supported versions with their verdicts,
\* and whether all of them, and at least one, are forward secret.
IsForwardSecret(p) == p.version = "TLS 1.3" \/ p.cipher = "ECDHE"
Rows == {p \in {protocols[k] : k \in 1..Len(protocols)} : p.supported}
ForwardSecrecy_Vacuous ==
  [all_forward_secret |-> \A p \in Rows : IsForwardSecret(p), protocols |-> Rows]
ForwardSecrecy ==
  [all_forward_secret |-> Rows # {} /\ \A p \in Rows : IsForwardSecret(p), protocols |-> Rows]

-----------------------------------------------------------------------------
Init ==
  /\ server \in Servers
  /\ flags \in SUBSET Checks
  /\ all \in BOOLEAN
  /\ stage = "certificate"
  /\ certificate = None
  /\ step = "dialing" /\ protocols = <<>>
  /\ ciphers = None
  /\ vulns = None
  /\ connection = None
  /\ exit = None

\* cert::inspect; its error ends the run.
CertificateStage ==
  /\ stage = "certificate"
  /\ \E o \in Cert(None, {})!Outcomes(server, Requested \cap {"ocsp", "ct"}) :
       IF o.status = "err"
       THEN stage' = "exited" /\ exit' = "failure" /\ UNCHANGED certificate
       ELSE stage' = "protocols" /\ certificate' = o /\ UNCHANGED exit
  /\ UNCHANGED <<config, step, protocols, ciphers, vulns, connection>>

\* A step of probe_protocols, which never fails.
ProtocolStage ==
  /\ stage = "protocols"
  /\ Proto!Next
  /\ stage' = IF step' = "done" THEN "ciphers" ELSE "protocols"
  /\ UNCHANGED <<flags, all, certificate, ciphers, vulns, connection, exit>>

\* ciphers::enumerate, which always returns Ok.
CipherStage ==
  /\ stage = "ciphers"
  /\ IF "ciphers" \in Requested
     THEN ciphers' \in Cipher(None)!Truthful(server) ELSE UNCHANGED ciphers
  /\ stage' = "vulns"
  /\ UNCHANGED <<config, certificate, step, protocols, vulns, connection, exit>>

VulnStage ==
  /\ stage = "vulns"
  /\ vulns' = IF "vulns" \in Requested THEN CheckAll ELSE vulns
  /\ stage' = "connection"
  /\ UNCHANGED <<config, certificate, step, protocols, ciphers, connection, exit>>

\* connection::inspect; its error costs the section, not the scan.
ConnectionStage_Fatal ==
  /\ stage = "connection"
  /\ \E o \in Conn(None)!Reports(server) \cup {Conn(None)!Err} :
       IF "connection" \notin Requested \/ o.status # "err"
       THEN /\ stage' = "print"
            /\ connection' = IF "connection" \in Requested
                             THEN [fs |-> ForwardSecrecy, probes |-> o] ELSE None
            /\ UNCHANGED exit
       ELSE stage' = "exited" /\ exit' = "failure" /\ UNCHANGED connection
  /\ UNCHANGED <<config, certificate, step, protocols, ciphers, vulns>>
ConnectionStage ==
  /\ stage = "connection"
  /\ IF "connection" \in Requested
     THEN \E o \in Conn(None)!Reports(server) \cup {Conn(None)!Err} :
            connection' = IF o.status = "err" THEN None
                          ELSE [fs |-> ForwardSecrecy, probes |-> o]
     ELSE UNCHANGED connection
  /\ stage' = "print"
  /\ UNCHANGED <<config, certificate, step, protocols, ciphers, vulns, exit>>

\* The ScanResult is printed and the program succeeds.
PrintReport ==
  /\ stage = "print"
  /\ stage' = "exited"
  /\ exit' = "success"
  /\ UNCHANGED <<config, certificate, step, protocols, ciphers, vulns, connection>>

\* The process has ended.
Terminated == stage = "exited" /\ UNCHANGED vars

Next ==
  \/ CertificateStage
  \/ ProtocolStage
  \/ CipherStage
  \/ VulnStage
  \/ ConnectionStage
  \/ PrintReport
  \/ Terminated

Spec == Init /\ [][Next]_vars

(***************************************************************************)
(* Each one-shot stage ends because the module that implements it does,    *)
(* given a --timeout (and, for the connection stage, a resolver that       *)
(* answers); the protocol stage because its timers fire.                   *)
(***************************************************************************)
ProtocolTimer == ProtocolStage /\ Proto!Expired
Fairness ==
  /\ WF_vars(CertificateStage) /\ WF_vars(ProtocolTimer) /\ WF_vars(CipherStage)
  /\ WF_vars(VulnStage) /\ WF_vars(ConnectionStage) /\ WF_vars(PrintReport)

FairSpec == Spec /\ Fairness

-----------------------------------------------------------------------------
(***************************************************************************)
(* Properties                                                              *)
(***************************************************************************)

\* Type invariant of a run (mod.rs:53-103).
TypeOK ==
  /\ server \in Servers
  /\ flags \subseteq Checks /\ all \in BOOLEAN
  /\ stage \in {"certificate", "protocols", "ciphers", "vulns", "connection", "print", "exited"}
  /\ step \in {"dialing", "handshaking", "done"}
  /\ Len(protocols) <= Len(Proto!Versions)
  /\ \A k \in 1..Len(protocols) : protocols[k].version = Proto!Versions[k]
  /\ step = "done" <=> Len(protocols) = Len(Proto!Versions)
  /\ exit \in {None, "success", "failure"}

\* Only a failed certificate inspection makes a run fail: once a certificate
\* has been read, whatever the later stages meet, the run ends by printing it
\* (mod.rs:67-92, main.rs:73-93).
CertificateIsNeverLost == [][certificate # None => exit' # "failure"]_vars

\* The printed report shows the sections and rows the command line asked for,
\* --all asking for every one, and no other.  Only three may be missing although
\* they were asked for: the CT row, the connection section, and the cipher
\* section if not one task lived to give a verdict (main.rs:64-71, mod.rs:70-92,
\* pretty.rs:32-37, 56-57, 72-73, 159-160).
ReportCoversRequest ==
  LET wanted(c) == all \/ c \in flags
      sections == Pretty!Sections(ciphers, connection, vulns)
      rows == Pretty!OptionalRows(certificate)
  IN exit = "success" =>
       /\ certificate # None /\ Len(protocols) = Len(Proto!Versions)
       /\ "OCSP Status" \in rows <=> wanted("ocsp")
       /\ "CT Log Entries" \in rows => wanted("ct")
       /\ "Cipher Suites" \in sections => wanted("ciphers")
       /\ wanted("ciphers") => \/ "Cipher Suites" \in sections
                               \/ \A t \in Suites : ciphers[t] = "missing"
       /\ "Vulnerability Checks" \in sections <=> wanted("vulns")
       /\ "Connection Properties" \in sections => wanted("connection")

\* Nothing positive in a printed report is made up, across its sections: a
\* version or suite is claimed only of a server that negotiates it under a
\* trusted chain, forward secrecy only with such a version as evidence, a
\* vulnerability only of a server that speaks the version it is inferred from
\* (handshake.rs:45-49, ciphers.rs:56-63, connection.rs:390-391, vulns.rs:28,37).
PositivesAreReal ==
  exit = "success" =>
    /\ \A k \in 1..Len(protocols) :
         protocols[k].supported => server.trusted /\ protocols[k].version \in server.versions
    /\ ciphers # None =>
         \A t \in Suites : ciphers[t] = "accepted" => server.trusted /\ t \in server.suites
    /\ connection # None /\ connection.fs.all_forward_secret =>
         server.trusted /\ {"TLS 1.2", "TLS 1.3"} \cap server.versions # {}
    /\ vulns # None => (vulns.beast => "TLS 1.0" \in server.versions)
                       /\ (vulns.tls11 => "TLS 1.1" \in server.versions)

\* Two rows of the connection section that say "no" say it of the server and
\* not of a probe that failed: "No" to a stapled OCSP response, "Not present"
\* of the HSTS header (connection.rs:222-232, 296-310, pretty.rs:98-108,
\* 136-157).  The resumption row does not: see NotOfferedIsTrue.
NegativesAreObserved ==
  exit = "success" /\ connection # None =>
    /\ Pretty!StaplingRow(connection.probes) = "No" => ~server.staples
    /\ Pretty!HstsRow(connection.probes) = "Not present" =>
         server.trusted /\ server.http = "noheader"

\* With a nonzero --timeout a run ends, whatever the network does
\* (mod.rs:40-51, main.rs:53-94).
RunEnds == <>(stage = "exited")

\* What a full scan (--all) denies of a server, the server does not do: "reports
\* which versions the server accepts", "Probes each known cipher suite
\* individually and reports whether the server accepted it" (README.md:125-131),
\* "flags servers that accept TLS 1.0", "Flags servers that accept TLS 1.1"
\* (README.md:141-142).
DenialsAreTrue ==
  exit = "success" /\ all =>
    /\ \A v \in server.versions : Supports(v)
    /\ \A t \in server.suites : ciphers[t] # "rejected"
    /\ "TLS 1.0" \in server.versions => vulns.beast
    /\ "TLS 1.1" \in server.versions => vulns.tls11

\* "Whether the server issues TLS 1.3 tickets or a resumable TLS 1.2 session"
\* (README.md:157), `supported` being "True when either resumption mechanism is
\* offered" (connection.rs:87): what the table calls "Not offered"
\* (pretty.rs:121) is not offered.
NotOfferedIsTrue ==
  exit = "success" /\ connection # None
    /\ Pretty!ResumptionRow(connection.probes) = {"Not offered"} => server.issues = {}

\* The pretty report says "Non-ephemeral suite negotiated" only if one was
\* (pretty.rs:82-85): "never dressing an unreachable check up as a pass or
\* fail" (learning/phase2.md:211-212).
NonEphemeralWasNegotiated ==
  exit = "success" /\ connection # None /\ Pretty!FsRow(connection.fs) = "Non-ephemeral suite negotiated" =>
    \E p \in Rows : ~IsForwardSecret(p)
=============================================================================

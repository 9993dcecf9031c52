------------------------- MODULE ConnectionInspect -------------------------
(***************************************************************************)
(* `scanner::connection::inspect`: three probes of one host, run           *)
(* concurrently by tokio::join! over connections of their own.             *)
(*                                                                         *)
(*   primary  a handshake with SNI behind a capture-all verifier and a     *)
(*            recording session store, then a best-effort "ticket pump";   *)
(*   no_sni   a lookup of the host, then a handshake that presents an IP   *)
(*            name, so that no SNI is sent;                                *)
(*   hsts     an HTTPS GET over a verified connection.                     *)
(*                                                                         *)
(* A host has several addresses.  Primary and hsts give the host name to   *)
(* TcpStream::connect, which tries every address; no_sni keeps only the    *)
(* first address of its own lookup.  A server says which addresses accept  *)
(* connections (up), the leaf each presents with SNI (sni) and without     *)
(* (bare, Refuse when it aborts), whether the target is an IP literal (ip),*)
(* the TLS versions it accepts, whether it staples, what it issues for     *)
(* resumption on connections of either version, and what it answers.  The  *)
(* network may lose, delay or break anything.  X_y is a deliberately wrong *)
(* variant of X.                                                           *)
(***************************************************************************)
EXTENDS Naturals

CONSTANTS
  Addresses,    \* the addresses the host resolves to
  NoAddress,    \* before a probe has one
  Leaves,       \* the certificates a server may present
  NoLeaf,       \* nothing captured
  Refuse,       \* "no certificate: the handshake is aborted"
  TimeoutSecs,  \* --timeout; 0 disables the limit
  Servers       \* the servers that may be scanned

ASSUME ConnectionAssumption ==
  /\ NoAddress \notin Addresses
  /\ Refuse \notin Leaves
  /\ TimeoutSecs \in Nat
  /\ \A s \in Servers :
       /\ s.up \subseteq Addresses
       /\ s.sni \in [Addresses -> Leaves \cup {Refuse}]
       /\ s.bare \in [Addresses -> Leaves \cup {Refuse}]
       /\ {s.ip, s.staples, s.trusted} \subseteq BOOLEAN
       /\ s.versions \subseteq {"TLS 1.0", "TLS 1.1", "TLS 1.2", "TLS 1.3"}
       /\ s.issues \subseteq {"tls12", "tls13"}
       /\ s.http \in {"header", "noheader", "nothttp"}

VARIABLES
  server,   \* the scanned server, fixed for the run
  phase,    \* where each probe is
  addr,     \* the address each probe dials or has dialled
  leaf,     \* CertCapture: first certificate handed to the verifier
  staple,   \* CertCapture: did the verifier see a stapled OCSP response?
  tickets,  \* RecordingStore: which resumption mechanisms were stored
  pc        \* inspect itself: probing, or returned "ok" or "err"

vars == <<server, phase, addr, leaf, staple, tickets, pc>>

Probes == {"primary", "no_sni", "hsts"}
Capturing == {"primary", "no_sni"}            \* probes with a CertCapture

\* What each probe can end with.
Over(p) == CASE p = "primary" -> {"done", "failed"}
             [] p = "no_sni"  -> {"leaf", "rejected", "unavailable"}
             [] p = "hsts"    -> {"header", "noheader", "none"}
\* What it goes through before.
Before(p) == CASE p = "primary" -> {"dialing", "handshaking", "presented", "pumping"}
               [] p = "no_sni"  -> {"resolving", "dialing", "handshaking", "presented"}
               [] p = "hsts"    -> {"dialing", "handshaking", "requesting"}
\* Inside a with_timeout; every other wait has another timer or none.
OnNetwork == {"dialing", "handshaking", "presented", "requesting"}
Phases == OnNetwork \cup {"resolving", "pumping", "done", "failed", "leaf", "rejected",
                          "unavailable", "header", "noheader", "none"}

\* The leaf the server at address a presents to probe p.  An IP target makes
\* both probes present an IP name.
Serves(p, a) == IF p = "primary" /\ ~server.ip THEN server.sni[a] ELSE server.bare[a]

\* rustls offers TLS 1.2 and 1.3; the highest version in common is negotiated,
\* and without one no handshake gets as far as a certificate.
Common == server.versions \cap {"TLS 1.2", "TLS 1.3"}
Negotiated == IF "TLS 1.3" \in Common THEN "TLS 1.3" ELSE "TLS 1.2"

-----------------------------------------------------------------------------
Init ==
  /\ server \in Servers
  /\ phase = [p \in Probes |-> IF p = "no_sni" THEN "resolving" ELSE "dialing"]
  /\ addr = [p \in Probes |-> NoAddress]
  /\ leaf = [p \in Capturing |-> NoLeaf]
  /\ staple = FALSE
  /\ tickets = {}
  /\ pc = "probing"

Goto(p, s) == phase' = [phase EXCEPT ![p] = s]

\* no_sni's lookup_host answers; the first address is kept.
Resolved ==
  /\ phase["no_sni"] = "resolving"
  /\ \E a \in Addresses : addr' = [addr EXCEPT !["no_sni"] = a]
  /\ Goto("no_sni", "dialing")
  /\ UNCHANGED <<server, leaf, staple, tickets, pc>>

\* The lookup fails or yields no address.
Unresolved ==
  /\ phase["no_sni"] = "resolving"
  /\ Goto("no_sni", "unavailable")
  /\ UNCHANGED <<server, addr, leaf, staple, tickets, pc>>

\* The TCP connection of probe p is established.
Connected(p) ==
  /\ phase[p] = "dialing"
  /\ \E a \in server.up :
       /\ p = "no_sni" => a = addr[p]
       /\ addr' = [addr EXCEPT ![p] = a]
  /\ Goto(p, "handshaking")
  /\ UNCHANGED <<server, leaf, staple, tickets, pc>>

\* The server's certificate reaches CertCapture::verify_server_cert, which
\* records it, and the stapled response if there is one, and accepts it.  The
\* capture of no_sni also sees a staple, which nobody reads.
Presented_AnyStaple(p) ==
  /\ phase[p] = "handshaking"
  /\ Common # {}
  /\ Serves(p, addr[p]) # Refuse
  /\ leaf' = [leaf EXCEPT ![p] = Serves(p, addr[p])]
  /\ staple' = IF p = "primary" THEN TRUE ELSE staple
  /\ Goto(p, "presented")
  /\ UNCHANGED <<server, addr, tickets, pc>>
Presented(p) ==
  /\ phase[p] = "handshaking"
  /\ Common # {}
  /\ Serves(p, addr[p]) # Refuse
  /\ leaf' = [leaf EXCEPT ![p] = Serves(p, addr[p])]
  /\ staple' = IF p = "primary" THEN server.staples ELSE staple
  /\ Goto(p, "presented")
  /\ UNCHANGED <<server, addr, tickets, pc>>

\* The primary handshake completes.  If it negotiated TLS 1.2, a resumable
\* session is stored with it.
PrimaryCompleted_SwappedFlag ==
  /\ phase["primary"] = "presented"
  /\ tickets' = IF Negotiated = "TLS 1.2" /\ "tls12" \in server.issues THEN tickets \cup {"tls13"}
                ELSE tickets
  /\ Goto("primary", "pumping")
  /\ UNCHANGED <<server, addr, leaf, staple, pc>>
PrimaryCompleted ==
  /\ phase["primary"] = "presented"
  /\ tickets' = IF Negotiated = "TLS 1.2" THEN tickets \cup (server.issues \cap {"tls12"})
                ELSE tickets
  /\ Goto("primary", "pumping")
  /\ UNCHANGED <<server, addr, leaf, staple, pc>>

\* A TLS 1.3 NewSessionTicket is processed while the client is reading.
TicketStored ==
  /\ phase["primary"] = "pumping"
  /\ Negotiated = "TLS 1.3"
  /\ "tls13" \in server.issues \ tickets
  /\ tickets' = tickets \cup {"tls13"}
  /\ UNCHANGED <<server, phase, addr, leaf, staple, pc>>

\* pump_tickets is over: it read something, it failed, or its own 3 s timer
\* fired; the outcome is dropped.
PumpOver_Propagated ==
  /\ phase["primary"] = "pumping"
  /\ \E s \in {"done", "failed"} : Goto("primary", s)
  /\ UNCHANGED <<server, addr, leaf, staple, tickets, pc>>
PumpOver ==
  /\ phase["primary"] = "pumping"
  /\ Goto("primary", "done")
  /\ UNCHANGED <<server, addr, leaf, staple, tickets, pc>>

\* A completed handshake has presented a certificate, so a leaf is there.
NoSniCompleted ==
  /\ phase["no_sni"] = "presented"
  /\ Goto("no_sni", "leaf")
  /\ UNCHANGED <<server, addr, leaf, staple, tickets, pc>>

\* The verified handshake of the HSTS probe completes.
HstsCompleted ==
  /\ phase["hsts"] = "handshaking"
  /\ Common # {}
  /\ server.trusted
  /\ Goto("hsts", "requesting")
  /\ UNCHANGED <<server, addr, leaf, staple, tickets, pc>>

\* A parseable HTTP response has been read to its end: with or without the
\* header.  Anything else is a failure of the request.
HstsAnswered ==
  /\ phase["hsts"] = "requesting"
  /\ server.http # "nothttp"
  /\ Goto("hsts", server.http)
  /\ UNCHANGED <<server, addr, leaf, staple, tickets, pc>>

\* What probe p makes of an error or of an expired timer.
Lost_Escapes(p) ==
  Goto(p, CASE p = "primary" -> "failed" [] p = "no_sni" -> "failed" [] p = "hsts" -> "none")
Lost_NoHeader(p) ==
  Goto(p, CASE p = "primary" -> "failed" [] p = "no_sni" -> "rejected" [] p = "hsts" -> "noheader")
Lost(p) ==
  Goto(p, CASE p = "primary" -> "failed" [] p = "no_sni" -> "rejected" [] p = "hsts" -> "none")

\* An awaited network operation of probe p returns an error.
Failed(p) ==
  /\ phase[p] \in OnNetwork
  /\ Lost(p)
  /\ UNCHANGED <<server, addr, leaf, staple, tickets, pc>>

\* The timer of probe p's with_timeout fires.
Expired_ConnectOnly(p) ==
  /\ TimeoutSecs # 0
  /\ phase[p] = "dialing"
  /\ Lost(p)
  /\ UNCHANGED <<server, addr, leaf, staple, tickets, pc>>
Expired(p) ==
  /\ TimeoutSecs # 0
  /\ phase[p] \in OnNetwork
  /\ Lost(p)
  /\ UNCHANGED <<server, addr, leaf, staple, tickets, pc>>

\* classify_sni on an ended no_sni probe.
Compared == IF leaf["primary"] = leaf["no_sni"] THEN "same-certificate" ELSE "different-certificate"
SniOutcome_LeafFirst ==
  IF leaf["no_sni"] # NoLeaf THEN Compared
  ELSE IF server.ip THEN "not-applicable"
  ELSE IF phase["no_sni"] = "unavailable" THEN "unknown"
  ELSE "rejected-without-sni"
SniOutcome ==
  IF server.ip THEN "not-applicable"
  ELSE CASE phase["no_sni"] = "unavailable" -> "unknown"
         [] phase["no_sni"] = "rejected" -> "rejected-without-sni"
         [] phase["no_sni"] = "leaf" -> Compared

\* The ConnectionProperties an Ok return carries.
Report == [staple |-> staple, tickets |-> tickets, sni |-> SniOutcome, hsts |-> phase["hsts"]]

\* join! is ready once all three are; then `primary?`, then the report.
Return_HstsLeftRunning ==
  /\ pc = "probing"
  /\ \A p \in Capturing : phase[p] \in Over(p)
  /\ pc' = IF phase["primary"] = "failed" THEN "err" ELSE "ok"
  /\ UNCHANGED <<server, phase, addr, leaf, staple, tickets>>
Return ==
  /\ pc = "probing"
  /\ \A p \in Probes : phase[p] \in Over(p)
  /\ pc' = IF phase["primary"] = "failed" THEN "err" ELSE "ok"
  /\ UNCHANGED <<server, phase, addr, leaf, staple, tickets>>

\* inspect has returned; nothing is left to do.
Terminated == pc # "probing" /\ UNCHANGED vars

Next ==
  \/ Resolved
  \/ Unresolved
  \/ \E p \in Probes : Connected(p) \/ Failed(p) \/ Expired(p)
  \/ \E p \in Capturing : Presented(p)
  \/ PrimaryCompleted
  \/ TicketStored
  \/ PumpOver
  \/ NoSniCompleted
  \/ HstsCompleted
  \/ HstsAnswered
  \/ Return
  \/ Terminated

Spec == Init /\ [][Next]_vars

(***************************************************************************)
(* tokio fires due timers (with_timeout's and the pump's) and polls a      *)
(* ready join!.  The network owes nothing.                                 *)
(***************************************************************************)
RuntimeFairness ==
  /\ \A p \in Probes : WF_vars(Expired(p))
  /\ WF_vars(PumpOver)
  /\ WF_vars(Return)

RuntimeSpec == Spec /\ RuntimeFairness

\* As above, with a system resolver that answers or gives up in the end.
ResolvingSpec == RuntimeSpec /\ WF_vars(Resolved \/ Unresolved)

-----------------------------------------------------------------------------
(***************************************************************************)
(* Properties                                                              *)
(***************************************************************************)

\* Type invariant of the three probes (connection.rs:110-310).
TypeOK ==
  /\ server \in Servers
  /\ phase \in [Probes -> Phases]
  /\ \A p \in Probes : phase[p] \in Before(p) \cup Over(p)
  /\ addr \in [Probes -> Addresses \cup {NoAddress}]
  /\ leaf \in [Capturing -> Leaves \cup {NoLeaf}]
  /\ staple \in BOOLEAN
  /\ tickets \subseteq {"tls12", "tls13"}
  /\ pc \in {"probing", "ok", "err"}

\* "it can never discard an otherwise-successful probe" (connection.rs:208-210):
\* once the primary handshake is complete nothing makes the probe, or inspect,
\* fail any more: no pump error, no timer, no failure of the other probes.
CompletedHandshakeIsKept ==
  [][phase["primary"] \in {"pumping", "done"} =>
       /\ phase'["primary"] \in {"pumping", "done"}
       /\ pc' # "err"]_vars

\* What is reported of stapling, resumption and HSTS is what this server was
\* seen to do: a staple exactly when it staples; a TLS 1.2 session exactly
\* when 1.2 is the best version it accepts and it issues one there; a TLS 1.3
\* ticket only if it accepts 1.3 and issues one there (the pump may miss it);
\* a word on HSTS, for or against, only after an HTTP response over a verified
\* connection (connection.rs:222-232, 296-310).
ReportIsObserved ==
  pc = "ok" =>
    /\ Report.staple <=> server.staples
    /\ "tls12" \in Report.tickets
         <=> "TLS 1.3" \notin server.versions /\ "tls12" \in server.issues
    /\ "tls13" \in Report.tickets
         => "TLS 1.3" \in server.versions /\ "tls13" \in server.issues
    /\ Report.hsts # "none" => server.trusted /\ Report.hsts = server.http

\* A comparison of certificates is only ever reported between two leaves that
\* were really presented, one with SNI and one without, by the addresses the
\* two probes dialled (connection.rs:343-369).
SniComparisonIsReal ==
  pc = "ok" /\ Report.sni \in {"same-certificate", "different-certificate"} =>
    /\ ~server.ip
    /\ phase["no_sni"] = "leaf"
    /\ {addr["primary"], addr["no_sni"]} \subseteq server.up
    /\ server.bare[addr["no_sni"]] # Refuse
    /\ Report.sni = "same-certificate"
         <=> server.sni[addr["primary"]] = server.bare[addr["no_sni"]]

\* No probe outlives inspect: once it has returned, no connection it opened
\* is still being driven and nothing it reported changes (connection.rs:116-121).
NoProbeOutlivesInspect == [][pc # "probing" => UNCHANGED vars]_vars

\* With a nonzero --timeout and a resolver that answers in the end, inspect
\* returns whatever the network does (connection.rs:110-130).
InspectReturns == <>(pc # "probing")

\* What run_scan sees of the three probes.
Outcome ==
  CASE pc = "probing" -> [status |-> "pending"]
    [] pc = "err" -> [status |-> "err"]
    [] pc = "ok" -> [status |-> "ok", staple |-> Report.staple, tickets |-> Report.tickets,
                     sni |-> Report.sni, hsts |-> Report.hsts]

Abstract == INSTANCE ConnectionReport WITH outcome <- Outcome

\* The concurrent probes implement the one-shot report of ConnectionReport and
\* publish it in the end (connection.rs:110-130).
ImplementsReport == Abstract!Spec

\* "Timeouts on every network op" (learning/phase1.md:18-22): with a nonzero
\* --timeout, inspect returns even if the resolver stays silent.
TimeoutBoundsInspect == <>(pc # "probing")

\* "Different certificate - the server returns a fallback/default virtual
\* host", "Rejected - the server refuses to complete a handshake without SNI"
\* (learning/phase2.md:145-148, connection.rs:259): what the report claims a
\* missing SNI does, it does at some address of the host.
SniVerdictIsAboutSni ==
  pc = "ok" =>
    /\ Report.sni = "different-certificate" => \E a \in Addresses : server.sni[a] # server.bare[a]
    /\ Report.sni = "rejected-without-sni" => \E a \in Addresses : server.bare[a] = Refuse
=============================================================================

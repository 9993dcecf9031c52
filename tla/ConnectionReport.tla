-------------------------- MODULE ConnectionReport --------------------------
(***************************************************************************)
(* What `connection::inspect` promises run_scan, with its three concurrent *)
(* probes, their timers and the resolver abstracted away: one outcome, an  *)
(* error or a report that says of the server only what it does.            *)
(***************************************************************************)
CONSTANTS
  Refuse,   \* "no certificate: the handshake is aborted"
  Servers   \* the servers that may be scanned

VARIABLES
  server,   \* the scanned server, fixed for the run
  outcome   \* what inspect returned

reportVars == <<server, outcome>>

Pending == [status |-> "pending"]
Err == [status |-> "err"]

\* Pairs of leaves that s may present to a handshake with SNI and to one
\* without, at any two of its reachable addresses.
Pairs(s) ==
  {<<s.sni[a], s.bare[b]>> : a \in {x \in s.up : s.sni[x] # Refuse},
                             b \in {x \in s.up : s.bare[x] # Refuse}}

SniOutcomes(s) ==
  IF s.ip THEN {"not-applicable"}
  ELSE {"unknown", "rejected-without-sni"}
       \cup {IF p[1] = p[2] THEN "same-certificate" ELSE "different-certificate" : p \in Pairs(s)}

\* The versions s has in common with the probes; the highest is negotiated.
Common(s) == s.versions \cap {"TLS 1.2", "TLS 1.3"}

\* Resumption mechanisms that may be reported: only what s issues on the
\* negotiated version is seen, a TLS 1.2 session always, a TLS 1.3 ticket
\* perhaps.
Resumptions(s) ==
  IF "TLS 1.3" \in s.versions THEN SUBSET (s.issues \cap {"tls13"})
  ELSE {s.issues \cap {"tls12"}}

HstsOutcomes(s) ==
  {"none"} \cup (IF s.trusted THEN {s.http} \ {"nothttp"} ELSE {})

Reports(s) ==
  IF Common(s) = {} THEN {}
  ELSE [status : {"ok"}, staple : {s.staples}, tickets : Resumptions(s),
        sni : SniOutcomes(s), hsts : HstsOutcomes(s)]

Init ==
  /\ server \in Servers
  /\ outcome = Pending

Publish ==
  /\ outcome = Pending
  /\ outcome' \in Reports(server) \cup {Err}
  /\ UNCHANGED server

Spec == Init /\ [][Publish]_reportVars /\ WF_reportVars(Publish)
=============================================================================

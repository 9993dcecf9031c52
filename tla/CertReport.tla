----------------------------- MODULE CertReport -----------------------------
(***************************************************************************)
(* What `cert::inspect` promises run_scan, with the handshake, the two     *)
(* third-party lookups and their timers abstracted away: an error, or a    *)
(* certificate whose optional fields are filled in by request only and     *)
(* never with a verdict nobody gave.                                       *)
(***************************************************************************)
EXTENDS Integers

CONSTANTS
  Day,      \* seconds in a day
  None,     \* an Option that is None
  Servers   \* the targets that may be scanned

VARIABLES
  server,   \* the scanned target, fixed for the run
  opts,     \* the optional checks asked for
  outcome   \* what inspect returned

reportVars == <<server, opts, outcome>>

Pending == [status |-> "pending"]
Err == [status |-> "err"]

\* The flag may lag behind the expiry by less than a day.
Expiries(s) == {e \in BOOLEAN : (e => s.remaining < 0) /\ (s.remaining <= -Day => e)}

\* A requested status always says something; only the responder says what
\* the certificate's status is.
Ocsps(s, o) ==
  IF "ocsp" \notin o THEN {None}
  ELSE {"no verdict"} \cup (IF s.chain >= 2 /\ s.responder = "url" THEN {s.revocation} ELSE {})

Cts(s, o) == {None} \cup (IF "ct" \in o THEN {0, s.logged} ELSE {})

Reports(s, o) ==
  [status : {"ok"}, expired : Expiries(s), ocsp : Ocsps(s, o), ct : Cts(s, o)]

\* A host name or a leaf that does not convert cannot be reported on.
Outcomes(s, o) == {Err} \cup (IF s.validName /\ s.leafParses THEN Reports(s, o) ELSE {})

Init ==
  /\ server \in Servers
  /\ opts \in SUBSET {"ocsp", "ct"}
  /\ outcome = Pending

Publish ==
  /\ outcome = Pending
  /\ outcome' \in Outcomes(server, opts)
  /\ UNCHANGED <<server, opts>>

Spec == Init /\ [][Publish]_reportVars /\ WF_reportVars(Publish)
=============================================================================

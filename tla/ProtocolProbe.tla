--------------------------- MODULE ProtocolProbe ---------------------------
(***************************************************************************)
(* `scanner::handshake::probe_protocols`: one verified handshake per       *)
(* protocol version rustls can speak, one after the other, each under its  *)
(* own timer; an attempt that fails, for whatever reason, is recorded as   *)
(* "not supported" and the next version is tried.  Its properties are      *)
(* those of a run, in RussLScan.  X_y is a deliberately wrong variant of X.*)
(***************************************************************************)
EXTENDS Naturals, Sequences

CONSTANTS
  TimeoutSecs,  \* --timeout; 0 disables the limit
  Servers       \* the servers that may be scanned: [versions, trusted, ...]

\* The versions probed, in order.
Versions == <<"TLS 1.2", "TLS 1.3">>

VARIABLES
  server,     \* the scanned server, fixed for the run
  step,       \* the attempt under way: dialing, handshaking; or done
  protocols   \* the results so far

vars == <<server, step, protocols>>

Version == Versions[Len(protocols) + 1]   \* the version being tried

Init ==
  /\ server \in Servers
  /\ step = "dialing"
  /\ protocols = <<>>

\* The key exchange of the suites rustls offers for a version: all of its
\* TLS 1.2 suites are ECDHE, and TLS 1.3 suites do not say.
Exchange(v) == IF v = "TLS 1.2" THEN "ECDHE" ELSE "any"

\* attempt_handshake is over, having negotiated a suite or not; on to the next
\* version.
Record_StopAtFirst(supported) ==
  /\ protocols' = Append(protocols, [version |-> Version, supported |-> supported,
                                    cipher |-> IF supported THEN Exchange(Version) ELSE "none"])
  /\ step' = IF supported \/ Len(protocols') = Len(Versions) THEN "done" ELSE "dialing"
  /\ UNCHANGED server
Record(supported) ==
  /\ protocols' = Append(protocols, [version |-> Version, supported |-> supported,
                                    cipher |-> IF supported THEN Exchange(Version) ELSE "none"])
  /\ step' = IF Len(protocols') = Len(Versions) THEN "done" ELSE "dialing"
  /\ UNCHANGED server

Connected ==
  /\ step = "dialing"
  /\ step' = "handshaking"
  /\ UNCHANGED <<server, protocols>>

\* The server negotiates the version under a chain the native roots verify.
Negotiated ==
  /\ step = "handshaking"
  /\ Version \in server.versions
  /\ server.trusted
  /\ Record(TRUE)

\* An error of any kind, or the timer.
Failed == step \in {"dialing", "handshaking"} /\ Record(FALSE)
Expired_ConnectOnly == step = "dialing" /\ TimeoutSecs # 0 /\ Record(FALSE)
Expired == step \in {"dialing", "handshaking"} /\ TimeoutSecs # 0 /\ Record(FALSE)

Next == Connected \/ Negotiated \/ Failed \/ Expired

Spec == Init /\ [][Next]_vars /\ WF_vars(Expired)
=============================================================================

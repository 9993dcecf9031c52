---------------------------- MODULE CipherReport ----------------------------
(***************************************************************************)
(* What `ciphers::enumerate` promises its caller, with the tasks, permits  *)
(* and timers abstracted away: one verdict per probed suite, published     *)
(* once, where "accepted" is only ever said of a suite the server really   *)
(* negotiates under a certificate chain the scanner trusts.  A suite may   *)
(* also be "rejected" (whatever the reason) or "missing" (its task         *)
(* panicked).  CipherEnum implements this specification; RussLScan uses it *)
(* as the cipher stage of a whole scan.                                    *)
(***************************************************************************)
CONSTANTS
  Suites,   \* the probed cipher suites
  Servers   \* the servers that may be scanned: [suites, trusted, ...]

VARIABLES
  server,   \* the scanned server, fixed for the run
  report    \* the published verdicts, NoReport until enumerate returns

reportVars == <<server, report>>

NoReport == <<>>
Verdicts == {"accepted", "rejected", "missing"}

Negotiates(s, t) == s.trusted /\ t \in s.suites

\* The reports an enumeration of server s may produce.
Truthful(s) ==
  {r \in [Suites -> Verdicts] : \A t \in Suites : r[t] = "accepted" => Negotiates(s, t)}

Init ==
  /\ server \in Servers
  /\ report = NoReport

Publish ==
  /\ report = NoReport
  /\ report' \in Truthful(server)
  /\ UNCHANGED server

Spec == Init /\ [][Publish]_reportVars /\ WF_reportVars(Publish)
=============================================================================

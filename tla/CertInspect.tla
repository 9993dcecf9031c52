---------------------------- MODULE CertInspect ----------------------------
(***************************************************************************)
(* `scanner::cert::inspect`: one handshake behind the capture-all          *)
(* verifier, the leaf parsed into a CertInfo, then the optional OCSP and   *)
(* CT lookups with third parties.                                          *)
(*                                                                         *)
(* A target says whether its host name converts to a ServerName            *)
(* (validName), how many certificates it sends (chain), whether leaf and   *)
(* issuer parse, which OCSP responder the leaf names (none, an unusable    *)
(* URL, a usable one), what that responder knows, how many CT entries the  *)
(* name has and how many seconds the leaf has left (remaining, negative    *)
(* once expired), and of the leaf its key, its policies and whether it     *)
(* names an organisation.  Names and times are text and left out.  A whole *)
(* HTTP exchange is one wait, since each is under a single timer; module   *)
(* HttpExchange opens it up.  X_y is a deliberately wrong variant of X.    *)
(***************************************************************************)
EXTENDS Leaf

CONSTANTS
  TimeoutSecs,  \* --timeout; 0 disables the limit
  Day,          \* seconds in a day (86400 in the code)
  None,         \* an Option that is None
  Servers       \* the targets that may be scanned

\* What ocsp_status can say.
Statuses == {"Good", "Revoked", "Unknown", "Responder error", "Responder returned HTTP",
             "No issuer certificate in chain", "No OCSP responder in certificate", "Check failed"}

\* The fields of CertInfo that the properties tell apart.
CertInfos == [days : Int, expired : BOOLEAN, ocsp : Statuses \cup {None},
              ct : Nat \cup {None}, depth : Nat, weak : BOOLEAN,
              level : Asserted \cup Inferred]

ASSUME CertAssumption ==
  /\ TimeoutSecs \in Nat
  /\ Day \in Nat \ {0}
  /\ None \notin Nat /\ None \notin Statuses /\ None \notin CertInfos
  /\ \A s \in Servers :
       /\ {s.validName, s.leafParses, s.issuerParses} \subseteq BOOLEAN
       /\ s.chain \in Nat \ {0}
       /\ s.responder \in {"none", "badurl", "url"}
       /\ s.revocation \in {"Good", "Revoked", "Unknown"}
       /\ s.logged \in Nat
       /\ s.remaining \in Int
       /\ s.key.algorithm \in STRING \ {"RSA", "DSA", "EC"}
       /\ s.key.bits \in Seq(Nat) /\ Len(s.key.bits) <= 1
       /\ s.policies \in Seq(STRING) /\ s.org \in BOOLEAN

VARIABLES
  server,  \* the scanned target, fixed for the run
  opts,    \* which optional checks were asked for, a subset of {"ocsp", "ct"}
  pc,      \* the await point inspect is at, or how it returned
  info     \* the CertInfo under construction, None before the leaf is parsed

vars == <<server, opts, pc, info>>

Handshake == {"dialing", "handshaking"}

\* Rust's i64 division truncates toward zero.
Quotient_Floor(a, b) == a \div b
Quotient(a, b) == IF a >= 0 THEN a \div b ELSE -((-a) \div b)

DaysRemaining(s) == Quotient(s.remaining, Day)
IsExpired_OnLastDay(s) == DaysRemaining(s) <= 0
IsExpired(s) == DaysRemaining(s) < 0

WeakKey(s) == IsWeakKey(OidName(s.key.algorithm), s.key.bits)
Level(s) == ClassifyValidation(s.policies, s.org)

\* The check that follows the parsed leaf, or the OCSP check.
AfterLeaf == IF "ocsp" \in opts THEN "ocsp" ELSE IF "ct" \in opts THEN "ct" ELSE "ok"
AfterOcsp == IF "ct" \in opts THEN "ct" ELSE "ok"

-----------------------------------------------------------------------------
Init ==
  /\ server \in Servers
  /\ opts \in SUBSET {"ocsp", "ct"}
  /\ pc = "dialing"
  /\ info = None

\* TCP is up; an invalid host name fails the inspection only now.
Connected ==
  /\ pc = "dialing"
  /\ pc' = IF server.validName THEN "handshaking" ELSE "err"
  /\ UNCHANGED <<server, opts, info>>

NewInfo == [days |-> DaysRemaining(server), expired |-> IsExpired(server),
            ocsp |-> None, ct |-> None, depth |-> server.chain,
            weak |-> WeakKey(server), level |-> Level(server)]

\* The handshake completes, the chain is captured and the leaf parsed.
Completed_Unparsed ==
  /\ pc = "handshaking"
  /\ info' = NewInfo
  /\ pc' = IF server.leafParses THEN AfterLeaf ELSE "err"
  /\ UNCHANGED <<server, opts>>
Completed ==
  /\ pc = "handshaking"
  /\ IF server.leafParses
     THEN info' = NewInfo /\ pc' = AfterLeaf
     ELSE pc' = "err" /\ UNCHANGED info
  /\ UNCHANGED <<server, opts>>

\* The handshake errs or its timer fires: inspect returns the error.
HandshakeLost ==
  /\ pc' = "err"
  /\ UNCHANGED <<server, opts, info>>
HandshakeFailed == pc \in Handshake /\ HandshakeLost
HandshakeExpired == pc \in Handshake /\ TimeoutSecs # 0 /\ HandshakeLost

\* ocsp::check returned s.
OcspIs(s) ==
  /\ info' = [info EXCEPT !.ocsp = s]
  /\ pc' = AfterOcsp
  /\ UNCHANGED <<server, opts>>

\* ocsp::query needs an issuer, a responder and a usable URL; otherwise it
\* ends without any traffic.
OcspReady == server.chain >= 2 /\ server.issuerParses /\ server.responder = "url"
OcspUnasked ==
  /\ pc = "ocsp"
  /\ ~OcspReady
  /\ OcspIs(IF server.chain < 2 THEN "No issuer certificate in chain"
            ELSE IF server.issuerParses /\ server.responder = "none"
                 THEN "No OCSP responder in certificate"
            ELSE "Check failed")

OcspAsked ==
  /\ pc = "ocsp"
  /\ OcspReady
  /\ pc' = "asking"
  /\ UNCHANGED <<server, opts, info>>

\* The responder answers: what it knows, an OCSP error, an HTTP error.
OcspAnswered ==
  /\ pc = "asking"
  /\ \E s \in {server.revocation, "Responder error", "Responder returned HTTP"} : OcspIs(s)

\* The request or the parsing of the response fails, or the timer fires.
OcspFailed_Good == pc = "asking" /\ OcspIs("Good")
OcspFailed_Blank == pc = "asking" /\ OcspIs(None)
OcspFailed == pc = "asking" /\ OcspIs("Check failed")
OcspExpired_Inverted == pc = "asking" /\ TimeoutSecs = 0 /\ OcspIs("Check failed")
OcspExpired == pc = "asking" /\ TimeoutSecs # 0 /\ OcspIs("Check failed")

\* crt.sh answers with a JSON array of the logged entries, or with nothing,
\* which counts as none.
CtAnswered ==
  /\ pc = "ct"
  /\ \E n \in {0, server.logged} : info' = [info EXCEPT !.ct = n]
  /\ pc' = "ok"
  /\ UNCHANGED <<server, opts>>

\* The lookup fails, answers otherwise than 200 or not in JSON, or expires:
\* a line on stderr.
CtLost == pc' = "ok" /\ UNCHANGED <<server, opts, info>>
CtFailed_Fatal == pc = "ct" /\ pc' = "err" /\ UNCHANGED <<server, opts, info>>
CtFailed == pc = "ct" /\ CtLost
CtExpired == pc = "ct" /\ TimeoutSecs # 0 /\ CtLost

\* inspect has returned; nothing is left to do.
Returned == pc \in {"ok", "err"}
Terminated == Returned /\ UNCHANGED vars

Next ==
  \/ Connected
  \/ Completed
  \/ HandshakeFailed
  \/ HandshakeExpired
  \/ OcspUnasked
  \/ OcspAsked
  \/ OcspAnswered
  \/ OcspFailed
  \/ OcspExpired
  \/ CtAnswered
  \/ CtFailed
  \/ CtExpired
  \/ Terminated

Spec == Init /\ [][Next]_vars

\* The runtime fires due timers and runs the code between two awaits; the
\* network owes nothing.
Fairness ==
  /\ WF_vars(HandshakeExpired)
  /\ WF_vars(OcspUnasked)
  /\ WF_vars(OcspAsked)
  /\ WF_vars(OcspExpired)
  /\ WF_vars(CtExpired)

FairSpec == Spec /\ Fairness

-----------------------------------------------------------------------------
(***************************************************************************)
(* Properties                                                              *)
(***************************************************************************)

\* Type invariant: a CertInfo exists exactly from the parsed leaf on, and an
\* error leaves none behind (cert.rs:117-215).
TypeOK ==
  /\ server \in Servers
  /\ opts \subseteq {"ocsp", "ct"}
  /\ pc \in Handshake \cup {"ocsp", "asking", "ct", "ok", "err"}
  /\ IF pc \in {"dialing", "handshaking", "err"} THEN info = None
     ELSE /\ info \in CertInfos
          /\ info.days = DaysRemaining(server) /\ info.expired = IsExpired(server)
          /\ info.depth = server.chain
          /\ info.weak = WeakKey(server) /\ info.level = Level(server)

\* "revocation status is advisory, not fatal" (ocsp.rs:17-19): once the leaf is
\* parsed no third party, however it fails, can turn the inspection into an
\* error.
AdvisoryIsNeverFatal == [][info # None => pc' # "err"]_vars

\* A revocation status is only reported if the responder gave it: no failure on
\* the way reads as Good, Revoked or Unknown (ocsp.rs:20-72), and a CT count
\* is the one crt.sh gave, or 0 (cert.rs:207-212, ct.rs:43-49).
ThirdPartyAnswersAreReal ==
  info # None =>
    /\ info.ocsp \in {"Good", "Revoked", "Unknown"} => OcspReady /\ info.ocsp = server.revocation
    /\ info.ct \in {None, 0, server.logged}

\* "None when the check was not run" (cert.rs:30-34): in the report, an OCSP
\* status is present exactly if the check was requested, whatever happened to
\* it, and a CT count only if the lookup was.
NoneMeansNotRun ==
  pc = "ok" =>
    /\ info.ocsp = None <=> "ocsp" \notin opts
    /\ info.ct # None => "ct" \in opts

\* With a nonzero --timeout, inspect returns whatever the target, the
\* responder and crt.sh do (cert.rs:125, ocsp.rs:45, ct.rs:15).
InspectReturns == <>Returned

\* The expiry flag lags: it is never raised on a leaf that is still valid,
\* and is up once the leaf has been expired for a whole day; days_remaining is
\* 0 throughout the last day and the first day after (cert.rs:146,190).
ExpiryFlagLagsByLessThanADay ==
  info # None =>
    /\ info.expired => server.remaining < 0
    /\ server.remaining <= -Day => info.expired
    /\ info.days = 0 <=> server.remaining \in (-Day + 1)..(Day - 1)

\* "RSA/DSA < 2048 bits, EC < 256 bits" (cert.rs:217), by object identifier:
\* RSA, DSA, EC.  A key is short if it is known to be smaller.
DocumentedMinimum ==
  [o \in {"1.2.840.113549.1.1.1", "1.2.840.10040.4.1", "1.2.840.10045.2.1"} |->
     IF o = "1.2.840.10045.2.1" THEN 256 ELSE 2048]
Short(key) ==
  /\ key.bits # <<>>
  /\ key.algorithm \in DOMAIN DocumentedMinimum
  /\ key.bits[1] < DocumentedMinimum[key.algorithm]

\* The leaf is classified by what it says.  Only a short key is called weak,
\* and a short RSA or EC key is; of a short DSA key nothing is said here (see
\* FlagsAreExact).  A level is inferred exactly if no policy is a reserved
\* one; otherwise it is that of a reserved policy with only foreign ones before
\* it (cert.rs:166-186, 217-272).
LeafIsClassifiedByEvidence ==
  info # None =>
    /\ info.weak => Short(server.key)
    /\ Short(server.key) /\ OidName(server.key.algorithm) \in {"RSA", "EC"} => info.weak
    /\ info.level \in Inferred <=> Reserved(server.policies) = {}
    /\ info.level \in Asserted =>
         \E i \in Reserved(server.policies) :
           /\ info.level = PolicyLevels[server.policies[i]]
           /\ \A j \in 1..(i - 1) : server.policies[j] \notin DOMAIN PolicyLevels

\* What run_scan sees of the inspection.
Outcome ==
  CASE pc \notin {"ok", "err"} -> [status |-> "pending"]
    [] pc = "err" -> [status |-> "err"]
    [] pc = "ok" -> [status |-> "ok", expired |-> info.expired, ct |-> info.ct,
                     ocsp |-> IF info.ocsp \in {"Good", "Revoked", "Unknown", None}
                              THEN info.ocsp ELSE "no verdict"]

Abstract == INSTANCE CertReport WITH outcome <- Outcome

\* The inspection with its lookups implements the one-shot report of
\* CertReport and publishes it in the end (cert.rs:117-215).
ImplementsReport == Abstract!Spec

\* The two flags of a leaf are up exactly where they should be.  "Days remaining
\* until expiry, expired flag" (README.md:101): on an expired leaf.  "Flag keys
\* below current minimums: RSA/DSA < 2048 bits, EC < 256 bits" (cert.rs:217),
\* "This is why is_weak_key flags RSA/DSA < 2048 and EC < 256"
\* (learning/phase1.md:80): on a short key, of any of the three algorithms.
FlagsAreExact ==
  info # None =>
    /\ info.expired <=> server.remaining < 0
    /\ info.weak <=> Short(server.key)
=============================================================================

------------------------- MODULE CertInspectProofs -------------------------
(***************************************************************************)
(* Proofs about CertInspect for any target and any length of a day.        *)
(***************************************************************************)
EXTENDS CertInspect, FiniteSetTheorems, WellFoundedInduction, TLAPS

\* Euclid: what \div means for a positive divisor.
LEMMA DivRange ==
  ASSUME NEW n \in Nat, NEW b \in Nat \ {0}
  PROVE  /\ n \div b \in Nat
         /\ n \div b = 0 <=> n < b
  OBVIOUS

\* A truncating division of a by b is negative only from -b downwards and zero
\* strictly between -b and b.
LEMMA QuotientSign ==
  ASSUME NEW a \in Int, NEW b \in Nat \ {0}
  PROVE  /\ Quotient(a, b) \in Int
         /\ Quotient(a, b) < 0 <=> a <= -b
         /\ Quotient(a, b) = 0 <=> a \in (-b + 1)..(b - 1)
<1>1. CASE a >= 0
  <2>1. a \in Nat
    BY <1>1
  <2> QED BY <1>1, <2>1, DivRange DEF Quotient
<1>2. CASE a < 0
  <2>1. -a \in Nat /\ -a > 0
    BY <1>2
  <2>2. (-a) \div b \in Nat /\ ((-a) \div b = 0 <=> -a < b)
    BY <2>1, DivRange
  <2>3. Quotient(a, b) = -((-a) \div b)
    BY <1>2 DEF Quotient
  <2> HIDE DEF Quotient
  <2> QED BY <1>2, <2>1, <2>2, <2>3
<1> QED BY <1>1, <1>2

\* Every set of naturals that is not empty has a first element: its initial
\* segments are finite sets, among which strict inclusion is well founded.
LEMMA LeastOfNat ==
  ASSUME NEW I \in SUBSET Nat, I # {}
  PROVE  First(I) \in I /\ \A j \in I : First(I) <= j
<1> DEFINE T == {0..i : i \in I}
           R == StrictSubsetOrdering(Nat)
<1>1. IsWellFoundedOn(R, FiniteSubsetsOf(Nat))
  BY FS_StrictSubsetOrderingWellFounded
<1>2. T \subseteq FiniteSubsetsOf(Nat) /\ T # {}
  <2>1. \A i \in I : IsFiniteSet(0..i)
    BY FS_Interval
  <2>2. \A i \in I : 0..i \in SUBSET Nat
    OBVIOUS
  <2> QED BY <2>1, <2>2, Zenon DEF FiniteSubsetsOf
<1>3. PICK x \in T : \A y \in T : ~(<<y, x>> \in R)
  <2> HIDE DEF T, R
  <2> QED BY <1>1, <1>2, WFMin
<1>4. PICK i \in I : x = 0..i
  OBVIOUS
<1>5. ASSUME NEW j \in I PROVE i <= j
  <2> SUFFICES ASSUME j < i PROVE FALSE
    OBVIOUS
  <2>1. 0..j \subseteq 0..i /\ i \in 0..i /\ i \notin 0..j
    OBVIOUS
  <2>2. <<0..j, 0..i>> \in R
    BY <2>1 DEF StrictSubsetOrdering
  <2> QED BY <1>3, <1>4, <2>2
<1> QED BY <1>5 DEF First

\* What the CA asserted, or what is inferred from the subject, is a level; an
\* asserted one is that of the first reserved policy.
LEMMA Classified ==
  ASSUME NEW policies \in Seq(STRING), NEW org \in BOOLEAN
  PROVE  LET level == ClassifyValidation(policies, org) IN
         /\ level \in Asserted \cup Inferred
         /\ level \in Inferred <=> Reserved(policies) = {}
         /\ level \in Asserted =>
              \E i \in Reserved(policies) :
                /\ level = PolicyLevels[policies[i]]
                /\ \A j \in 1..(i - 1) : policies[j] \notin DOMAIN PolicyLevels
<1> DEFINE R == Reserved(policies)
<1>1. /\ R \in SUBSET Nat
      /\ \A i \in R : i \in 1..Len(policies) /\ PolicyLevels[policies[i]] \in Asserted
      /\ \A i \in 1..Len(policies) : i \notin R => policies[i] \notin DOMAIN PolicyLevels
  BY DEF Reserved, PolicyLevels, Asserted
<1>2. Asserted \cap Inferred = {}
  BY DEF Asserted, Inferred
<1>3. CASE R = {}
  BY <1>2, <1>3 DEF ClassifyValidation, Inferred
<1>4. CASE R # {}
  <2>1. First(R) \in R /\ \A j \in R : First(R) <= j
    <3> HIDE DEF R
    <3> QED BY <1>1, <1>4, LeastOfNat
  <2>2. ClassifyValidation(policies, org) = PolicyLevels[policies[First(R)]]
    BY <1>4 DEF ClassifyValidation
  <2>3. \A j \in 1..(First(R) - 1) : policies[j] \notin DOMAIN PolicyLevels
    BY <1>1, <2>1
  <2> HIDE DEF R
  <2> QED BY <1>1, <1>2, <1>4, <2>1, <2>2, <2>3 DEF R
<1> QED BY <1>3, <1>4

-----------------------------------------------------------------------------
(***************************************************************************)
(* The inductive invariant                                                 *)
(***************************************************************************)

\* Which optional fields are filled in at each point, and which of the two
\* checks is still to come.
Stages ==
  info # None =>
    /\ pc \in {"ocsp", "asking"} => info.ocsp = None /\ info.ct = None /\ "ocsp" \in opts
    /\ pc = "ct" => info.ct = None /\ "ct" \in opts
    /\ pc \in {"ct", "ok"} => (info.ocsp = None <=> "ocsp" \notin opts)
    /\ info.ct # None => "ct" \in opts

\* A request to the responder is only outstanding if there is one to ask.
AskedOnlyIfReady == pc = "asking" => OcspReady

IInv == TypeOK /\ Stages /\ AskedOnlyIfReady /\ ThirdPartyAnswersAreReal

\* days_remaining and the flag are an integer and a Boolean.
LEMMA ExpiryTyped ==
  ASSUME NEW s \in Servers
  PROVE  DaysRemaining(s) \in Int /\ IsExpired(s) \in BOOLEAN
<1>1. s.remaining \in Int /\ Day \in Nat \ {0}
  BY CertAssumption
<1> QED BY <1>1, QuotientSign DEF DaysRemaining, IsExpired

\* So are the classification of the key and the level of validation.
LEMMA LeafTyped ==
  ASSUME NEW s \in Servers
  PROVE  WeakKey(s) \in BOOLEAN /\ Level(s) \in Asserted \cup Inferred
BY CertAssumption, Classified DEF WeakKey, IsWeakKey, Level

\* The inductive invariant holds initially.
LEMMA InitIInv == Init => IInv
BY CertAssumption
DEF Init, IInv, TypeOK, Stages, AskedOnlyIfReady, ThirdPartyAnswersAreReal, Handshake

\* The handshake fails, or goes one step on.
LEMMA HandshakeIInv ==
  ASSUME IInv, Connected \/ HandshakeFailed \/ HandshakeExpired
  PROVE  IInv'
BY CertAssumption
DEF IInv, TypeOK, Stages, AskedOnlyIfReady, ThirdPartyAnswersAreReal, Handshake, OcspReady,
    Connected, HandshakeFailed, HandshakeExpired, HandshakeLost

\* The handshake completes; the parsed leaf fills in a fresh CertInfo.
LEMMA CompletedIInv ==
  ASSUME IInv, Completed
  PROVE  IInv'
<1>1. NewInfo \in CertInfos
  BY ExpiryTyped, LeafTyped, CertAssumption DEF NewInfo, CertInfos, IInv, TypeOK
<1>2. /\ NewInfo.days = DaysRemaining(server) /\ NewInfo.expired = IsExpired(server)
      /\ NewInfo.depth = server.chain /\ NewInfo.ocsp = None /\ NewInfo.ct = None
      /\ NewInfo.weak = WeakKey(server) /\ NewInfo.level = Level(server)
  BY DEF NewInfo
<1>3. UNCHANGED <<server, opts>> /\ pc = "handshaking"
  BY DEF Completed
<1>4. UNCHANGED <<DaysRemaining(server), IsExpired(server), WeakKey(server), Level(server), OcspReady>>
  BY <1>3 DEF DaysRemaining, IsExpired, WeakKey, Level, OcspReady
<1>5. CASE server.leafParses
  <2>1. info' = NewInfo /\ pc' = AfterLeaf
    BY <1>5 DEF Completed
  <2>2. server' = server /\ opts' = opts /\ pc' \in {"ocsp", "ct", "ok"}
    BY <1>3, <2>1 DEF AfterLeaf
  <2>3. /\ info' \in CertInfos /\ info'.ocsp = None /\ info'.ct = None
        /\ info'.days = DaysRemaining(server) /\ info'.expired = IsExpired(server)
        /\ info'.depth = server.chain
        /\ info'.weak = WeakKey(server) /\ info'.level = Level(server)
    BY <1>1, <1>2, <2>1
  <2> HIDE DEF NewInfo
  <2>4. TypeOK'
    BY <1>4, <2>2, <2>3 DEF IInv, TypeOK, Handshake
  <2>5. Stages'
    BY <2>1, <2>2, <2>3 DEF Stages, AfterLeaf
  <2>6. AskedOnlyIfReady' /\ ThirdPartyAnswersAreReal'
    BY <2>2, <2>3, CertAssumption DEF AskedOnlyIfReady, ThirdPartyAnswersAreReal, Statuses
  <2> QED BY <2>4, <2>5, <2>6 DEF IInv
<1>6. CASE ~server.leafParses
  BY <1>6, <1>3, <1>4, CertAssumption
  DEF IInv, TypeOK, Stages, AskedOnlyIfReady, ThirdPartyAnswersAreReal, Completed, Handshake
<1> QED BY <1>5, <1>6

\* The OCSP check ends with status s; what it reports as the certificate's
\* status is what the responder said.
LEMMA OcspIsIInv ==
  ASSUME IInv, pc \in {"ocsp", "asking"}, NEW s \in Statuses, OcspIs(s),
         s \in {"Good", "Revoked", "Unknown"} => OcspReady /\ s = server.revocation
  PROVE  IInv'
<1>1. info \in CertInfos
  BY DEF IInv, TypeOK, Handshake
<1>2. /\ info' \in CertInfos /\ info'.ocsp = s
      /\ info'.days = info.days /\ info'.expired = info.expired
      /\ info'.depth = info.depth /\ info'.ct = info.ct
      /\ info'.weak = info.weak /\ info'.level = info.level
  BY <1>1 DEF OcspIs, CertInfos
<1>3. UNCHANGED <<server, opts>> /\ pc' = AfterOcsp
  BY DEF OcspIs
<1>4. UNCHANGED <<DaysRemaining(server), IsExpired(server), WeakKey(server), Level(server), OcspReady>>
  BY <1>3 DEF DaysRemaining, IsExpired, WeakKey, Level, OcspReady
<1> QED BY <1>1, <1>2, <1>3, <1>4, CertAssumption
    DEF IInv, TypeOK, Stages, AskedOnlyIfReady, ThirdPartyAnswersAreReal, AfterOcsp

\* The OCSP request goes out.
LEMMA OcspAskedIInv ==
  ASSUME IInv, OcspAsked
  PROVE  IInv'
<1>1. UNCHANGED <<DaysRemaining(server), IsExpired(server), WeakKey(server), Level(server), OcspReady>>
  BY DEF OcspAsked, DaysRemaining, IsExpired, WeakKey, Level, OcspReady
<1> QED BY <1>1 DEF OcspAsked, IInv, TypeOK, Stages, AskedOnlyIfReady, ThirdPartyAnswersAreReal

\* crt.sh answers, with the count it has.
LEMMA CtAnsweredIInv ==
  ASSUME IInv, CtAnswered
  PROVE  IInv'
<1>1. info \in CertInfos /\ info # None
  BY CertAssumption DEF IInv, TypeOK, CtAnswered, Handshake
<1>n. PICK n \in {0, server.logged} : info' = [info EXCEPT !.ct = n]
  BY DEF CtAnswered
<1>2. /\ info' \in CertInfos /\ info'.ct = n
      /\ info'.days = info.days /\ info'.expired = info.expired
      /\ info'.depth = info.depth /\ info'.ocsp = info.ocsp
      /\ info'.weak = info.weak /\ info'.level = info.level
  <2>1. n \in Nat
    BY CertAssumption DEF IInv, TypeOK
  <2> QED BY <1>1, <1>n, <2>1 DEF CertInfos
<1>3. UNCHANGED <<server, opts>> /\ pc = "ct" /\ pc' = "ok"
  BY DEF CtAnswered
<1>4. UNCHANGED <<DaysRemaining(server), IsExpired(server), WeakKey(server), Level(server), OcspReady>>
  BY <1>3 DEF DaysRemaining, IsExpired, WeakKey, Level, OcspReady
<1> QED BY <1>1, <1>2, <1>3, <1>4, CertAssumption
    DEF IInv, TypeOK, Stages, AskedOnlyIfReady, ThirdPartyAnswersAreReal

\* crt.sh does not answer; the field stays None.
LEMMA CtLostIInv ==
  ASSUME IInv, CtFailed \/ CtExpired
  PROVE  IInv'
<1>1. UNCHANGED <<DaysRemaining(server), IsExpired(server), WeakKey(server), Level(server), OcspReady>>
  BY DEF CtFailed, CtExpired, CtLost, DaysRemaining, IsExpired, WeakKey, Level, OcspReady
<1> QED BY <1>1 DEF CtFailed, CtExpired, CtLost, IInv, TypeOK, Stages, AskedOnlyIfReady,
                    ThirdPartyAnswersAreReal

\* So does a step that changes nothing.
LEMMA StutterIInv ==
  ASSUME IInv, UNCHANGED vars
  PROVE  IInv'
BY DEF IInv, TypeOK, Stages, AskedOnlyIfReady, ThirdPartyAnswersAreReal, OcspReady, vars,
       DaysRemaining, IsExpired, WeakKey, Level

\* Every step of Next, or a stutter, preserves the inductive invariant.
LEMMA NextIInv == IInv /\ [Next]_vars => IInv'
<1> SUFFICES ASSUME IInv, [Next]_vars PROVE IInv'
  OBVIOUS
<1>0. server.revocation \in {"Good", "Revoked", "Unknown"}
  BY CertAssumption DEF IInv, TypeOK
<1>1. CASE Connected \/ HandshakeFailed \/ HandshakeExpired
  BY <1>1, HandshakeIInv
<1>2. CASE Completed
  BY <1>2, CompletedIInv
<1>3. CASE OcspUnasked
  <2>1. PICK s \in {"No issuer certificate in chain", "No OCSP responder in certificate",
                    "Check failed"} : OcspIs(s)
    BY <1>3 DEF OcspUnasked
  <2> QED BY <1>3, <2>1, OcspIsIInv DEF OcspUnasked, Statuses
<1>4. CASE OcspAsked
  BY <1>4, OcspAskedIInv
<1>5. CASE OcspAnswered
  <2>1. PICK s \in {server.revocation, "Responder error", "Responder returned HTTP"} : OcspIs(s)
    BY <1>5 DEF OcspAnswered
  <2>2. pc = "asking" /\ OcspReady
    BY <1>5 DEF OcspAnswered, IInv, AskedOnlyIfReady
  <2> QED BY <1>0, <2>1, <2>2, OcspIsIInv DEF Statuses
<1>6. CASE OcspFailed \/ OcspExpired
  BY <1>6, OcspIsIInv DEF OcspFailed, OcspExpired, Statuses
<1>7. CASE CtAnswered
  BY <1>7, CtAnsweredIInv
<1>8. CASE CtFailed \/ CtExpired
  BY <1>8, CtLostIInv
<1>9. CASE Terminated \/ UNCHANGED vars
  BY <1>9, StutterIInv DEF Terminated
<1> QED BY <1>1, <1>2, <1>3, <1>4, <1>5, <1>6, <1>7, <1>8, <1>9 DEF Next

\* Every reachable state satisfies the inductive invariant.
THEOREM Invariance == Spec => []IInv
BY InitIInv, NextIInv, PTL DEF Spec

-----------------------------------------------------------------------------
(***************************************************************************)
(* The properties                                                          *)
(***************************************************************************)

\* The inspection's state is well typed for every target (cert.rs:117-215).
THEOREM Typing == Spec => []TypeOK
<1>1. IInv => TypeOK
  BY DEF IInv
<1> QED BY <1>1, Invariance, PTL

\* No failure on the way to a third party reads as its answer (ocsp.rs:20-72,
\* cert.rs:207-212).
THEOREM NothingFabricated == Spec => []ThirdPartyAnswersAreReal
<1>1. IInv => ThirdPartyAnswersAreReal
  BY DEF IInv
<1> QED BY <1>1, Invariance, PTL

\* A status is missing exactly if its check was not asked for (cert.rs:30-34).
THEOREM MissingMeansNotRun == Spec => []NoneMeansNotRun
<1>1. IInv => NoneMeansNotRun
  BY CertAssumption DEF IInv, TypeOK, Stages, NoneMeansNotRun, Handshake
<1> QED BY <1>1, Invariance, PTL

\* For every length of a day and every leaf, the flag never comes early and
\* comes less than a day late (cert.rs:146,190).
THEOREM ExpiryFlagLag == Spec => []ExpiryFlagLagsByLessThanADay
<1>1. ASSUME IInv, info # None PROVE ExpiryFlagLagsByLessThanADay
  <2>1. server.remaining \in Int /\ Day \in Nat \ {0}
    BY <1>1, CertAssumption DEF IInv, TypeOK
  <2>2. info.days = Quotient(server.remaining, Day)
    BY <1>1 DEF IInv, TypeOK, DaysRemaining
  <2>3. info.expired <=> Quotient(server.remaining, Day) < 0
    BY <1>1 DEF IInv, TypeOK, DaysRemaining, IsExpired
  <2> QED BY <2>1, <2>2, <2>3, QuotientSign DEF ExpiryFlagLagsByLessThanADay
<1>2. IInv => ExpiryFlagLagsByLessThanADay
  BY <1>1 DEF ExpiryFlagLagsByLessThanADay
<1> QED BY <1>2, Invariance, PTL

\* Once there is a CertInfo, nothing that a third party does or fails to do
\* makes the inspection fail (ocsp.rs:17-19, cert.rs:203-212).
THEOREM AdvisoryChecksNeverFail == Spec => AdvisoryIsNeverFatal
<1>1. ASSUME IInv, [Next]_vars, info # None PROVE pc' # "err"
  BY <1>1, CertAssumption
  DEF IInv, TypeOK, Next, Connected, Completed, HandshakeFailed, HandshakeExpired, Handshake,
      OcspUnasked, OcspAsked, OcspAnswered, OcspFailed, OcspExpired, OcspIs, AfterOcsp,
      CtAnswered, CtFailed, CtExpired, CtLost, Terminated, vars
<1> QED BY <1>1, Invariance, PTL DEF Spec, AdvisoryIsNeverFatal

\* Whatever key and policies the leaf has, only a short key is called weak, a
\* short RSA or EC key is, and the level is that of the first reserved policy,
\* or inferred (cert.rs:166-186, 217-272).
THEOREM ClassifiedByEvidence == Spec => []LeafIsClassifiedByEvidence
<1>1. ASSUME IInv, info # None PROVE LeafIsClassifiedByEvidence
  <2>1. /\ info.weak = WeakKey(server) /\ info.level = Level(server)
        /\ server \in Servers
    BY <1>1 DEF IInv, TypeOK
  <2>2. /\ server.policies \in Seq(STRING) /\ server.org \in BOOLEAN
        /\ server.key.bits \in Seq(Nat) /\ Len(server.key.bits) <= 1
        /\ server.key.algorithm \notin {"RSA", "DSA", "EC"}
    BY <2>1, CertAssumption
  <2> DEFINE o == server.key.algorithm
             name == OidName(o)
  <2>3. /\ name = "RSA" <=> o = "1.2.840.113549.1.1.1"
        /\ name = "EC" <=> o = "1.2.840.10045.2.1"
        /\ name # "DSA"
    <3>1. CASE o \in DOMAIN KeyNames
      BY <3>1, <2>2 DEF OidName, KeyNames
    <3>2. CASE o \notin DOMAIN KeyNames
      BY <3>2, <2>2 DEF OidName, KeyNames
    <3> QED BY <3>1, <3>2
  <2>4. /\ DOMAIN MinBits = {"RSA", "DSA", "EC"} /\ MinBits["RSA"] = 2048 /\ MinBits["EC"] = 256
        /\ DOMAIN DocumentedMinimum = {"1.2.840.113549.1.1.1", "1.2.840.10040.4.1", "1.2.840.10045.2.1"}
        /\ DocumentedMinimum["1.2.840.113549.1.1.1"] = 2048
        /\ DocumentedMinimum["1.2.840.10045.2.1"] = 256
    BY DEF MinBits, DocumentedMinimum
  <2> HIDE DEF name
  <2>5. /\ info.weak => Short(server.key)
        /\ Short(server.key) /\ name \in {"RSA", "EC"} => info.weak
    <3>1. info.weak <=> IsWeakKey(name, server.key.bits)
      BY <2>1 DEF WeakKey, name
    <3>2. CASE name = "RSA"
      BY <2>3, <2>4, <3>1, <3>2 DEF IsWeakKey, Short
    <3>3. CASE name = "EC"
      BY <2>3, <2>4, <3>1, <3>3 DEF IsWeakKey, Short
    <3>4. CASE name \notin {"RSA", "EC"}
      BY <2>3, <2>4, <3>1, <3>4 DEF IsWeakKey
    <3> QED BY <3>2, <3>3, <3>4
  <2>6. /\ info.level \in Inferred <=> Reserved(server.policies) = {}
        /\ info.level \in Asserted =>
             \E i \in Reserved(server.policies) :
               /\ info.level = PolicyLevels[server.policies[i]]
               /\ \A j \in 1..(i - 1) : server.policies[j] \notin DOMAIN PolicyLevels
    BY <2>1, <2>2, Classified DEF Level
  <2> QED BY <2>5, <2>6 DEF LeafIsClassifiedByEvidence, name
<1>2. IInv => LeafIsClassifiedByEvidence
  BY <1>1 DEF LeafIsClassifiedByEvidence
<1> QED BY <1>2, Invariance, PTL

-----------------------------------------------------------------------------
(***************************************************************************)
(* The inspection implements CertReport                                    *)
(***************************************************************************)

\* A handshake needs a server name, a CertInfo a leaf that parses.
Reportable ==
  /\ pc \notin {"dialing", "err"} => server.validName
  /\ info # None => server.leafParses

\* No step loses either.
LEMMA ReportableInvariance == Spec => []Reportable
<1>1. Init => Reportable
  BY DEF Init, Reportable
<1>2. IInv => (pc \in {"ocsp", "asking", "ct"} => info # None)
  BY CertAssumption DEF IInv, TypeOK, Handshake
<1>3. IInv /\ Reportable /\ [Next]_vars => Reportable'
  BY <1>2
  DEF Reportable, Next, Connected, Completed, HandshakeFailed, HandshakeExpired, HandshakeLost,
      Handshake, OcspUnasked, OcspAsked, OcspAnswered, OcspFailed, OcspExpired, OcspIs,
      CtAnswered, CtFailed, CtExpired, CtLost, Terminated, vars
<1> QED BY <1>1, <1>3, Invariance, PTL DEF Spec

\* What a finished inspection returns is a report that CertReport allows.
LEMMA ReturnedIsAllowed ==
  IInv /\ Reportable /\ pc = "ok" => Outcome \in Abstract!Outcomes(server, opts)
<1> SUFFICES ASSUME IInv, Reportable, pc = "ok"
             PROVE  Outcome \in Abstract!Outcomes(server, opts)
  OBVIOUS
<1> DEFINE ocsp == IF info.ocsp \in {"Good", "Revoked", "Unknown", None} THEN info.ocsp
                   ELSE "no verdict"
<1>1. info \in CertInfos /\ info # None /\ server \in Servers
  BY CertAssumption DEF IInv, TypeOK, Handshake
<1>2. Outcome = [status |-> "ok", expired |-> info.expired, ct |-> info.ct, ocsp |-> ocsp]
  BY DEF Outcome
<1>3. info.expired \in Abstract!Expiries(server)
  <2>1. server.remaining \in Int /\ Day \in Nat \ {0}
    BY <1>1, CertAssumption
  <2>2. info.expired \in BOOLEAN /\ (info.expired <=> Quotient(server.remaining, Day) < 0)
    BY <1>1 DEF IInv, TypeOK, DaysRemaining, IsExpired, CertInfos
  <2>3. Quotient(server.remaining, Day) < 0 <=> server.remaining <= -Day
    BY <2>1, QuotientSign
  <2>4. /\ info.expired => server.remaining < 0
        /\ server.remaining <= -Day => info.expired
    BY <2>1, <2>2, <2>3
  <2> QED BY <2>2, <2>4 DEF Abstract!Expiries
<1>4. ocsp \in Abstract!Ocsps(server, opts)
  <2>1. info.ocsp = None <=> "ocsp" \notin opts
    BY <1>1 DEF IInv, Stages
  <2>2. info.ocsp \in {"Good", "Revoked", "Unknown"} => OcspReady /\ info.ocsp = server.revocation
    BY <1>1 DEF IInv, ThirdPartyAnswersAreReal
  <2> QED BY <2>1, <2>2 DEF Abstract!Ocsps, OcspReady
<1>5. info.ct \in Abstract!Cts(server, opts)
  BY <1>1 DEF IInv, Stages, ThirdPartyAnswersAreReal, Abstract!Cts
<1>6. server.validName /\ server.leafParses
  BY <1>1 DEF Reportable
<1> HIDE DEF ocsp
<1>7. Outcome \in Abstract!Reports(server, opts)
  BY <1>2, <1>3, <1>4, <1>5 DEF Abstract!Reports
<1> QED BY <1>6, <1>7 DEF Abstract!Outcomes

\* To its caller, the inspection with its lookups is one report published at
\* once (cert.rs:117-215).
THEOREM InspectImplementsReport ==
  Spec => Abstract!Init /\ [][Abstract!Publish]_(Abstract!reportVars)
<1>1. Init => Abstract!Init
  BY DEF Init, Abstract!Init, Abstract!Pending, Outcome
<1>2. (IInv /\ Reportable /\ pc = "ok" => Outcome \in Abstract!Outcomes(server, opts))'
  BY ReturnedIsAllowed, PTL
<1>3. ASSUME IInv', Reportable', [Next]_vars PROVE [Abstract!Publish]_(Abstract!reportVars)
  <2>1. UNCHANGED <<server, opts>>
    BY <1>3 DEF Next, Connected, Completed, HandshakeFailed, HandshakeExpired, HandshakeLost,
                OcspUnasked, OcspAsked, OcspAnswered, OcspFailed, OcspExpired, OcspIs,
                CtAnswered, CtFailed, CtExpired, CtLost, Terminated, vars
  <2>2. CASE pc \in {"ok", "err"}
    <3>1. UNCHANGED <<pc, info>>
      BY <1>3, <2>2 DEF Next, Connected, Completed, HandshakeFailed, HandshakeExpired, Handshake,
                OcspUnasked, OcspAsked, OcspAnswered, OcspFailed, OcspExpired,
                CtAnswered, CtFailed, CtExpired, Terminated, vars
    <3>2. UNCHANGED Outcome
      BY <3>1 DEF Outcome
    <3> QED BY <2>1, <3>2 DEF Abstract!reportVars
  <2>3. CASE pc \notin {"ok", "err"}
    <3>1. Outcome = Abstract!Pending
      BY <2>3 DEF Outcome, Abstract!Pending
    <3>2. CASE pc' = "ok"
      <4>1. Outcome' \in Abstract!Outcomes(server, opts)'
        BY <1>2, <1>3, <3>2
      <4>2. Outcome' \in Abstract!Outcomes(server, opts)
        BY <2>1, <4>1
        DEF Abstract!Outcomes, Abstract!Reports, Abstract!Expiries, Abstract!Ocsps, Abstract!Cts
      <4> QED BY <2>1, <3>1, <4>2 DEF Abstract!Publish
    <3>3. CASE pc' = "err"
      <4>1. Outcome' = Abstract!Err
        BY <3>3 DEF Outcome, Abstract!Err
      <4> QED BY <2>1, <3>1, <4>1 DEF Abstract!Publish, Abstract!Outcomes
    <3>4. CASE pc' \notin {"ok", "err"}
      <4>1. Outcome' = Abstract!Pending
        BY <3>4 DEF Outcome, Abstract!Pending
      <4> QED BY <2>1, <3>1, <4>1 DEF Abstract!reportVars
    <3> QED BY <3>2, <3>3, <3>4
  <2> QED BY <2>2, <2>3
<1> QED BY <1>1, <1>3, Invariance, ReportableInvariance, PTL DEF Spec
=============================================================================

--------------------------- MODULE RussLScanProofs ---------------------------
(***************************************************************************)
(* Proofs about RussLScan for any servers, suites and length of a day.     *)
(***************************************************************************)
EXTENDS RussLScan, SequenceTheorems, TLAPS

Results ==
  [version : {"TLS 1.2", "TLS 1.3"}, supported : BOOLEAN, cipher : {"ECDHE", "any", "none"}]
CertOpts == Requested \cap {"ocsp", "ct"}

\* What has been established of each part of the result at each stage: nothing
\* before its stage, and from then on what its stage promises.  A run that
\* failed stopped in its first stage.
Over(stages) == stage \notin stages /\ exit # "failure"

ExitInv ==
  /\ exit \in {None, "success", "failure"}
  /\ stage # "exited" <=> exit = None
CertInv ==
  /\ stage = "certificate" \/ exit = "failure" => certificate = None
  /\ Over({"certificate"}) => certificate \in Cert(None, {})!Reports(server, CertOpts)
ProtoInv ==
  /\ protocols \in Seq(Results)
  /\ stage = "certificate" \/ exit = "failure" => step = "dialing" /\ protocols = <<>>
  /\ stage = "protocols" => step # "done"
  /\ Over({"certificate", "protocols"}) => step = "done"
  /\ \A k \in 1..Len(protocols) :
       protocols[k].supported => server.trusted /\ protocols[k].version \in server.versions
CipherInv ==
  /\ stage \in {"certificate", "protocols", "ciphers"} \/ exit = "failure" => ciphers = None
  /\ "ciphers" \notin Requested => ciphers = None
  /\ Over({"certificate", "protocols", "ciphers"}) /\ "ciphers" \in Requested =>
       ciphers \in Cipher(None)!Truthful(server)
VulnInv ==
  /\ stage \in {"certificate", "protocols", "ciphers", "vulns"} \/ exit = "failure" => vulns = None
  /\ "vulns" \notin Requested => vulns = None
  /\ Over({"certificate", "protocols", "ciphers", "vulns"}) /\ "vulns" \in Requested =>
       vulns = CheckAll
ConnInv ==
  connection # None =>
    /\ "connection" \in Requested
    /\ stage \in {"print", "exited"} /\ exit # "failure"
    /\ \E o \in Conn(None)!Reports(server) : connection = [fs |-> ForwardSecrecy, probes |-> o]

IInv == TypeOK /\ ExitInv /\ CertInv /\ ProtoInv /\ CipherInv /\ VulnInv /\ ConnInv

\* The two versions that are tried, as elements of a sequence.
LEMMA TwoVersions ==
  /\ Len(Proto!Versions) = 2
  /\ Proto!Versions[1] = "TLS 1.2" /\ Proto!Versions[2] = "TLS 1.3"
  BY DEF Proto!Versions

LEMMA BelowTwo ==
  ASSUME NEW l \in Nat, l <= 2, l # 2
  PROVE  l = 0 \/ l = 1
  OBVIOUS

LEMMA InitInv == Init => IInv
<1> SUFFICES ASSUME Init PROVE IInv
  OBVIOUS
<1> USE DEF Init
<1>1. TypeOK
  <2>1. Len(protocols) = 0 /\ 1..Len(protocols) = {}
    OBVIOUS
  <2>2. 0 <= 2 /\ 0 # 2 /\ step # "done"
    OBVIOUS
  <2>3. /\ Len(protocols) <= Len(Proto!Versions)
        /\ step = "done" <=> Len(protocols) = Len(Proto!Versions)
    BY <2>1, <2>2, TwoVersions, Zenon
  <2>4. \A k \in 1..Len(protocols) : protocols[k].version = Proto!Versions[k]
    BY <2>1
  <2> QED BY <2>3, <2>4, Zenon DEF TypeOK
<1>2. ExitInv /\ CertInv
  BY RunAssumption DEF ExitInv, CertInv, Over
<1>3. ProtoInv
  BY DEF ProtoInv, Over
<1>4. CipherInv /\ VulnInv /\ ConnInv
  BY DEF CipherInv, VulnInv, ConnInv, Over
<1> QED BY <1>1, <1>2, <1>3, <1>4 DEF IInv

\* The version being tried is one of the two.
LEMMA Trying ==
  ASSUME TypeOK, ProtoInv, step # "done"
  PROVE  /\ Len(protocols) = 0 \/ Len(protocols) = 1
         /\ Proto!Version = Proto!Versions[Len(protocols) + 1]
         /\ Proto!Version \in {"TLS 1.2", "TLS 1.3"}
<1>1. Len(protocols) = 0 \/ Len(protocols) = 1
  <2>1. Len(protocols) \in Nat
    BY DEF ProtoInv
  <2>2. Len(protocols) <= 2 /\ Len(protocols) # 2
    BY TwoVersions, Zenon DEF TypeOK
  <2> QED BY <2>1, <2>2, BelowTwo, Zenon
<1>2. Proto!Version = Proto!Versions[Len(protocols) + 1]
  BY DEF Proto!Version
<1>3. 0 + 1 = 1 /\ 1 + 1 = 2
  OBVIOUS
<1> QED BY <1>1, <1>2, <1>3, TwoVersions, Zenon

\* A verdict on one protocol version is appended: the results stay typed, in
\* the order of the versions, and true.
LEMMA Recorded ==
  ASSUME TypeOK, ProtoInv, step # "done",
         NEW r \in Results, r.version = Proto!Version,
         r.supported => server.trusted /\ Proto!Version \in server.versions,
         protocols' = Append(protocols, r),
         step' = IF Len(protocols') = Len(Proto!Versions) THEN "done" ELSE "dialing"
  PROVE  /\ protocols' \in Seq(Results)
         /\ Len(protocols') <= Len(Proto!Versions)
         /\ \A k \in 1..Len(protocols') : protocols'[k].version = Proto!Versions[k]
         /\ step' = "done" <=> Len(protocols') = Len(Proto!Versions)
         /\ \A k \in 1..Len(protocols') :
              protocols'[k].supported => server.trusted /\ protocols'[k].version \in server.versions
<1>1. /\ Len(protocols) = 0 \/ Len(protocols) = 1
      /\ Proto!Version = Proto!Versions[Len(protocols) + 1]
  BY Trying
<1>2. /\ protocols' \in Seq(Results) /\ Len(protocols') = Len(protocols) + 1
      /\ protocols'[Len(protocols) + 1] = r
      /\ \A k \in 1..Len(protocols) : protocols'[k] = protocols[k]
  BY DEF ProtoInv
<1>3. \A k \in 1..Len(protocols') : k \in 1..Len(protocols) \/ k = Len(protocols) + 1
  BY <1>1, <1>2
<1>4. \A k \in 1..Len(protocols') : protocols'[k].version = Proto!Versions[k]
  BY <1>1, <1>2, <1>3, Zenon DEF TypeOK
<1>5. \A k \in 1..Len(protocols') :
        protocols'[k].supported => server.trusted /\ protocols'[k].version \in server.versions
  <2>1. r.supported => server.trusted /\ r.version \in server.versions
    OBVIOUS
  <2> QED BY <1>2, <1>3, <2>1, Zenon DEF ProtoInv
<1>6. Len(protocols') <= 2
  <2>1. 0 + 1 <= 2 /\ 1 + 1 <= 2
    OBVIOUS
  <2> QED BY <1>1, <1>2, <2>1, Zenon
<1> QED BY <1>2, <1>4, <1>5, <1>6, TwoVersions, Zenon

\* The conjuncts about stages an action has nothing to do with only depend on
\* variables it leaves alone and on where the run is.
LEMMA CertificateKeeps ==
  ASSUME IInv, CertificateStage
  PROVE  IInv'
<1> USE DEF CertificateStage, config
<1>1. PICK o \in Cert(None, {})!Outcomes(server, CertOpts) :
        IF o.status = "err"
        THEN stage' = "exited" /\ exit' = "failure" /\ UNCHANGED certificate
        ELSE stage' = "protocols" /\ certificate' = o /\ UNCHANGED exit
  BY DEF CertOpts
<1>2. o.status # "err" => o \in Cert(None, {})!Reports(server, CertOpts)
  BY DEF Cert!Outcomes, Cert!Err
<1>3. /\ stage = "certificate" /\ exit = None /\ certificate = None /\ connection = None
      /\ step = "dialing" /\ protocols = <<>> /\ ciphers = None /\ vulns = None
      /\ UNCHANGED <<server, flags, all, step, protocols, ciphers, vulns, connection>>
  BY RunAssumption, Zenon DEF IInv, ExitInv, CertInv, ProtoInv, CipherInv, VulnInv, ConnInv
<1>4. Requested' = Requested /\ CertOpts' = CertOpts
  BY <1>3 DEF Requested, CertOpts
<1>5. \/ o.status = "err" /\ stage' = "exited" /\ exit' = "failure" /\ certificate' = None
      \/ o.status # "err" /\ stage' = "protocols" /\ exit' = None /\ certificate' = o
  BY <1>1, <1>3
<1> HIDE DEF CertificateStage
<1>6. TypeOK'
  <2>1. stage' \in {"protocols", "exited"} /\ exit' \in {None, "failure"}
    BY <1>5
  <2> QED BY <1>3, <2>1 DEF IInv, TypeOK
<1>7. ExitInv'
  BY <1>5, RunAssumption DEF ExitInv
<1>8. CertInv'
  BY <1>2, <1>3, <1>4, <1>5, RunAssumption, Zenon DEF CertInv, Over
<1>9. ProtoInv'
  BY <1>3, <1>5 DEF IInv, ProtoInv, Over
<1>10. CipherInv' /\ VulnInv' /\ ConnInv'
  BY <1>3, <1>5 DEF CipherInv, VulnInv, ConnInv, Over
<1> QED BY <1>6, <1>7, <1>8, <1>9, <1>10 DEF IInv

LEMMA ProtocolKeeps ==
  ASSUME IInv, ProtocolStage
  PROVE  IInv'
<1>1. /\ stage = "protocols" /\ Proto!Next
      /\ stage' = IF step' = "done" THEN "ciphers" ELSE "protocols"
      /\ UNCHANGED <<flags, all, certificate, ciphers, vulns, connection, exit>>
  BY DEF ProtocolStage
<1>2. /\ step # "done" /\ exit = None /\ certificate \in Cert(None, {})!Reports(server, CertOpts)
      /\ ciphers = None /\ vulns = None /\ connection = None
  BY <1>1, RunAssumption DEF IInv, ExitInv, CertInv, ProtoInv, CipherInv, VulnInv, ConnInv, Over
<1>3. UNCHANGED server
  BY <1>1 DEF Proto!Next, Proto!Connected, Proto!Negotiated, Proto!Failed, Proto!Expired, Proto!Record
<1>3a. Proto!Version \in {"TLS 1.2", "TLS 1.3"}
  BY <1>2, Trying DEF IInv
<1>4. /\ step' \in {"dialing", "handshaking", "done"}
      /\ protocols' \in Seq(Results)
      /\ Len(protocols') <= Len(Proto!Versions)
      /\ \A k \in 1..Len(protocols') : protocols'[k].version = Proto!Versions[k]
      /\ step' = "done" <=> Len(protocols') = Len(Proto!Versions)
      /\ \A k \in 1..Len(protocols') :
           protocols'[k].supported => server.trusted /\ protocols'[k].version \in server.versions
  <2>1. CASE Proto!Connected
    <3>1. step' = "handshaking" /\ UNCHANGED protocols
      BY <2>1 DEF Proto!Connected
    <3>2. step' # "done"
      BY <3>1
    <3> QED BY <1>2, <3>1, <3>2, Zenon DEF IInv, TypeOK, ProtoInv
  <2>2. CASE Proto!Negotiated
    <3> DEFINE r == [version |-> Proto!Version, supported |-> TRUE,
                     cipher |-> Proto!Exchange(Proto!Version)]
    <3>1. /\ protocols' = Append(protocols, r)
          /\ step' = IF Len(protocols') = Len(Proto!Versions) THEN "done" ELSE "dialing"
          /\ server.trusted /\ Proto!Version \in server.versions
      BY <2>2 DEF Proto!Negotiated, Proto!Record
    <3>2. r \in Results /\ r.version = Proto!Version
      BY <1>3a DEF Results, Proto!Exchange
    <3> QED BY <1>2, <3>1, <3>2, Recorded DEF IInv
  <2>3. CASE Proto!Failed \/ Proto!Expired
    <3> DEFINE r == [version |-> Proto!Version, supported |-> FALSE, cipher |-> "none"]
    <3>1. /\ protocols' = Append(protocols, r)
          /\ step' = IF Len(protocols') = Len(Proto!Versions) THEN "done" ELSE "dialing"
      BY <2>3 DEF Proto!Failed, Proto!Expired, Proto!Record
    <3>2. r \in Results /\ r.version = Proto!Version /\ ~r.supported
      BY <1>3a DEF Results
    <3> QED BY <1>2, <3>1, <3>2, Recorded DEF IInv
  <2> QED BY <1>1, <2>1, <2>2, <2>3 DEF Proto!Next
<1>5. Requested' = Requested /\ CertOpts' = CertOpts
  BY <1>1 DEF Requested, CertOpts
<1>6. stage' \in {"protocols", "ciphers"} /\ (stage' = "ciphers" <=> step' = "done") /\ exit' = None
  BY <1>1, <1>2
<1>7. TypeOK'
  BY <1>1, <1>2, <1>3, <1>4, <1>6, Zenon DEF IInv, TypeOK
<1>8. ExitInv' /\ CertInv'
  BY <1>1, <1>2, <1>3, <1>5, <1>6, RunAssumption DEF ExitInv, CertInv, Over
<1>9. ProtoInv'
  BY <1>3, <1>4, <1>6, RunAssumption DEF ProtoInv, Over
<1>10. CipherInv' /\ VulnInv' /\ ConnInv'
  BY <1>1, <1>2, <1>6 DEF CipherInv, VulnInv, ConnInv, Over
<1> QED BY <1>7, <1>8, <1>9, <1>10 DEF IInv

\* The stages after the protocols leave the certificate and the protocols alone.
LEMMA LaterStages ==
  ASSUME IInv, UNCHANGED <<config, certificate, step, protocols>>,
         stage \notin {"certificate", "protocols", "exited"}, exit' # "failure",
         stage' \in {"vulns", "connection", "print", "exited"},
         exit' \in {None, "success", "failure"}, stage' # "exited" <=> exit' = None
  PROVE  /\ TypeOK' /\ ExitInv' /\ CertInv' /\ ProtoInv'
         /\ Requested' = Requested /\ CheckAll' = CheckAll /\ ForwardSecrecy' = ForwardSecrecy
<1> USE DEF config
<1>1. Requested' = Requested /\ CertOpts' = CertOpts
  BY DEF Requested, CertOpts
<1>2. CheckAll' = CheckAll /\ ForwardSecrecy' = ForwardSecrecy
  BY DEF CheckAll, Supports, ForwardSecrecy, Rows
<1>3. TypeOK'
  BY Zenon DEF IInv, TypeOK
<1>4. ExitInv'
  BY DEF ExitInv
<1>5. stage # "certificate" /\ stage # "protocols" /\ exit # "failure"
  BY RunAssumption DEF IInv, ExitInv
<1>6. CertInv'
  BY <1>1, <1>5 DEF IInv, CertInv, Over
<1>7. ProtoInv'
  BY <1>5 DEF IInv, ProtoInv, Over
<1> QED BY <1>1, <1>2, <1>3, <1>4, <1>6, <1>7

LEMMA CipherKeeps ==
  ASSUME IInv, CipherStage
  PROVE  IInv'
<1>1. /\ stage = "ciphers" /\ stage' = "vulns" /\ exit = None /\ exit' = None
      /\ UNCHANGED <<config, certificate, step, protocols, vulns, connection>>
      /\ vulns = None /\ connection = None
  BY DEF CipherStage, IInv, ExitInv, VulnInv, ConnInv
<1>2. TypeOK' /\ ExitInv' /\ CertInv' /\ ProtoInv' /\ Requested' = Requested
  BY <1>1, RunAssumption, LaterStages
<1>3. CipherInv'
  <2>1. IF "ciphers" \in Requested
        THEN ciphers' \in Cipher(None)!Truthful(server) ELSE ciphers' = ciphers
    BY DEF CipherStage
  <2>2. ciphers = None
    BY <1>1 DEF IInv, CipherInv
  <2>3. server' = server
    BY <1>1 DEF config
  <2> QED BY <1>1, <1>2, <2>1, <2>2, <2>3, RunAssumption DEF CipherInv, Over
<1>4. VulnInv' /\ ConnInv'
  BY <1>1, RunAssumption DEF VulnInv, ConnInv, Over
<1> QED BY <1>2, <1>3, <1>4 DEF IInv

LEMMA VulnKeeps ==
  ASSUME IInv, VulnStage
  PROVE  IInv'
<1>1. /\ stage = "vulns" /\ stage' = "connection" /\ exit = None /\ exit' = None
      /\ UNCHANGED <<config, certificate, step, protocols, ciphers, connection>>
      /\ vulns = None /\ connection = None
  BY DEF VulnStage, IInv, ExitInv, VulnInv, ConnInv
<1>2. TypeOK' /\ ExitInv' /\ CertInv' /\ ProtoInv' /\ Requested' = Requested /\ CheckAll' = CheckAll
  BY <1>1, RunAssumption, LaterStages
<1>3. CipherInv'
  BY <1>1, <1>2, RunAssumption DEF IInv, CipherInv, Over, config
<1>4. VulnInv'
  <2>1. vulns' = IF "vulns" \in Requested THEN CheckAll ELSE vulns
    BY DEF VulnStage
  <2> QED BY <1>1, <1>2, <2>1, RunAssumption DEF VulnInv, Over
<1>5. ConnInv'
  BY <1>1 DEF ConnInv
<1> QED BY <1>2, <1>3, <1>4, <1>5 DEF IInv

LEMMA ConnectionKeeps ==
  ASSUME IInv, ConnectionStage
  PROVE  IInv'
<1>1. /\ stage = "connection" /\ stage' = "print" /\ exit = None /\ exit' = None
      /\ UNCHANGED <<config, certificate, step, protocols, ciphers, vulns>>
      /\ connection = None
  BY DEF ConnectionStage, IInv, ExitInv, ConnInv
<1>2. /\ TypeOK' /\ ExitInv' /\ CertInv' /\ ProtoInv' /\ Requested' = Requested
      /\ CheckAll' = CheckAll /\ ForwardSecrecy' = ForwardSecrecy
  BY <1>1, RunAssumption, LaterStages
<1>3. CipherInv' /\ VulnInv'
  BY <1>1, <1>2, RunAssumption DEF IInv, CipherInv, VulnInv, Over, config
<1>4. ConnInv'
  <2>1. IF "connection" \in Requested
        THEN \E o \in Conn(None)!Reports(server) \cup {Conn(None)!Err} :
               connection' = IF o.status = "err" THEN None
                             ELSE [fs |-> ForwardSecrecy, probes |-> o]
        ELSE connection' = connection
    BY DEF ConnectionStage
  <2>2. Conn(None)!Err.status = "err"
    BY DEF Conn!Err
  <2>3. connection' # None =>
          /\ "connection" \in Requested
          /\ \E o \in Conn(None)!Reports(server) : connection' = [fs |-> ForwardSecrecy, probes |-> o]
    BY <1>1, <2>1, <2>2
  <2>4. server' = server /\ stage' \in {"print", "exited"} /\ exit' # "failure"
    BY <1>1, RunAssumption DEF config
  <2> QED BY <1>2, <2>3, <2>4 DEF ConnInv
<1> QED BY <1>2, <1>3, <1>4 DEF IInv

LEMMA PrintKeeps ==
  ASSUME IInv, PrintReport
  PROVE  IInv'
<1>1. /\ stage = "print" /\ stage' = "exited" /\ exit = None /\ exit' = "success"
      /\ UNCHANGED <<config, certificate, step, protocols, ciphers, vulns, connection>>
  BY DEF PrintReport, IInv, ExitInv
<1>2. /\ TypeOK' /\ ExitInv' /\ CertInv' /\ ProtoInv' /\ Requested' = Requested
      /\ CheckAll' = CheckAll /\ ForwardSecrecy' = ForwardSecrecy
  BY <1>1, RunAssumption, LaterStages
<1>3. CipherInv' /\ VulnInv'
  BY <1>1, <1>2, RunAssumption DEF IInv, CipherInv, VulnInv, Over, config
<1>4. ConnInv'
  BY <1>1, <1>2 DEF IInv, ConnInv, config
<1> QED BY <1>2, <1>3, <1>4 DEF IInv

LEMMA StutterKeeps ==
  ASSUME IInv, UNCHANGED vars
  PROVE  IInv'
<1> USE DEF vars
<1>1. Requested' = Requested /\ CheckAll' = CheckAll /\ ForwardSecrecy' = ForwardSecrecy
  BY DEF Requested, CheckAll, Supports, ForwardSecrecy, Rows
<1>2. TypeOK'
  BY Zenon DEF IInv, TypeOK
<1>3. ExitInv' /\ CertInv' /\ ProtoInv'
  BY <1>1 DEF IInv, ExitInv, CertInv, ProtoInv, Over, CertOpts
<1>4. CipherInv' /\ VulnInv' /\ ConnInv'
  BY <1>1 DEF IInv, CipherInv, VulnInv, ConnInv, Over
<1> QED BY <1>2, <1>3, <1>4 DEF IInv

LEMMA NextInv ==
  ASSUME IInv, [Next]_vars
  PROVE  IInv'
<1>1. CASE CertificateStage
  BY <1>1, CertificateKeeps
<1>2. CASE ProtocolStage
  BY <1>2, ProtocolKeeps
<1>3. CASE CipherStage
  BY <1>3, CipherKeeps
<1>4. CASE VulnStage
  BY <1>4, VulnKeeps
<1>5. CASE ConnectionStage
  BY <1>5, ConnectionKeeps
<1>6. CASE PrintReport
  BY <1>6, PrintKeeps
<1>7. CASE Terminated \/ UNCHANGED vars
  BY <1>7, StutterKeeps DEF Terminated
<1> QED BY <1>1, <1>2, <1>3, <1>4, <1>5, <1>6, <1>7 DEF Next

\* What each stage promised holds in every state of every run.
THEOREM Invariance == Spec => []IInv
BY InitInv, NextInv, PTL DEF Spec

\* A run's state is well typed (mod.rs:53-103).
THEOREM Typing == Spec => []TypeOK
<1>1. IInv => TypeOK
  BY DEF IInv
<1> QED BY <1>1, Invariance, PTL

\* After the first stage nothing makes a run fail (mod.rs:67-92, main.rs:73-93).
THEOREM CertificateIsKept == Spec => CertificateIsNeverLost
<1>1. ASSUME IInv, [Next]_vars, certificate # None PROVE exit' # "failure"
  <2>1. stage # "certificate" /\ exit # "failure"
    BY <1>1 DEF IInv, CertInv
  <2>2. exit' = exit \/ exit' = "success"
    BY <1>1, <2>1 DEF Next, CertificateStage, ProtocolStage, CipherStage, VulnStage,
                      ConnectionStage, PrintReport, Terminated, vars
  <2>3. "success" # "failure"
    OBVIOUS
  <2> QED BY <2>1, <2>2, <2>3, Zenon
<1>2. IInv /\ [Next]_vars => [certificate # None => exit' # "failure"]_vars
  BY <1>1
<1> QED BY <1>2, Invariance, PTL DEF CertificateIsNeverLost, Spec

\* A printed run has gone through every stage.
LEMMA Printed ==
  ASSUME IInv, exit = "success"
  PROVE  /\ stage = "exited" /\ step = "done"
         /\ certificate \in Cert(None, {})!Reports(server, CertOpts)
         /\ "ciphers" \in Requested => ciphers \in Cipher(None)!Truthful(server)
         /\ "vulns" \in Requested => vulns = CheckAll
<1>1. stage = "exited"
  BY RunAssumption DEF IInv, ExitInv
<1> QED BY <1>1 DEF IInv, CertInv, ProtoInv, CipherInv, VulnInv, Over

\* The table shows what was asked for, whatever happened on the network
\* (main.rs:64-71, mod.rs:70-92, pretty.rs:32-37, 56-57, 72-73, 159-160).
THEOREM SectionsMatchRequest == Spec => []ReportCoversRequest
<1> DEFINE wanted(c) == all \/ c \in flags
<1>1. ASSUME IInv, exit = "success" PROVE ReportCoversRequest
  <2>1. \A c \in Checks : c \in Requested <=> wanted(c)
    BY <1>1 DEF Requested, IInv, TypeOK
  <2>2. Checks = {"ciphers", "vulns", "ocsp", "ct", "connection"}
    BY DEF Checks
  <2> HIDE DEF wanted
  <2>3. server \in Servers /\ CertOpts \in SUBSET {"ocsp", "ct"}
    BY <1>1 DEF IInv, TypeOK, CertOpts
  <2>4. certificate # None /\ Len(protocols) = Len(Proto!Versions)
    <3>1. /\ certificate \in Cert(None, {})!Reports(server, CertOpts)
          /\ step = "done"
      BY <1>1, Printed
    <3>2. None \notin Cert(None, {})!Reports(server, CertOpts)
      BY <2>3, RunAssumption, Zenon
    <3> QED BY <1>1, <3>1, <3>2, Zenon DEF IInv, TypeOK
  <2>5. /\ certificate.ocsp # None <=> "ocsp" \in CertOpts
        /\ certificate.ct # None => "ct" \in CertOpts
    <3>1. /\ certificate.ocsp \in Cert(None, {})!Ocsps(server, CertOpts)
          /\ certificate.ct \in Cert(None, {})!Cts(server, CertOpts)
      BY <1>1, Printed DEF Cert!Reports
    <3>2. server.revocation # None /\ None # "no verdict"
      BY <2>3, RunAssumption
    <3> QED BY <3>1, <3>2 DEF Cert!Ocsps, Cert!Cts
  <2>6. /\ "OCSP Status" \in Pretty!OptionalRows(certificate) <=> wanted("ocsp")
        /\ "CT Log Entries" \in Pretty!OptionalRows(certificate) => wanted("ct")
    BY <2>1, <2>2, <2>5 DEF Pretty!OptionalRows, CertOpts
  <2> DEFINE sections == Pretty!Sections(ciphers, connection, vulns)
  <2>7. /\ "Cipher Suites" \in sections <=> Pretty!Listed(ciphers) # {}
        /\ "Vulnerability Checks" \in sections <=> vulns # None
        /\ "Connection Properties" \in sections <=> connection # None
    BY DEF Pretty!Sections
  <2>8. "Cipher Suites" \in sections => wanted("ciphers")
    BY <1>1, <2>1, <2>2, <2>7 DEF IInv, CipherInv, Pretty!Listed
  <2>9. wanted("ciphers") => \/ "Cipher Suites" \in sections
                             \/ \A t \in Suites : ciphers[t] = "missing"
    <3>1. wanted("ciphers") => ciphers \in Cipher(None)!Truthful(server) /\ ciphers # None
      BY <1>1, <2>1, <2>2, <2>3, Printed, RunAssumption
    <3>2. wanted("ciphers") => Pretty!Listed(ciphers) = {t \in Suites : ciphers[t] # "missing"}
      BY <3>1 DEF Pretty!Listed, Cipher!Truthful
    <3> QED BY <2>7, <3>2
  <2>10. "Vulnerability Checks" \in sections <=> wanted("vulns")
    <3>1. CheckAll \in [poodle : BOOLEAN, beast : BOOLEAN, tls11 : BOOLEAN, heartbleed : BOOLEAN]
      BY DEF CheckAll, Supports
    <3>2. vulns # None <=> "vulns" \in Requested
      BY <1>1, <3>1, Printed, RunAssumption DEF IInv, VulnInv
    <3> QED BY <2>1, <2>2, <2>7, <3>2
  <2>11. "Connection Properties" \in sections => wanted("connection")
    BY <1>1, <2>1, <2>2, <2>7 DEF IInv, ConnInv
  <2> HIDE DEF sections
  <2>12. sections = Pretty!Sections(ciphers, connection, vulns)
    BY DEF sections
  <2> QED BY <2>4, <2>6, <2>8, <2>9, <2>10, <2>11, <2>12, Zenon DEF ReportCoversRequest, wanted
<1>2. IInv => ReportCoversRequest
  BY <1>1 DEF ReportCoversRequest
<1> QED BY <1>2, Invariance, PTL

\* Nothing positive in a printed report is made up (handshake.rs:45-49,
\* ciphers.rs:56-63, connection.rs:390-391, vulns.rs:28,37).
THEOREM NothingMadeUp == Spec => []PositivesAreReal
<1>1. ASSUME IInv, exit = "success" PROVE PositivesAreReal
  <2>1. \A k \in 1..Len(protocols) :
          protocols[k].supported => server.trusted /\ protocols[k].version \in server.versions
    BY <1>1 DEF IInv, ProtoInv
  <2>2. ciphers # None =>
          \A t \in Suites : ciphers[t] = "accepted" => server.trusted /\ t \in server.suites
    BY <1>1, Printed DEF IInv, CipherInv, Cipher!Truthful, Cipher!Negotiates
  <2>3. ForwardSecrecy.all_forward_secret =>
          server.trusted /\ {"TLS 1.2", "TLS 1.3"} \cap server.versions # {}
    <3>1. \A k \in 1..Len(protocols) : protocols[k].version \in {"TLS 1.2", "TLS 1.3"}
      <4>1. protocols \in Seq(Results)
        BY <1>1 DEF IInv, ProtoInv
      <4>2. \A k \in 1..Len(protocols) : protocols[k] \in Results
        BY <4>1, ElementOfSeq
      <4>3. \A r \in Results : r.version \in {"TLS 1.2", "TLS 1.3"}
        BY DEF Results
      <4> QED BY <4>2, <4>3, Zenon
    <3>2. ForwardSecrecy.all_forward_secret => \E k \in 1..Len(protocols) : protocols[k].supported
      BY DEF ForwardSecrecy, Rows
    <3> QED BY <2>1, <3>1, <3>2
  <2>4. connection # None => connection.fs = ForwardSecrecy
    BY <1>1 DEF IInv, ConnInv
  <2>5. \A v : Supports(v) => v \in server.versions
    BY <2>1 DEF Supports
  <2>6. vulns # None => vulns = CheckAll
    BY <1>1, Printed DEF IInv, VulnInv
  <2>7. vulns # None => (vulns.beast => "TLS 1.0" \in server.versions)
                        /\ (vulns.tls11 => "TLS 1.1" \in server.versions)
    <3>1. CheckAll.beast = Supports("TLS 1.0") /\ CheckAll.tls11 = Supports("TLS 1.1")
      BY Zenon DEF CheckAll
    <3> QED BY <2>5, <2>6, <3>1, Zenon
  <2> QED BY <2>1, <2>2, <2>3, <2>4, <2>7 DEF PositivesAreReal
<1>2. IInv => PositivesAreReal
  BY <1>1 DEF PositivesAreReal
<1> QED BY <1>2, Invariance, PTL

\* "No" to a staple and "Not present" of the HSTS header are true of the server
\* (connection.rs:222-232, 296-310, pretty.rs:98-108, 136-157).
THEOREM NegativesAreSeen == Spec => []NegativesAreObserved
<1>1. ASSUME IInv, connection # None PROVE NegativesAreObserved
  <2>1. PICK o \in Conn(None)!Reports(server) : connection = [fs |-> ForwardSecrecy, probes |-> o]
    BY <1>1 DEF IInv, ConnInv
  <2>2. connection.probes = o
    BY <2>1
  <2>3. o.staple = server.staples /\ o.hsts \in Conn(None)!HstsOutcomes(server)
    BY DEF Conn!Reports
  <2>4. o.hsts = "none" \/ (o.hsts \in {"header", "noheader"} /\ server.trusted /\ o.hsts = server.http)
    <3>1. server.http \in {"header", "noheader", "nothttp"}
      BY <1>1, RunAssumption DEF IInv, TypeOK
    <3> QED BY <2>3, <3>1 DEF Conn!HstsOutcomes
  <2>5. Pretty!HstsRow(o) = "Not present" => o.hsts = "noheader"
    <3>1. CASE o.hsts = "none"
      BY <3>1, Zenon DEF Pretty!HstsRow
    <3>2. CASE o.hsts = "header"
      BY <3>2, Zenon DEF Pretty!HstsRow
    <3> QED BY <2>4, <3>1, <3>2
  <2>6. Pretty!StaplingRow(o) = "No" => ~server.staples
    BY <2>3 DEF Pretty!StaplingRow
  <2> QED BY <2>2, <2>4, <2>5, <2>6, Zenon DEF NegativesAreObserved
<1>2. IInv => NegativesAreObserved
  BY <1>1 DEF NegativesAreObserved
<1> QED BY <1>2, Invariance, PTL
=============================================================================

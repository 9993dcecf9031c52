---------------------- MODULE ConnectionInspectProofs ----------------------
(***************************************************************************)
(* Proofs about ConnectionInspect, for any host: any set of addresses, of  *)
(* certificates and of servers, and any --timeout.  The inductive          *)
(* invariant says what each probe has established at each point of its     *)
(* path; the three parts are independent because the probes share nothing. *)
(***************************************************************************)
EXTENDS ConnectionInspect, TLAPS

\* What the primary probe knows at each point.
PrimaryInv ==
  /\ phase["primary"] \in {"handshaking", "presented", "pumping", "done"} =>
       addr["primary"] \in server.up
  /\ phase["primary"] \in {"presented", "pumping", "done"} =>
       /\ leaf["primary"] = Serves("primary", addr["primary"])
       /\ leaf["primary"] # Refuse
       /\ staple = server.staples
       /\ Common # {}
  /\ "tls12" \in tickets => Negotiated = "TLS 1.2" /\ "tls12" \in server.issues
  /\ "tls13" \in tickets => Negotiated = "TLS 1.3" /\ "tls13" \in server.issues
  /\ phase["primary"] \in {"pumping", "done"} =>
       (Negotiated = "TLS 1.2" /\ "tls12" \in server.issues => "tls12" \in tickets)

\* What the no-SNI probe knows at each point.
NoSniInv ==
  /\ phase["no_sni"] \in {"handshaking", "presented", "leaf"} => addr["no_sni"] \in server.up
  /\ phase["no_sni"] \in {"presented", "leaf"} =>
       /\ leaf["no_sni"] = server.bare[addr["no_sni"]]
       /\ leaf["no_sni"] # Refuse

\* What the HSTS probe knows at each point.
HstsInv ==
  /\ phase["hsts"] = "requesting" => server.trusted
  /\ phase["hsts"] \in {"header", "noheader"} => server.trusted /\ server.http = phase["hsts"]

\* inspect has returned only if its probes have ended.
OuterInv ==
  /\ pc # "probing" => \A p \in Probes : phase[p] \in Over(p)
  /\ pc = "ok" => phase["primary"] = "done"
  /\ pc = "err" => phase["primary"] = "failed"

IInv == TypeOK /\ PrimaryInv /\ NoSniInv /\ HstsInv /\ OuterInv

\* The inductive invariant holds initially.
LEMMA InitIInv == Init => IInv
<1> SUFFICES ASSUME Init PROVE IInv
  OBVIOUS
<1>1. TypeOK
  BY DEF Init, TypeOK, Probes, Capturing, Before, Phases, OnNetwork
<1>2. PrimaryInv /\ NoSniInv /\ HstsInv /\ OuterInv
  BY DEF Init, PrimaryInv, NoSniInv, HstsInv, OuterInv, Probes
<1> QED BY <1>1, <1>2 DEF IInv

\* What the assumption says of the scanned server.
LEMMA ServerTyping ==
  TypeOK => /\ server.up \subseteq Addresses
            /\ server.sni \in [Addresses -> Leaves \cup {Refuse}]
            /\ server.bare \in [Addresses -> Leaves \cup {Refuse}]
            /\ server.http \in {"header", "noheader", "nothttp"}
BY ConnectionAssumption DEF TypeOK

\* The lookup of no_sni answers or fails.
LEMMA ResolveIInv ==
  ASSUME IInv, Resolved \/ Unresolved
  PROVE  IInv'
<1>1. server' = server /\ Common' = Common /\ Negotiated' = Negotiated
  BY DEF Common, Negotiated, Resolved, Unresolved
<1>2. TypeOK'
  BY <1>1, ServerTyping
  DEF IInv, TypeOK, Probes, Capturing, Over, Before, Phases, OnNetwork, Serves, Goto, Resolved, Unresolved
<1>3. PrimaryInv'
  BY <1>1, ServerTyping DEF IInv, TypeOK, Probes, Capturing, PrimaryInv, Serves, Goto, Resolved, Unresolved
<1>4. NoSniInv'
  BY <1>1, ServerTyping DEF IInv, TypeOK, Probes, Capturing, NoSniInv, Serves, Goto, Resolved, Unresolved
<1>5. HstsInv' /\ OuterInv'
  BY <1>1, ServerTyping DEF IInv, TypeOK, Probes, Over, HstsInv, OuterInv, Goto, Resolved, Unresolved
<1> QED BY <1>2, <1>3, <1>4, <1>5 DEF IInv

\* A task or probe moves on from its connection to its handshake.
LEMMA ConnectedIInv ==
  ASSUME IInv, NEW p \in Probes, Connected(p)
  PROVE  IInv'
<1>1. server' = server /\ Common' = Common /\ Negotiated' = Negotiated
  BY DEF Common, Negotiated, Connected
<1>2. TypeOK'
  BY <1>1, ServerTyping
  DEF IInv, TypeOK, Probes, Capturing, Over, Before, Phases, OnNetwork, Serves, Goto, Connected
<1>3. PrimaryInv'
  BY <1>1, ServerTyping DEF IInv, TypeOK, Probes, Capturing, PrimaryInv, Serves, Goto, Connected
<1>4. NoSniInv'
  BY <1>1, ServerTyping DEF IInv, TypeOK, Probes, Capturing, NoSniInv, Serves, Goto, Connected
<1>5. HstsInv' /\ OuterInv'
  BY <1>1, ServerTyping DEF IInv, TypeOK, Probes, Over, HstsInv, OuterInv, Goto, Connected
<1> QED BY <1>2, <1>3, <1>4, <1>5 DEF IInv

\* The verifier records a leaf the dialled address presents.
LEMMA PresentedIInv ==
  ASSUME IInv, NEW p \in Capturing, Presented(p)
  PROVE  IInv'
<1>1. server' = server /\ Common' = Common /\ Negotiated' = Negotiated
  BY DEF Common, Negotiated, Presented
<1>2. TypeOK'
  <2>1. addr[p] \in Addresses
    BY ServerTyping DEF IInv, PrimaryInv, NoSniInv, Capturing, Presented
  <2>2. Serves(p, addr[p]) \in Leaves /\ server.staples \in BOOLEAN
    BY <2>1, ServerTyping, ConnectionAssumption DEF IInv, TypeOK, Serves, Presented
  <2>3. leaf' \in [Capturing -> Leaves \cup {NoLeaf}] /\ staple' \in BOOLEAN
    BY <2>2 DEF IInv, TypeOK, Presented
  <2>4. /\ phase' \in [Probes -> Phases]
        /\ \A q \in Probes : phase'[q] \in Before(q) \cup Over(q)
    BY DEF IInv, TypeOK, Probes, Capturing, Over, Before, Phases, OnNetwork, Goto, Presented
  <2> QED BY <1>1, <2>3, <2>4 DEF IInv, TypeOK, Presented
<1>3. PrimaryInv'
  BY <1>1, ServerTyping DEF IInv, TypeOK, Probes, Capturing, PrimaryInv, Serves, Goto, Presented
<1>4. NoSniInv'
  BY <1>1, ServerTyping DEF IInv, TypeOK, Probes, Capturing, NoSniInv, Serves, Goto, Presented
<1>5. HstsInv' /\ OuterInv'
  BY <1>1, ServerTyping DEF IInv, TypeOK, Probes, Over, HstsInv, OuterInv, Goto, Presented
<1> QED BY <1>2, <1>3, <1>4, <1>5 DEF IInv

\* The primary handshake completes and its tickets are pumped.
LEMMA PrimaryIInv ==
  ASSUME IInv, PrimaryCompleted \/ TicketStored \/ PumpOver
  PROVE  IInv'
<1>1. server' = server
  BY DEF PrimaryCompleted, TicketStored, PumpOver
<1>2. Common' = Common /\ Negotiated' = Negotiated
  BY <1>1 DEF Common, Negotiated
<1>3. TypeOK' /\ NoSniInv' /\ HstsInv' /\ OuterInv'
  <2>1. TypeOK'
    <3>1. UNCHANGED <<server, addr, leaf, staple, pc>> /\ tickets' \subseteq {"tls12", "tls13"}
      BY DEF IInv, TypeOK, PrimaryCompleted, TicketStored, PumpOver
    <3>2. phase' \in [Probes -> Phases] /\ \A p \in Probes : phase'[p] \in Before(p) \cup Over(p)
      <4>1. phase' = phase \/ phase' = [phase EXCEPT !["primary"] = "pumping"]
                          \/ phase' = [phase EXCEPT !["primary"] = "done"]
        BY DEF Goto, PrimaryCompleted, TicketStored, PumpOver
      <4>2. /\ "pumping" \in Phases /\ "pumping" \in Before("primary")
            /\ "done" \in Phases /\ "done" \in Over("primary")
        BY DEF Phases, Before, Over
      <4>3. phase \in [Probes -> Phases] /\ \A p \in Probes : phase[p] \in Before(p) \cup Over(p)
        BY DEF IInv, TypeOK
      <4> QED BY <4>1, <4>2, <4>3
    <3> QED BY <3>1, <3>2 DEF IInv, TypeOK
  <2>2. /\ UNCHANGED <<addr, leaf, pc>>
        /\ phase'["no_sni"] = phase["no_sni"] /\ phase'["hsts"] = phase["hsts"]
        /\ phase["primary"] \notin Over("primary")
    BY DEF IInv, TypeOK, Probes, Over, Goto, PrimaryCompleted, TicketStored, PumpOver
  <2>3. NoSniInv' /\ HstsInv'
    BY <1>1, <2>2 DEF IInv, NoSniInv, HstsInv
  <2>4. OuterInv'
    BY <2>2 DEF IInv, OuterInv, Probes
  <2> QED BY <2>1, <2>3, <2>4
<1>4. /\ UNCHANGED <<addr, leaf, staple>>
      /\ phase["primary"] \in {"presented", "pumping"} /\ phase'["primary"] \in {"pumping", "done"}
  BY DEF IInv, TypeOK, Probes, Goto, PrimaryCompleted, TicketStored, PumpOver
<1>5. /\ "tls12" \in tickets' <=> \/ "tls12" \in tickets
                                  \/ PrimaryCompleted /\ Negotiated = "TLS 1.2" /\ "tls12" \in server.issues
      /\ "tls13" \in tickets' => \/ "tls13" \in tickets
                                 \/ Negotiated = "TLS 1.3" /\ "tls13" \in server.issues
  BY DEF PrimaryCompleted, TicketStored, PumpOver
<1>6. PrimaryCompleted \/ phase["primary"] = "pumping"
  BY DEF TicketStored, PumpOver
<1>7. PrimaryInv'
  BY <1>1, <1>2, <1>4, <1>5, <1>6 DEF IInv, PrimaryInv, Serves
<1> QED BY <1>3, <1>7 DEF IInv

\* The handshake without SNI completes.
LEMMA NoSniIInv ==
  ASSUME IInv, NoSniCompleted
  PROVE  IInv'
<1>1. server' = server /\ Common' = Common /\ Negotiated' = Negotiated
  BY DEF Common, Negotiated, NoSniCompleted
<1>2. TypeOK'
  BY <1>1 DEF IInv, TypeOK, Probes, Over, Before, Phases, Goto, NoSniCompleted
<1>3. PrimaryInv'
  BY <1>1 DEF IInv, TypeOK, Probes, PrimaryInv, Serves, Goto, NoSniCompleted
<1>4. NoSniInv'
  BY <1>1 DEF IInv, TypeOK, Probes, NoSniInv, Serves, Goto, NoSniCompleted
<1>5. HstsInv' /\ OuterInv'
  BY <1>1 DEF IInv, TypeOK, Probes, Over, HstsInv, OuterInv, Goto, NoSniCompleted
<1> QED BY <1>2, <1>3, <1>4, <1>5 DEF IInv

\* The HSTS probe completes its handshake and reads its answer.
LEMMA HstsIInv ==
  ASSUME IInv, HstsCompleted \/ HstsAnswered
  PROVE  IInv'
<1>1. server' = server
  BY DEF HstsCompleted, HstsAnswered
<1>2. Common' = Common /\ Negotiated' = Negotiated
  BY <1>1 DEF Common, Negotiated
<1>3. TypeOK' /\ NoSniInv' /\ HstsInv' /\ OuterInv'
  BY <1>1, ServerTyping
  DEF IInv, TypeOK, NoSniInv, HstsInv, OuterInv, Probes, Capturing, Over, Before, Phases, OnNetwork,
      Goto, HstsCompleted, HstsAnswered
<1>4. UNCHANGED <<addr, leaf, staple, tickets>> /\ phase'["primary"] = phase["primary"]
  BY DEF IInv, TypeOK, Probes, Goto, HstsCompleted, HstsAnswered
<1>5. PrimaryInv'
  BY <1>1, <1>2, <1>4 DEF IInv, PrimaryInv, Serves
<1> QED BY <1>3, <1>5 DEF IInv

\* An error or a timer ends a probe that is on the network.
LEMMA LostIInv ==
  ASSUME IInv, NEW p \in Probes, Failed(p) \/ Expired(p)
  PROVE  IInv'
<1>1. server' = server
  BY DEF Failed, Expired
<1>2. Common' = Common /\ Negotiated' = Negotiated
  BY <1>1 DEF Common, Negotiated
<1>3. TypeOK' /\ NoSniInv' /\ HstsInv' /\ OuterInv'
  BY <1>1, ServerTyping
  DEF IInv, TypeOK, NoSniInv, HstsInv, OuterInv, Probes, Capturing, Over, Before, Phases, OnNetwork,
      Goto, Failed, Expired, Lost
<1>4. /\ UNCHANGED <<addr, leaf, staple, tickets>>
      /\ phase'["primary"] = phase["primary"] \/ phase'["primary"] = "failed"
  BY DEF IInv, TypeOK, Probes, Goto, Failed, Expired, Lost
<1>5. PrimaryInv'
  BY <1>1, <1>2, <1>4 DEF IInv, PrimaryInv, Serves
<1> QED BY <1>3, <1>5 DEF IInv

\* The call returns; nothing it had collected changes.
LEMMA ReturnIInv ==
  ASSUME IInv, Return
  PROVE  IInv'
<1>1. server' = server /\ Common' = Common /\ Negotiated' = Negotiated
  BY DEF Common, Negotiated, Return
<1>2. TypeOK'
  BY <1>1 DEF IInv, TypeOK, Probes, Over, Before, Phases, Goto, Return
<1>3. PrimaryInv'
  BY <1>1 DEF IInv, TypeOK, Probes, PrimaryInv, Serves, Goto, Return
<1>4. NoSniInv'
  BY <1>1 DEF IInv, TypeOK, Probes, NoSniInv, Serves, Goto, Return
<1>5. HstsInv' /\ OuterInv'
  BY <1>1 DEF IInv, TypeOK, Probes, Over, HstsInv, OuterInv, Goto, Return
<1> QED BY <1>2, <1>3, <1>4, <1>5 DEF IInv

\* So does a step that changes nothing.
LEMMA StutterIInv ==
  ASSUME IInv, UNCHANGED vars
  PROVE  IInv'
<1>1. server' = server /\ Common' = Common /\ Negotiated' = Negotiated
  BY DEF Common, Negotiated, vars
<1>2. TypeOK'
  BY <1>1 DEF IInv, TypeOK, Probes, Over, Before, Phases, Goto, vars
<1>3. PrimaryInv'
  BY <1>1 DEF IInv, TypeOK, Probes, PrimaryInv, Serves, Goto, vars
<1>4. NoSniInv'
  BY <1>1 DEF IInv, TypeOK, Probes, NoSniInv, Serves, Goto, vars
<1>5. HstsInv' /\ OuterInv'
  BY <1>1 DEF IInv, TypeOK, Probes, Over, HstsInv, OuterInv, Goto, vars
<1> QED BY <1>2, <1>3, <1>4, <1>5 DEF IInv

\* Every step of Next, or a stutter, preserves the inductive invariant.
LEMMA NextIInv == IInv /\ [Next]_vars => IInv'
<1> SUFFICES ASSUME IInv, [Next]_vars PROVE IInv'
  OBVIOUS
<1>1. CASE Resolved \/ Unresolved
  BY <1>1, ResolveIInv
<1>2. ASSUME NEW p \in Probes, Connected(p) PROVE IInv'
  BY <1>2, ConnectedIInv
<1>3. ASSUME NEW p \in Probes, Failed(p) \/ Expired(p) PROVE IInv'
  BY <1>3, LostIInv
<1>4. ASSUME NEW p \in Capturing, Presented(p) PROVE IInv'
  BY <1>4, PresentedIInv
<1>5. CASE PrimaryCompleted \/ TicketStored \/ PumpOver
  BY <1>5, PrimaryIInv
<1>6. CASE NoSniCompleted
  BY <1>6, NoSniIInv
<1>7. CASE HstsCompleted \/ HstsAnswered
  BY <1>7, HstsIInv
<1>8. CASE Return
  BY <1>8, ReturnIInv
<1>9. CASE Terminated \/ UNCHANGED vars
  BY <1>9, StutterIInv DEF Terminated
<1> QED BY <1>1, <1>2, <1>3, <1>4, <1>5, <1>6, <1>7, <1>8, <1>9 DEF Next

\* Every reachable state satisfies the inductive invariant.
THEOREM Invariance == Spec => []IInv
BY InitIInv, NextIInv, PTL DEF Spec

-----------------------------------------------------------------------------
(***************************************************************************)
(* The properties                                                          *)
(***************************************************************************)

\* The probes' state is well typed for every host (connection.rs:110-310).
THEOREM Typing == Spec => []TypeOK
<1>1. IInv => TypeOK
  BY DEF IInv
<1> QED BY <1>1, Invariance, PTL

\* Staple and TLS 1.2 session are reported exactly, a TLS 1.3 ticket and HSTS
\* only when observed (connection.rs:222-232, 296-310).
THEOREM ReportsOnlyWhatItSaw == Spec => []ReportIsObserved
<1>1. IInv => ReportIsObserved
  BY ConnectionAssumption
  DEF IInv, TypeOK, PrimaryInv, HstsInv, OuterInv, ReportIsObserved, Report, Common, Negotiated, Over, Probes
<1> QED BY <1>1, Invariance, PTL

\* "same" and "different" compare two leaves really presented, with and
\* without SNI, by the addresses dialled (connection.rs:343-369).
THEOREM ComparesRealLeaves == Spec => []SniComparisonIsReal
<1>1. ASSUME IInv, pc = "ok", SniOutcome \in {"same-certificate", "different-certificate"}
      PROVE  /\ ~server.ip
             /\ phase["no_sni"] = "leaf"
             /\ SniOutcome = "same-certificate" <=> leaf["primary"] = leaf["no_sni"]
  <2>1. phase["no_sni"] \in {"leaf", "rejected", "unavailable"}
    BY <1>1 DEF IInv, OuterInv, Over, Probes
  <2>2. ~server.ip
    BY <1>1 DEF SniOutcome
  <2>3. phase["no_sni"] = "leaf"
    BY <1>1, <2>1, <2>2 DEF SniOutcome, Compared
  <2>4. SniOutcome = "same-certificate" <=> leaf["primary"] = leaf["no_sni"]
    BY <2>2, <2>3 DEF SniOutcome, Compared
  <2> QED BY <2>2, <2>3, <2>4
<1>2. ASSUME IInv, pc = "ok", phase["no_sni"] = "leaf", ~server.ip
      PROVE  /\ {addr["primary"], addr["no_sni"]} \subseteq server.up
             /\ server.bare[addr["no_sni"]] # Refuse
             /\ leaf["primary"] = server.sni[addr["primary"]]
             /\ leaf["no_sni"] = server.bare[addr["no_sni"]]
  BY <1>2 DEF IInv, PrimaryInv, NoSniInv, OuterInv, Serves
<1>3. IInv => SniComparisonIsReal
  BY <1>1, <1>2 DEF SniComparisonIsReal, Report
<1> QED BY <1>3, Invariance, PTL

\* After the primary handshake completes, neither the pump nor a timer nor
\* another probe can make the probe or inspect fail (connection.rs:208-220).
THEOREM HandshakeIsNeverDiscarded == Spec => CompletedHandshakeIsKept
<1> DEFINE A == phase["primary"] \in {"pumping", "done"} =>
                  /\ phase'["primary"] \in {"pumping", "done"}
                  /\ pc' # "err"
<1>1. ASSUME IInv, IInv', [Next]_vars PROVE A
  <2> SUFFICES ASSUME phase["primary"] \in {"pumping", "done"} PROVE A
    OBVIOUS
  <2>1. phase'["primary"] \in {"pumping", "done"}
    BY <1>1
    DEF IInv, TypeOK, Next, Probes, Capturing, Goto, Resolved, Unresolved, Connected, Presented,
        PrimaryCompleted, TicketStored, PumpOver, NoSniCompleted, HstsCompleted, HstsAnswered,
        Lost, Failed, Expired, OnNetwork, Return, Terminated, vars
  <2>2. pc' # "err"
    BY <1>1, <2>1 DEF IInv, OuterInv
  <2> QED BY <2>1, <2>2
<1> QED BY <1>1, Invariance, PTL DEF Spec, CompletedHandshakeIsKept

\* Nothing of inspect runs on after it has returned (connection.rs:116-121).
THEOREM NothingRunsOn == Spec => NoProbeOutlivesInspect
<1>1. ASSUME IInv, [Next]_vars, pc # "probing" PROVE UNCHANGED vars
  BY <1>1
  DEF IInv, OuterInv, Over, Next, Probes, Capturing, Resolved, Unresolved, Connected, Presented,
      PrimaryCompleted, TicketStored, PumpOver, NoSniCompleted, HstsCompleted, HstsAnswered,
      Failed, Expired, OnNetwork, Return, Terminated
<1> QED BY <1>1, Invariance, PTL DEF Spec, NoProbeOutlivesInspect

-----------------------------------------------------------------------------
(***************************************************************************)
(* The three probes implement ConnectionReport                             *)
(***************************************************************************)

\* The SNI verdict of a finished primary probe is one that ConnectionReport
\* allows: a comparison has its two leaves among the host's.
LEMMA SniVerdictIsAllowed ==
  ASSUME IInv, pc = "ok"
  PROVE  SniOutcome \in Abstract!SniOutcomes(server)
<1>1. phase["no_sni"] \in {"leaf", "rejected", "unavailable"} /\ phase["primary"] = "done"
  BY DEF IInv, OuterInv, Over, Probes
<1>2. CASE server.ip
  BY <1>2 DEF SniOutcome, Abstract!SniOutcomes
<1>3. CASE ~server.ip /\ phase["no_sni"] # "leaf"
  BY <1>1, <1>3 DEF SniOutcome, Abstract!SniOutcomes
<1>4. CASE ~server.ip /\ phase["no_sni"] = "leaf"
  <2> DEFINE a == addr["primary"]
             b == addr["no_sni"]
             p == <<server.sni[a], server.bare[b]>>
  <2>1. /\ a \in server.up /\ server.sni[a] # Refuse /\ leaf["primary"] = server.sni[a]
        /\ b \in server.up /\ server.bare[b] # Refuse /\ leaf["no_sni"] = server.bare[b]
    BY <1>1, <1>4 DEF IInv, PrimaryInv, NoSniInv, Serves
  <2>2. p \in Abstract!Pairs(server)
    BY <2>1 DEF Abstract!Pairs
  <2>3. SniOutcome = IF p[1] = p[2] THEN "same-certificate" ELSE "different-certificate"
    BY <1>4, <2>1 DEF SniOutcome, Compared
  <2> HIDE DEF p
  <2> QED BY <1>4, <2>2, <2>3 DEF Abstract!SniOutcomes
<1> QED BY <1>2, <1>3, <1>4

\* What a finished inspect returns is a report that ConnectionReport allows.
LEMMA ReturnedIsAllowed ==
  IInv /\ pc = "ok" => Outcome \in Abstract!Reports(server)
<1> SUFFICES ASSUME IInv, pc = "ok" PROVE Outcome \in Abstract!Reports(server)
  OBVIOUS
<1>1. Outcome = [status |-> "ok", staple |-> staple, tickets |-> tickets,
                 sni |-> SniOutcome, hsts |-> phase["hsts"]]
  BY DEF Outcome, Report
<1>2. phase["primary"] = "done" /\ phase["hsts"] \in {"header", "noheader", "none"}
  BY DEF IInv, OuterInv, Over, Probes
<1>3. staple \in {server.staples}
  BY <1>2 DEF IInv, PrimaryInv
<1>4. tickets \in Abstract!Resumptions(server)
  <2>1. /\ "tls12" \in tickets <=> Negotiated = "TLS 1.2" /\ "tls12" \in server.issues
        /\ "tls13" \in tickets => Negotiated = "TLS 1.3" /\ "tls13" \in server.issues
        /\ tickets \subseteq {"tls12", "tls13"}
    BY <1>2 DEF IInv, TypeOK, PrimaryInv
  <2>2. CASE "TLS 1.3" \in server.versions
    <3>1. tickets \subseteq server.issues \cap {"tls13"}
      BY <2>1, <2>2 DEF Common, Negotiated
    <3> QED BY <2>2, <3>1 DEF Abstract!Resumptions
  <2>3. CASE "TLS 1.3" \notin server.versions
    <3>1. tickets = server.issues \cap {"tls12"}
      BY <2>1, <2>3 DEF Common, Negotiated
    <3> QED BY <2>3, <3>1 DEF Abstract!Resumptions
  <2> QED BY <2>2, <2>3
<1>5. phase["hsts"] \in Abstract!HstsOutcomes(server)
  BY <1>2 DEF IInv, HstsInv, Abstract!HstsOutcomes
<1>6. SniOutcome \in Abstract!SniOutcomes(server)
  BY SniVerdictIsAllowed
<1>7. Abstract!Common(server) # {}
  BY <1>2 DEF IInv, PrimaryInv, Common, Abstract!Common
<1> QED BY <1>1, <1>3, <1>4, <1>5, <1>6, <1>7 DEF Abstract!Reports

\* To its caller, inspect with its concurrent probes is one report published
\* at once (connection.rs:110-130).
THEOREM InspectImplementsReport ==
  Spec => Abstract!Init /\ [][Abstract!Publish]_(Abstract!reportVars)
<1>1. Init => Abstract!Init
  BY DEF Init, Abstract!Init, Abstract!Pending, Outcome
<1>2. (IInv /\ pc = "ok" => Outcome \in Abstract!Reports(server))'
  BY ReturnedIsAllowed, PTL
<1>3. ASSUME IInv, IInv', [Next]_vars PROVE [Abstract!Publish]_(Abstract!reportVars)
  <2>1. UNCHANGED server
    BY <1>3
    DEF Next, Resolved, Unresolved, Connected, Presented, PrimaryCompleted, TicketStored, PumpOver,
        NoSniCompleted, HstsCompleted, HstsAnswered, Failed, Expired, Return, Terminated, vars
  <2>2. CASE pc # "probing"
    <3>1. UNCHANGED vars
      BY <1>3, <2>2
      DEF IInv, OuterInv, Over, Next, Probes, Capturing, Resolved, Unresolved, Connected, Presented,
          PrimaryCompleted, TicketStored, PumpOver, NoSniCompleted, HstsCompleted, HstsAnswered,
          Failed, Expired, OnNetwork, Return, Terminated
    <3>2. UNCHANGED Outcome
      BY <3>1 DEF vars, Outcome, Report, SniOutcome, Compared
    <3> QED BY <2>1, <3>2 DEF Abstract!reportVars
  <2>3. CASE pc = "probing"
    <3>1. Outcome = Abstract!Pending
      BY <2>3 DEF Outcome, Abstract!Pending
    <3>2. CASE pc' = "ok"
      <4>1. Outcome' \in Abstract!Reports(server)'
        BY <1>2, <1>3, <3>2
      <4>2. Abstract!Reports(server)' = Abstract!Reports(server)
        <5>1. /\ Abstract!Common(server)' = Abstract!Common(server)
              /\ Abstract!Resumptions(server)' = Abstract!Resumptions(server)
          BY <2>1 DEF Abstract!Common, Abstract!Resumptions
        <5>2. Abstract!SniOutcomes(server)' = Abstract!SniOutcomes(server)
          BY <2>1 DEF Abstract!SniOutcomes, Abstract!Pairs
        <5>3. Abstract!HstsOutcomes(server)' = Abstract!HstsOutcomes(server)
          BY <2>1 DEF Abstract!HstsOutcomes
        <5> QED BY <2>1, <5>1, <5>2, <5>3 DEF Abstract!Reports
      <4> QED BY <2>1, <3>1, <4>1, <4>2 DEF Abstract!Publish
    <3>3. CASE pc' = "err"
      <4>1. Outcome' = Abstract!Err
        BY <3>3 DEF Outcome, Abstract!Err
      <4> QED BY <2>1, <3>1, <4>1 DEF Abstract!Publish
    <3>4. CASE pc' = "probing"
      <4>1. Outcome' = Abstract!Pending
        BY <3>4 DEF Outcome, Abstract!Pending
      <4> QED BY <2>1, <3>1, <4>1 DEF Abstract!reportVars
    <3> QED BY <1>3, <3>2, <3>3, <3>4 DEF IInv, TypeOK
  <2> QED BY <2>2, <2>3
<1> QED BY <1>1, <1>3, Invariance, PTL DEF Spec
=============================================================================

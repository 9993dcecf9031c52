---------------------------- MODULE HttpExchange ----------------------------
(***************************************************************************)
(* One `http::request` under `with_timeout`, for each of the three parts   *)
(* of the scanner that make one: the OCSP check, the CT lookup and the     *)
(* HSTS probe.  The request asks for "Connection: close", so the response  *)
(* is whatever has arrived when the peer closes: nothing in the client     *)
(* knows how long it should have been.                                     *)
(*                                                                         *)
(* A peer says who asks it, over what, and what it would send if nothing   *)
(* went wrong; it may stop at any octet.  X_y is a deliberately wrong      *)
(* variant of X.                                                           *)
(***************************************************************************)
EXTENDS Ocsp, HttpMessage

CONSTANTS
  Peers,     \* [user, scheme, trusted, status, headers, body, means], and for the
             \* OCSP check [url, address, serial]
  HeadUnits, \* pieces the head arrives in
  Limited    \* TRUE unless --timeout is 0

ASSUME ExchangeAssumption ==
  /\ HeadUnits \in Nat \ {0}
  /\ Limited \in BOOLEAN
  /\ \A p \in Peers : p.user \in {"ocsp", "ct", "hsts"} /\ p.body \in Seq(Octet)

\* url is the address written out: a host without ":" and "/", then a port and
\* a path, or neither, or one of them.
Addresses == [scheme : DOMAIN Schemes, host : Seq(STRING), port : Nat, path : Seq(STRING)]
Names(url, address) ==
  /\ address \in Addresses
  /\ \A i \in DOMAIN address.host : address.host[i] \notin {":", "/"}
  /\ \E port \in {<<>>} \cup {<<":", p>> : p \in DOMAIN Ports}, path \in {<<>>, address.path} :
       /\ url = <<address.scheme>> \o address.host \o port \o path
       /\ address.port = IF port = <<>> THEN Schemes[address.scheme] ELSE Ports[port[2]]
       /\ IF path = <<>> THEN address.path = <<"/">> ELSE path[1] = "/"

\* A leaf's serial number is not negative, and the request about it is not
\* longer than any length octets tell.
ASSUME OcspPeersAssumption ==
  \A p \in Peers : p.user = "ocsp" =>
    /\ Names(p.url, p.address)
    /\ p.serial \in Seq(Octet) /\ p.serial # <<>> /\ p.serial[1] < Half
    /\ Encodable(Len(BuildRequest(p.serial, p.serial, p.serial)))

\* What a CT log sends and begins with "[" is an array of records.
ASSUME CtPeersAssumption ==
  \A p \in Peers : p.user = "ct" =>
    LET text == Trim(p.body, JsonSpace)
    IN  text # <<>> /\ text[1] = 91 => \E n \in 0..Len(text) : text = JsonArray(n)

VARIABLES
  peer,      \* the peer of this run
  phase,     \* how far the request is
  received,  \* pieces of the head, then octets of the body, that arrived
  answer     \* what the user makes of the response: at most one value

vars == <<peer, phase, received, answer>>

Whole == HeadUnits + Len(peer.body)
OnNetwork == {"connecting", "handshaking", "reading"}

\* The body as far as it has arrived.
Body_Padded == [i \in 1..Len(peer.body) |-> IF i <= received - HeadUnits THEN peer.body[i] ELSE 0]
Body == IF received <= HeadUnits THEN <<>> ELSE SubSeq(peer.body, 1, received - HeadUnits)
Response == ParseResponse(received >= HeadUnits, peer.status, peer.headers, Body)

\* ocsp::query, ct::entry_count and probe_hsts, on a response that parses.
\* Only the HSTS probe does not ask for the status.
Interpret(user, r) ==
  CASE user = "ocsp" -> IF r.status # 200 THEN Some([http |-> r.status])
                        ELSE ParseStatus(r.body)
    [] user = "ct" -> IF r.status # 200 THEN None ELSE CountEntries(r.body)
    [] user = "hsts" -> Some(ParseHsts(Header(r.headers, Hsts)))
Answer(user, response) == IF response = None THEN None ELSE Interpret(user, response[1])

-----------------------------------------------------------------------------
Init ==
  /\ peer \in Peers
  /\ phase = "connecting"
  /\ received = 0
  /\ answer = None

\* TcpStream::connect; over http the request is written at once.
Connected ==
  /\ phase = "connecting"
  /\ phase' = IF peer.scheme = "https" THEN "handshaking" ELSE "reading"
  /\ UNCHANGED <<peer, received, answer>>

\* The TLS handshake, with real validation, and the request.
Secured ==
  /\ phase = "handshaking"
  /\ peer.trusted
  /\ phase' = "reading"
  /\ UNCHANGED <<peer, received, answer>>

\* read_to_end gets one piece more.
Receive ==
  /\ phase = "reading"
  /\ received < Whole
  /\ received' = received + 1
  /\ UNCHANGED <<peer, phase, answer>>

\* read_to_end sees the end: a FIN, under TLS after a close_notify.
Closed ==
  /\ phase = "reading"
  /\ phase' = "closed"
  /\ answer' = Answer(peer.user, Response)
  /\ UNCHANGED <<peer, received>>

\* Refused, reset, not trusted, or under TLS closed without close_notify.
Failed ==
  /\ phase \in OnNetwork
  /\ phase' = "lost"
  /\ UNCHANGED <<peer, received, answer>>

\* The timeout, which spans the whole exchange.
Expired_Connect ==
  /\ Limited
  /\ phase \in {"connecting", "handshaking"}
  /\ phase' = "lost"
  /\ UNCHANGED <<peer, received, answer>>
Expired_Partial ==
  /\ Limited
  /\ phase \in OnNetwork
  /\ phase' = "lost"
  /\ answer' = Answer(peer.user, Response)
  /\ UNCHANGED <<peer, received>>
Expired ==
  /\ Limited
  /\ phase \in OnNetwork
  /\ phase' = "lost"
  /\ UNCHANGED <<peer, received, answer>>

\* request has returned.
Terminated == phase \in {"closed", "lost"} /\ UNCHANGED vars

Next ==
  Connected \/ Secured \/ Receive \/ Closed \/ Failed \/ Expired \/ Terminated

\* The timer is the client's own; the peer owes nothing.
Spec == Init /\ [][Next]_vars
FairSpec == Spec /\ WF_vars(Expired)

-----------------------------------------------------------------------------
(***************************************************************************)
(* Properties                                                              *)
(***************************************************************************)

\* Type invariant; only a closed exchange has an answer (http.rs:79-95).
TypeOK ==
  /\ peer \in Peers
  /\ phase \in OnNetwork \cup {"closed", "lost"}
  /\ received \in 0..Whole
  /\ Len(answer) <= 1
  /\ answer # None => phase = "closed"

\* Wherever the peer stops, the user reports what the whole response means or
\* a failure, never another status, count or policy.  The exception is in the
\* code: a body that is not chunked and of which nothing but space arrived
\* counts as no CT entries.  Nothing an untrusted peer says is reported
\* (ocsp.rs:48-71, ct.rs:34-49, http.rs:97-182).
AnswerIsThePeers ==
  answer # None =>
    /\ peer.scheme = "https" => peer.trusted
    /\ \/ answer = peer.means
       \/ /\ peer.user = "ct" /\ answer = Some([entries |-> 0])
          /\ received < Whole /\ ~Chunked(peer.headers) /\ Trim(Body, AsciiSpace) = <<>>

\* An OCSP response in one DER value that is cut off anywhere, and be it after
\* the status, gives no status at all (der.rs:99-101, ocsp.rs:133).
CutStatusIsNoStatus ==
  /\ peer.user = "ocsp" /\ peer.status = 200 /\ ~Chunked(peer.headers)
  /\ Readable(peer.body) /\ TotalLen(peer.body) = Len(peer.body)
  /\ received < Whole
  => answer = None

\* A response that arrives whole is understood, however it is framed and
\* whatever optional parts it has: extensions of chunk sizes, versions and
\* responder names of OCSP, order of headers and directives (http.rs:29-34,
\* 114-182, ocsp.rs:129-172, connection.rs:313-341).
WholeAnswerIsUnderstood ==
  phase = "closed" /\ received = Whole => answer = peer.means

\* The request goes to the address that the certificate's URL means, and the
\* responder reads the serial number of the leaf out of it exactly as the
\* certificate has it (ocsp.rs:90-114, 174-194, der.rs:50-64).
RequestNamesTheLeaf ==
  peer.user = "ocsp" =>
    LET request == BuildRequest(peer.serial, peer.serial, peer.serial)
        serial == Descend(request, <<1, 1, 1, 1, 1, 4>>)
    IN  /\ ParseUrl(peer.url) = Some(peer.address)
        /\ serial = Some([tag |-> IntegerTag, content |-> peer.serial])

\* With a timeout every exchange ends, though the peer may stay silent or
\* keep the connection open after its response (mod.rs:37-51).
ExchangeEnds == Limited => <>(phase \in {"closed", "lost"})
=============================================================================

--------------------------- MODULE MCHttpExchange ---------------------------
(***************************************************************************)
(* Responders, a CT log and web servers with every optional part of their  *)
(* responses present or not, their bodies sent up to the close or in one   *)
(* or two chunks.                                                          *)
(***************************************************************************)
EXTENDS HttpExchange

Part(name) == [name |-> name, value |-> <<>>]
Te == [name |-> TransferEncoding, value |-> <<Part("gzip"), Part("chunked")>>]
OtherTe == [name |-> TransferEncoding, value |-> <<Part("identity")>>]
Header0 == [name |-> "server", value |-> <<Part("x")>>]

Hex(n) == IF n < 10 THEN 48 + n ELSE 87 + n
HexLine(n) == IF n < 16 THEN <<Hex(n)>> ELSE <<Hex(n \div 16), Hex(n % 16)>>
Chunk(s, ext) == HexLine(Len(s)) \o ext \o <<CR, LF>> \o s \o <<CR, LF>>
LastChunk == <<48, CR, LF, CR, LF>>
Halves(s) == <<SubSeq(s, 1, Len(s) \div 2), SubSeq(s, Len(s) \div 2 + 1, Len(s))>>

\* Framings of a body: headers and octets.
Framings(s) ==
  {[headers |-> <<Header0>>, body |-> s],
   [headers |-> <<OtherTe, Te>>, body |-> Chunk(s, <<>>) \o LastChunk],
   [headers |-> <<Te, Header0>>,
    body |-> Chunk(Halves(s)[1], <<32, 11, Semicolon, 97>>) \o Chunk(Halves(s)[2], <<>>) \o LastChunk]}

\* An OCSP response as responders build it.
Name20 == [i \in 1..20 |-> 204]
Time == Tlv(24, <<50, 48, 90>>)
Statuses == {[tlv |-> <<128, 0>>, is |-> "Good", serial |-> <<5>>],
             [tlv |-> Tlv(161, Time), is |-> "Revoked", serial |-> <<0, 200>>],
             [tlv |-> <<130, 0>>, is |-> "Unknown", serial |-> [i \in 1..20 |-> 3 * i]]}
Versions == {<<>>, Tlv(160, Tlv(2, <<0>>))}
Responders == {Tlv(162, Tlv(4, Name20)), Tlv(161, Tlv(48, <<>>))}

OcspBody(status, version, responder) ==
  LET certId == Tlv(48, AlgIdSha1 \o Tlv(4, Name20) \o Tlv(4, Name20) \o DerInteger(<<1>>))
      responses == Tlv(48, Tlv(48, certId \o status \o Time))
      data == Tlv(48, version \o responder \o Time \o responses)
      basic == Tlv(48, data \o AlgIdSha1 \o Tlv(3, <<0, 222>>))
      bytes == Tlv(48, Tlv(6, <<43, 6, 1>>) \o Tlv(4, basic))
  IN  Tlv(48, Tlv(10, <<0>>) \o Tlv(160, bytes))

Peer(user, scheme, trusted, status, f, means) ==
  [user |-> user, scheme |-> scheme, trusted |-> trusted, status |-> status,
   headers |-> f.headers, body |-> f.body, means |-> means,
   serial |-> <<5, 17>>, url |-> <<scheme, "ocsp">>,
   address |-> [scheme |-> scheme, host |-> <<"ocsp">>, port |-> Schemes[scheme], path |-> <<"/">>]]

\* A port after the host and a path with a colon in it.
Located(p) ==
  [p EXCEPT !.url = <<p.scheme, "ocsp", ":", "8080", "/", "x", ":", "80">>,
            !.address.port = 8080, !.address.path = <<"/", "x", ":", "80">>]

OcspPeers ==
  UNION {{[Peer("ocsp", "http", FALSE, 200, f, Some([status |-> s.is])) EXCEPT !.serial = s.serial] :
            f \in Framings(OcspBody(s.tlv, v, r))} :
           s \in Statuses, v \in Versions, r \in Responders}
  \cup {Peer("ocsp", "https", t, 200, [headers |-> <<>>, body |-> Tlv(48, Tlv(10, <<3>>))],
             Some([status |-> "Responder error"])) : t \in BOOLEAN}
  \cup {Peer("ocsp", "http", TRUE, 500, [headers |-> <<>>, body |-> <<1>>],
             Some([http |-> 500]))}
  \cup {Located(Peer("ocsp", "https", TRUE, 404, [headers |-> <<>>, body |-> <<>>], Some([http |-> 404])))}

CtPeers ==
  UNION {{Peer("ct", "https", t, 200, f, Some([entries |-> n])) : f \in Framings(<<10>> \o JsonArray(n) \o <<32>>)} :
           n \in {0, 1, 10}, t \in BOOLEAN}
  \cup {Peer("ct", "https", TRUE, s, [headers |-> <<>>, body |-> JsonArray(2)], None) :
          s \in {500, NoStatus}}
  \cup {Peer("ct", "https", TRUE, 200, [headers |-> <<>>, body |-> text], None) :
          text \in {<<60, 104>>, <<12>> \o JsonArray(1)}}

\* Policies, and the directives a server states one with.
Policies == [present : {TRUE}, maxAge : {<<0>>, <<31536000>>}, subdomains : BOOLEAN, preload : BOOLEAN]
Stated(p) ==
  LET age == [name |-> "max-age", value |-> <<p.maxAge>>]
      flag(on, name) == IF on THEN <<Part(name)>> ELSE <<>>
      flags == flag(p.subdomains, "includesubdomains") \o flag(p.preload, "preload")
  IN  {<<age>> \o flags, flags \o <<age>>}
NoPolicy == [present |-> FALSE, maxAge |-> <<>>, subdomains |-> FALSE, preload |-> FALSE]
Second == [name |-> Hsts, value |-> <<[name |-> "max-age", value |-> <<<<7>>>>]>>]

HstsPeers ==
  UNION {{Peer("hsts", "https", TRUE, 301,
               [headers |-> <<Header0, [name |-> Hsts, value |-> d]>> \o more, body |-> <<>>], Some(p)) :
            d \in Stated(p), more \in {<<>>, <<Second>>}} : p \in Policies}
  \cup {Peer("hsts", "https", t, 200, f, Some(NoPolicy)) : f \in Framings(<<1, 2>>), t \in BOOLEAN}

MCPeers == OcspPeers \cup CtPeers \cup HstsPeers
=============================================================================

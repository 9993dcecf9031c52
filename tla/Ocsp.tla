-------------------------------- MODULE Ocsp --------------------------------
(***************************************************************************)
(* `scanner::ocsp`: the request about one leaf, and the walk through the   *)
(* answer down to the status of that leaf.  X_y is a deliberately wrong    *)
(* variant of X.                                                           *)
(***************************************************************************)
EXTENDS Der, FiniteSetsExt

\* The tags and octets below are those of the code.
ASSUME OcspAssumption == Base = 256

OctetStringTag == 4
EnumeratedTag == 10
SequenceTag == 48
GoodTag == 128       \* good [0] IMPLICIT NULL
RevokedTag == 161    \* revoked [1] IMPLICIT RevokedInfo

\* AlgorithmIdentifier for SHA-1.
AlgIdSha1 == <<48, 9, 6, 5, 43, 14, 3, 2, 26, 5, 0>>

\* The hashes of the issuer's name and key and the serial number of the leaf.
Sequence(content) == Tlv(SequenceTag, content)
CertId(nameHash, keyHash, serial) ==
  AlgIdSha1 \o Tlv(OctetStringTag, nameHash) \o Tlv(OctetStringTag, keyHash) \o DerInteger(serial)

\* A Request in the list of them in a TBSRequest in an OCSPRequest.
BuildRequest(nameHash, keyHash, serial) ==
  LET request == Sequence(Sequence(CertId(nameHash, keyHash, serial)))
  IN  Sequence(Sequence(Sequence(request)))

\* What may be missing is a sequence of at most one element.
Some(x) == <<x>>
None == <<>>

\* The responder's URL is the sequence of its pieces: a scheme, names, port
\* numbers, ":" and "/".  A port that is no number is not used.
Schemes == [s \in {"http", "https"} |-> IF s = "http" THEN 80 ELSE 443]
Ports == [p \in {"80", "443", "8080"} |-> CASE p = "80" -> 80 [] p = "443" -> 443 [] p = "8080" -> 8080]
Url(scheme, authority, path) ==
  LET colons == {i \in DOMAIN authority : authority[i] = ":"}
      last == Max(colons)
      named == IF colons = {} THEN <<>> ELSE SubSeq(authority, last + 1, Len(authority))
  IN  [scheme |-> scheme,
       host |-> IF colons = {} THEN authority ELSE SubSeq(authority, 1, last - 1),
       port |-> IF Len(named) = 1 /\ named[1] \in DOMAIN Ports THEN Ports[named[1]] ELSE Schemes[scheme],
       path |-> path]
ParseUrl_NoSplit(url) ==
  IF url = <<>> \/ url[1] \notin DOMAIN Schemes THEN None
  ELSE Some(Url(url[1], Tail(url), <<"/">>))
ParseUrl(url) ==
  IF url = <<>> \/ url[1] \notin DOMAIN Schemes THEN None
  ELSE LET rest == Tail(url)
           slashes == {i \in DOMAIN rest : rest[i] = "/"}
           cut == IF slashes = {} THEN Len(rest) + 1 ELSE Min(slashes)
       IN  Some(Url(url[1], SubSeq(rest, 1, cut - 1),
                    IF slashes = {} THEN <<"/">> ELSE SubSeq(rest, cut, Len(rest))))

-----------------------------------------------------------------------------
(* The walk *)

\* The k-th child of a content; the first is also what read_tlv returns.
Nth(s, k) == IF k <= Len(s) THEN Some(s[k]) ELSE None
Child(c, k) == Nth(Children(c), k)

\* From a content down: the path[1]-th child, its path[2]-th child, ...
Descend(c, path) ==
  LET at[i \in 0..Len(path)] ==
        IF i = 0 THEN Some([tag |-> 0, content |-> c])
        ELSE LET above == at[i - 1]
             IN  IF above = None THEN None ELSE Child(above[1].content, path[i])
  IN  at[Len(path)]

\* The responses of a ResponseData: its first plain SEQUENCE, wherever the
\* optional version in front of it leaves it.
Responses_Third(c) == Child(c, 3)
Responses(c) ==
  LET s == Children(c)
      plain == {i \in DOMAIN s : s[i].tag = SequenceTag}
  IN  IF plain = {} THEN None ELSE Some(s[Min(plain)])

\* responseStatus is ENUMERATED successful (0).
Successful(status) ==
  /\ status.tag = EnumeratedTag
  /\ status.content # <<>> /\ status.content[1] = 0

CertStatus(tag) ==
  [status |-> CASE tag = GoodTag -> "Good"
                [] tag = RevokedTag -> "Revoked"
                [] OTHER -> "Unknown"]

\* None is Err("malformed OCSP response").
ParseStatus(d) ==
  LET status == Descend(Content(d), <<1>>)
      data == Descend(Content(d), <<2, 1, 2, 1, 1>>)
      responses == IF data = None THEN None ELSE Responses(data[1].content)
      certStatus == IF responses = None THEN None
                    ELSE Descend(responses[1].content, <<1, 2>>)
  IN  CASE ~Readable(d) \/ status = None -> None
        [] OTHER -> IF ~Successful(status[1]) THEN Some([status |-> "Responder error"])
                    ELSE IF certStatus = None THEN None
                    ELSE Some(CertStatus(certStatus[1].tag))
=============================================================================

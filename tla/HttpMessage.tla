---------------------------- MODULE HttpMessage ----------------------------
(***************************************************************************)
(* What `scanner::http` makes of the octets of a response, and what the    *)
(* readers of `scanner::ct` and `scanner::connection` make of that.        *)
(*                                                                         *)
(* The head is data: a status (NoStatus when the status line has none) and *)
(* headers with lower-case names.  The value of a header is the sequence   *)
(* of its parts [name, value], whatever separates them; a part has value   *)
(* <<>> without "=", and <<<<>>>> or <<<<n>>>> when what follows the "="   *)
(* is no u64, or is n.  A body is octets.  What may be missing is a        *)
(* sequence of at most one element.  X_y is a deliberately wrong variant   *)
(* of X.                                                                   *)
(***************************************************************************)
EXTENDS Integers, Sequences, FiniteSetsExt

CR == 13
LF == 10
Plus == 43
Semicolon == 59

NoStatus == -1
TransferEncoding == "transfer-encoding"
Hsts == "strict-transport-security"

\* The value of the first header of that name.
Header(headers, name) ==
  LET found == {i \in DOMAIN headers : headers[i].name = name}
  IN  IF found = {} THEN <<>> ELSE <<headers[Min(found)].value>>

\* Some transfer-encoding, not just the first, lists "chunked".
Chunked(headers) ==
  \E i \in DOMAIN headers :
    /\ headers[i].name = TransferEncoding
    /\ \E j \in DOMAIN headers[i].value : headers[i].value[j] = [name |-> "chunked", value |-> <<>>]

-----------------------------------------------------------------------------
(* White space: what serde_json skips, u8::is_ascii_whitespace, and the      *)
(* ASCII part of str::trim                                                   *)

JsonSpace == {9, LF, CR, 32}
AsciiSpace == JsonSpace \cup {12}
Space == AsciiSpace \cup {11}

Trim(s, space) ==
  LET inked == {i \in DOMAIN s : s[i] \notin space}
  IN  IF inked = {} THEN <<>> ELSE SubSeq(s, Min(inked), Max(inked))

-----------------------------------------------------------------------------
(* Chunked transfer coding *)

HexValue == [o \in 48..57 \cup 65..70 \cup 97..102 |->
               IF o <= 57 THEN o - 48 ELSE IF o <= 70 THEN o - 55 ELSE o - 87]

\* from_str_radix(s, 16).  A size no usize holds is left as it is: it fails
\* one step later than in the code, being larger than the data.
HexNumber(s) ==
  LET digits == IF s # <<>> /\ s[1] = Plus THEN Tail(s) ELSE s
      upto[i \in 0..Len(digits)] ==
        IF i = 0 THEN 0 ELSE 16 * upto[i - 1] + HexValue[digits[i]]
  IN  IF digits = <<>> \/ \E i \in DOMAIN digits : digits[i] \notin DOMAIN HexValue
      THEN <<>> ELSE <<upto[Len(digits)]>>

\* The line up to an extension, trimmed, as a number.
ChunkSize(line) ==
  LET ext == {i \in DOMAIN line : line[i] = Semicolon}
  IN  HexNumber(Trim(SubSeq(line, 1, IF ext = {} THEN Len(line) ELSE Min(ext) - 1), Space))

\* The first CR LF of d from i on; 0 if there is none.
Crlf(d, i) ==
  LET at == {j \in i..(Len(d) - 1) : d[j] = CR /\ d[j + 1] = LF}
  IN  IF at = {} THEN 0 ELSE Min(at)

\* Chunk after chunk until one of size 0; trailers are ignored.
DecodeChunked_Lenient(d) ==
  LET from[i \in 1..(Len(d) + 1)] ==
        LET nl == Crlf(d, i)
            size == IF nl = 0 THEN <<>> ELSE ChunkSize(SubSeq(d, i, nl - 1))
            end == IF Len(d) - nl - 1 < size[1] THEN Len(d) + 1 ELSE nl + 2 + size[1]
        IN IF size = <<>> \/ size[1] = 0 THEN <<>>
           ELSE SubSeq(d, nl + 2, end - 1)
                \o from[IF Len(d) + 1 - end >= 2 THEN end + 2 ELSE end]
  IN  <<from[1]>>
DecodeChunked(d) ==
  LET from[i \in 1..(Len(d) + 1)] ==
        LET nl == Crlf(d, i)
            size == IF nl = 0 THEN <<>> ELSE ChunkSize(SubSeq(d, i, nl - 1))
            end == nl + 2 + size[1]
            rest == from[IF Len(d) + 1 - end >= 2 THEN end + 2 ELSE end]
        IN CASE size = <<>> -> <<>>
             [] size = <<0>> -> <<<<>>>>
             [] OTHER -> IF Len(d) - nl - 1 < size[1] \/ rest = <<>> THEN <<>>
                         ELSE <<SubSeq(d, nl + 2, end - 1) \o rest[1]>>
  IN  from[1]

\* What has arrived of a response: of the head all or not all, and octets of
\* the body.
ParseResponse(headArrived, status, headers, octets) ==
  LET body == IF Chunked(headers) THEN DecodeChunked(octets) ELSE <<octets>>
  IN  IF ~headArrived \/ status = NoStatus \/ body = <<>> THEN <<>>
      ELSE <<[status |-> status, headers |-> headers, body |-> body[1]]>>

-----------------------------------------------------------------------------
(* Readers *)

\* serde_json: how many elements, here of one octet, an array has.
JsonArray(n) ==
  <<91>> \o [i \in 1..(2 * n - 1) |-> IF i % 2 = 1 THEN 49 ELSE 44] \o <<93>>
JsonLen(text) ==
  LET n == {k \in 0..Len(text) : text = JsonArray(k)}
  IN  IF n = {} THEN <<>> ELSE <<[entries |-> Max(n)]>>

\* A body of nothing but space counts no entries.
CountEntries(body) ==
  IF Trim(body, AsciiSpace) = <<>> THEN <<[entries |-> 0]>> ELSE JsonLen(Trim(body, JsonSpace))

\* The last max-age counts, and a flag counts only without a value.
Flag(directives, name) ==
  \E i \in DOMAIN directives : directives[i].name = name /\ directives[i].value = <<>>
ParseHsts(header) ==
  IF header = <<>>
  THEN [present |-> FALSE, maxAge |-> <<>>, subdomains |-> FALSE, preload |-> FALSE]
  ELSE LET directives == header[1]
           ages == {i \in DOMAIN directives : /\ directives[i].name = "max-age"
                                             /\ directives[i].value # <<>>}
       IN  [present |-> TRUE,
            maxAge |-> IF ages = {} THEN <<>> ELSE directives[Max(ages)].value[1],
            subdomains |-> Flag(directives, "includesubdomains"),
            preload |-> Flag(directives, "preload")]
=============================================================================

# A TLA+ model of RuSSL

RuSSL is a command-line TLS scanner: `russl <host>` dials a server several
times, each time with a differently configured rustls client, and prints what it
saw. This directory models the scanner's control flow in TLA+, checks it with TLC
on small instances, and proves its main safety properties with TLAPS for every
value of the constants. Paths below are relative to `src/src/` unless they start
with `README`, `ROADMAP` or `learning/`.

What can go wrong in a scanner is not the state of a database but the *report*:
a claim about the server that nobody observed, a failure of the network that
reads as a property of the server, a section lost because an unrelated party did
not answer, a scan that never ends. The properties are about those.

## 1. Inventory

| Component | State it keeps | Operations | Interacts with | Hard behaviour |
|---|---|---|---|---|
| `main` (`main.rs`) | the parsed flags | build `ScanOpts`, print or exit 1 | calls `run_scan`, `output` | `--all` and five flags combine; only one error is fatal |
| orchestration (`scanner/mod.rs`) | `Target`, `ScanOpts`, the growing `ScanResult` | `run_scan`, `with_timeout` | calls every probe in order | which stage's error ends the scan; timer against answer; `--timeout 0` |
| certificate inspection (`scanner/cert.rs`) | `CertCapture` (chain and staple seen by the verifier), `CertInfo` | connect, handshake, parse, optional lookups | OCSP and CT modules, the target | three waits on three parties; advisory checks; truncating division at expiry |
| leaf classification (`scanner/cert.rs`) | none | `is_weak_key`, `classify_validation`, `oid_name` | used by inspection | thresholds and precedence of policy OIDs |
| OCSP (`scanner/ocsp.rs`) | none | `check`, `query`, response walk, URL split | HTTP client, DER | every failure is folded into a status string |
| CT (`scanner/ct.rs`) | none | `entry_count`, `count_entries` | HTTPS client to crt.sh | failure is absorbed into "no count" |
| protocol probing (`scanner/handshake.rs`) | list of `ProtocolResult` | one attempt per version | shares `attempt_handshake` with ciphers | sequential attempts, every failure recorded as "unsupported" |
| cipher enumeration (`scanner/ciphers.rs`) | semaphore of 5, six tasks, the joined results | spawn, acquire, attempt, join | tokio, `attempt_handshake` | concurrency, permits on every exit path, panics, joining order |
| vulnerability inference (`scanner/vulns.rs`) | none | `check_all` | reads the protocol results | reads versions another module must have produced |
| connection properties (`scanner/connection.rs`) | two `CertCapture`s, `RecordingStore` | three probes under `join!`, ticket pump, SNI comparison, HSTS, forward secrecy | resolver, target, protocol results | callbacks during a handshake, three concurrent timelines, several addresses |
| HTTP client (`scanner/http.rs`) | buffer | `request`, `parse_response`, `decode_chunked` | OCSP, CT, HSTS | a response that stops anywhere, chunk boundaries, a peer that does not close |
| DER (`scanner/der.rs`) | none | `tlv`, `integer`, `read_tlv`, `children` | OCSP | lengths that change form, length octets at the end of a buffer |
| reports (`output/pretty.rs`, `output/json.rs`) | none | `print` | prints `ScanResult` | wording of absent and negative results |
| errors (`error.rs`) | none | an enum | everything | none |

What makes each correct:

* **ciphers**: at most five handshakes at once; no exit path of a task loses a
  permit; a task waiting for a permit is not timed out; the report is in probe
  order, complete, and each entry is its own suite's verdict; it returns.
* **certificate inspection**: no third party can make it fail or can be quoted
  with something it did not say; a missing field means the check did not run; the
  expiry flag is right up to a stated lag; it returns.
* **connection**: what is reported was observed on a handshake that completed;
  a completed primary handshake is never discarded; compared leaves are real; no
  probe outlives the call; it returns.
* **protocols, vulnerabilities, forward secrecy, orchestration**: positive claims
  rest on a completed handshake; the sections printed are those asked for; a
  certificate once read is printed; the scan ends.
* **OCSP, CT and HSTS over HTTP**: whatever arrives of a response, what is
  reported is what the whole response means, or a failure; a whole response is
  understood however it is framed; the request names the leaf and goes where the
  certificate says; the exchange ends.
* **DER**: the children of a buffer tile it; reading undoes writing; the loop ends.
* **leaf classification**: a key is called weak and a level asserted on the
  leaf's own evidence only; every key the documents call weak is called so.
* **table**: a row that says "no" says it of the server, not of a failed probe.

## 2. Modules

| Module | Models |
|---|---|
| `CipherReport` | abstract: what `ciphers::enumerate` promises its caller |
| `CipherEnum` | `ciphers::enumerate`: tasks, semaphore, timers, panics, join loop |
| `CipherEnumProofs` | theorems about `CipherEnum` |
| `CertReport` | abstract: what `cert::inspect` promises |
| `CertInspect` | `cert::inspect` with `ocsp::check` and `ct::entry_count` |
| `CertInspectProofs` | theorems about `CertInspect` |
| `ConnectionReport` | abstract: what `connection::inspect` promises |
| `ConnectionInspect` | `connection::inspect`: three concurrent probes |
| `ConnectionInspectProofs` | theorems about `ConnectionInspect` |
| `ProtocolProbe` | `handshake::probe_protocols` |
| `Leaf` | `is_weak_key`, `classify_validation`, `oid_name`; used by `CertInspect` |
| `Der` | `scanner::der` as operators: encoder, `read_tlv`, `children` |
| `DerWalk` | the loop of `der::children`, turn by turn |
| `Recursion` | nothing: induction and recursive functions, for the proofs |
| `DerProofs`, `DerWalkProofs` | theorems about reading, and about the loop |
| `Ocsp` | `ocsp::build_request`, `parse_url`, `parse_status` |
| `HttpMessage` | `http::parse_response`, `decode_chunked`, `ct::count_entries`, `connection::parse_hsts` |
| `HttpExchange` | `http::request` under `with_timeout`, as OCSP, CT and HSTS use it |
| `HttpExchangeProofs` | theorems about `HttpExchange` |
| `PrettyReport` | `output::pretty`: sections, optional rows, verdict rows |
| `RussLScan` | a whole run: `main`, `run_scan`, `vulns::check_all`, `forward_secrecy`, the printed table |
| `RussLScanProofs` | theorems about `RussLScan` |
| `MCCipherEnum`, `MCCertInspect`, `MCConnectionInspect`, `MCRussLScan`, `MCDerWalk`, `MCHttpExchange` | the servers, peers and buffers TLC takes |

`RussLScan` composes: its certificate, cipher and connection stages are the
*abstract* reports, each of which the detailed module is checked to implement
(property `ImplementsReport`; the safety half is also proved), and its protocol stage is `ProtocolProbe` itself,
through `INSTANCE`. So the whole scan stays small while each stage is checked in
full detail once.

A scanned server is a record drawn from the constant set `Servers`, held in the
variable `server` which never changes. It says what the server *would* do; the
actions say what the network lets happen. Each field is read by the module that
needs it.

An operator named `X_y` standing just before `X` is a deliberately wrong `X`, a
bug that could plausibly be written at that place. Each checked property is
accompanied by one that it catches (listed in `PROJECT.json`).

### CipherEnum

| TLA+ | Code |
|---|---|
| `task[t]` | the spawned future of suite `t`: `queued` at `sem.acquire().await`, `connecting` and `handshaking` inside `with_timeout(attempt_handshake)`, then its `JoinHandle` is ready |
| `permits` | free permits of `Semaphore::new(5)` |
| `spawned`, `joined`, `results`, `pc` | the two loops of `enumerate` and the vector it builds |
| `Spawn`, `Join`, `Return` | `ciphers.rs:31-70`, `72-77`, `79` |
| `Acquire`, `Connected`, `Accepted`, `Failed`, `Expired`, `Panicked` | steps of a task; `Finish` ends it and drops `_permit` |

Suites are numbers: name and strength are functions of the position. Tokio's
semaphore is first come first served; the model lets any waiter go first, so what
holds here holds for that order too. A task that runs its last statement and its
`JoinHandle` becoming ready are one step. A panic may strike anywhere while the
permit is held.

### CertInspect

`pc` is the await point of the code: `dialing`, `handshaking` (inside one
`with_timeout`), `ocsp` (the synchronous preamble of `ocsp::query`), `asking`
(the POST), `ct` (the GET to crt.sh), `ok`, `err`. `info` is the `CertInfo` being
filled in. An HTTP exchange is one wait because the code puts the whole of it
under one timer; `HttpExchange` opens it up. What the leaf says of its key, its
policies and its owner goes through the operators of `Leaf`; a key's algorithm is
an OID there, and only what `oid_name` has a name for can be weak. `Quotient` is
Rust's truncating division. The status strings keep their distinctions
(`Statuses`), not their wording.

### ConnectionInspect

`phase[p]` is the await point of probe `p` and, once it is over, what it returns
to `join!`. `leaf` and `staple` are the fields of the `CertCapture`s, written by
the verifier callback *during* the handshake (`Presented`), before it is known to
complete. `tickets` is the `RecordingStore`, of the version the handshake negotiates, which is
1.3 whenever the server speaks it (`Negotiated`): a TLS 1.2 session is stored when a
1.2 handshake completes, a TLS 1.3 ticket whenever it arrives during the pump. What
a server issues (`issues`) is therefore not what is seen of it; a server that speaks
neither version completes no handshake.
`addr[p]` records which address a probe reached: `TcpStream::connect(host)` tries
all, `probe_no_sni` keeps only the first of its own lookup, in whatever order the
resolver lists them. When the host is an IP literal both probes present an IP
name, so both get the server's no-SNI certificate.

### Der and DerWalk

A buffer is a sequence of octets. How many values an octet has (`Base`, 256 in
the code) and how many length octets the reader accepts (`LenOctets`, 4) are
constants, so that small alphabets reach every case of `read_tlv`, in particular
the boundary between short and long lengths. `Readable(d)` is "`read_tlv(d)` is
`Some`"; `HeaderLen`, `TotalLen` and `Content` are the fields it then has.
`Children` gives the result of `children` as a function, for use in `Ocsp`;
`DerWalk` is the loop itself (`Take` is its body, `Stop` its end), and
`WalkIsChildren` ties the two together. `checked_add` never fails, because four
octets do not overflow a 64-bit `usize`.

### Ocsp, HttpMessage and HttpExchange

A peer says which part of the scanner asks it, over `http` or `https`, what it
would send if nothing went wrong, and what that means. `received` counts the
pieces that have arrived: `HeadUnits` of the head, then one per octet of the body.
`Closed` may happen at any count, because in the code nothing but the peer's close
ends `read_to_end`; `Failed` and `Expired` drop everything received. `Closed`
evaluates `parse_response` and the caller's reader on exactly what arrived.

The body is octets all the way: chunk sizes, JSON and OCSP responses are encoded
and decoded as they are on the wire (a CT record is one octet of JSON). The head
is data: a status and a list of headers whose values are lists of parts, since
splitting text at separators is not what could go wrong. A URL is a sequence of
its pieces for the same reason; where it is split is modelled.

### ProtocolProbe, PrettyReport and RussLScan

`stage` is the statement of `run_scan`. Only `CertificateStage` can end the run
with an error. `CheckAll` and `ForwardSecrecy` translate pure functions of the
results; `PrettyReport` has the branches of `pretty::print`. `Exchange` says what
rustls with the ring provider offers: every TLS 1.2 suite is ECDHE (external to
this repository).

## 3. Runs

Deadlock checking is on everywhere: each module has a `Terminated` step for the
state in which the code has returned, so any other state without a step would be
reported.

| Run | Question | Result |
|---|---|---|
| `CipherEnum_code` | 6 suites, 5 permits (the code's numbers), 3 servers: permits, bound, report, queueing, finality, return, implementation of `CipherReport` | holds |
| `CertInspect_inspect` | all properties of a certificate inspection, targets at every "second" from more than two days after to more than two days before expiry, every kind of key and policy | holds |
| `CertInspect_flags` | "Days remaining until expiry, expired flag" (README.md:101), "Flag keys below current minimums: RSA/DSA < 2048 bits" (cert.rs:217, learning/phase1.md:80) | violated, both in one trace |
| `ConnectionInspect_inspect` | all properties of the three probes, five kinds of host with up to two addresses and with TLS 1.2, 1.3, both or neither | holds |
| `ConnectionInspect_resolver` | "Timeouts on every network op" (learning/phase1.md:18-22) | violated |
| `ConnectionInspect_sni` | "the server returns a fallback/default virtual host", "the server refuses to complete a handshake without SNI" (learning/phase2.md:145-148) | violated |
| `DerWalk_children` | every buffer of up to four octets and every cut of every encoding of two values: tiling, inverse, end | holds |
| `HttpExchange_run` | OCSP, CT and HSTS exchanges stopped, failed or timed out at every octet: answers, cuts, framings, request, end | holds |
| `RussLScan_run` | a whole scan for all 64 command lines: sections and rows, positive claims, two negative ones, no lost certificate, end | holds |
| `RussLScan_denials` | "reports which versions the server accepts", "reports whether the server accepted it" (README.md:125-131), "flags servers that accept TLS 1.0" (README.md:141-142) | violated, all three in one trace |
| `RussLScan_ephemeral` | "never dressing an unreachable check up as a pass or fail" (learning/phase2.md:211-212) | violated |
| `RussLScan_resumption` | "Whether the server issues TLS 1.3 tickets or a resumable TLS 1.2 session" (README.md:157), "offered" (connection.rs:87) | violated |

The violated ones are places where the code does something other than a
document or comment says; `PROJECT.json` quotes the sentence and explains the
counterexample under "findings". In short:

1. *Expired for less than a day is "not expired"*: `days_remaining` truncates
   toward zero and `is_expired` tests it for being negative (`cert.rs:146,190`).
   The property that does hold, `ExpiryFlagLagsByLessThanADay`, bounds the lag.
2. *A failure reads as a refusal*: a timeout, a reset or an untrusted chain is
   recorded as "suite not accepted" (`ciphers.rs:62`), "version not supported"
   (`handshake.rs:45-49`) and "rejected without SNI" (`connection.rs:287-292`).
   The properties that do hold are one-sided: positive claims are real.
3. *TLS 1.0 and 1.1 are never attempted*, so they are never reported nor flagged
   (`handshake.rs:28-31`, `vulns.rs:28-36`).
4. *The lookup of the no-SNI probe has no timer* (`connection.rs:268`).
5. *The two leaves of the SNI comparison may come from two machines*
   (`connection.rs:343-369`). Together with 2 this is `ConnectionInspect_sni`,
   whose hosts treat a missing SNI like any other: one with an unreachable address
   (refused?), one whose backends have different certificates (fallback host?).
   TLC stops at the first counterexample; either kind of host gives one.
6. *With no negotiated version at all the table says "Non-ephemeral suite
   negotiated"* (`connection.rs:390-391`, `output/pretty.rs:82-85`).
7. *A short DSA key is not weak*: `oid_name` has no name for its OID
   (`cert.rs:253-272`), so the "DSA" that `is_weak_key` compares with
   (`cert.rs:223`) never occurs. The property that does hold,
   `LeafIsClassifiedByEvidence`, says that only a short key is weak and that every
   short RSA or EC key is.
8. *A ticket that was missed reads as "Not offered"*: the pump reads once, for
   three seconds at most (`connection.rs:235-253`), and TLS 1.2 sessions are not
   looked for where 1.3 is negotiated, but the table says "❌ Not offered" of
   whatever was not seen (`output/pretty.rs:121`). `NegativesAreObserved` is about
   the two other rows that say "no", which do say it of the server.

### Bounds, and why they are enough

Nothing in this program counts without limit, so every model is finite without
a cut-off; the bounds are the sizes of the sets.

* `SuiteCount`, `Permits`: the code's own 6 and 5. One suite always has to queue,
  which is where permits and the timer interact. The proofs cover all values.
* `TimeoutSecs` matters only for being zero or not. It is 10, the default, where
  something must end, and 0 in `ConnectionInspect_sni`, to show that the
  finding there does not depend on the timer: an unreachable address is enough.
* `Day = 4` "seconds" with `remaining` in -9..9: two full days on either side of
  expiry and every remainder within a day. The proof covers every `Day`.
* Two addresses, two certificates: one address that answers and one that does
  not, or two that differ, is what the SNI comparison can tell apart.
* `DerWalk_children` has octets of three bits and at most two length octets, so
  lengths from 4 on are long and those from 8 on need two octets. Contents of 0, 1,
  3, 4 and 8 octets stand on both sides of either boundary, as 127, 128 and 256 do
  in the code. `HttpExchange_run` has the code's own 256 and 4.
* `HeadUnits = 2`: nothing, part or all of the head has arrived; the code
  distinguishes no more. Bodies are as long as the protocols make them (an OCSP
  response is about 120 octets), because each octet is a place to stop.
* Two suites and one address in `RussLScan`: the stages interact through a few
  bits only, and the detailed modules check their stages with more.

No symmetry is declared: the state spaces are small and symmetric sets would not
be sound for the temporal properties.

### Fairness, and why the code justifies it

The network owes nothing: no answer, error or certificate ever has to arrive.
Liveness rests only on

* the tokio runtime polling a task that can go on (`Spawn`, `Join`, `Return`,
  `Acquire`, the code between two awaits);
* tokio firing a timer that is due (`Expired`, `PumpOver`, ...); this is where
  a nonzero `--timeout` is needed, because `with_timeout` with 0 awaits without
  limit (`mod.rs:37-51`);
* for `connection::inspect` only, the system resolver answering or giving up in
  the end (`ResolvingSpec`); `ConnectionInspect_resolver` shows that this
  assumption is needed;
* in `HttpExchange`, only the client's own timer: a peer may stay silent or keep the
  connection open after its response; in `DerWalk`, a sequential loop going on;
* in `RussLScan`, each one-shot stage happening, which is what the detailed
  modules' liveness properties establish.

Weak fairness is enough everywhere: an expired timer stays due until its wait is
over, and in `CipherEnum` every task that holds a permit gives it back, so each
queued task eventually finds one it can take (each task acquires only once).

## 4. Theorems

TLAPS proves the following for arbitrary constants, from the modules' assumptions
on them and nothing else. The full list is in `PROJECT.json`; every invariant and
every action property of the runs is stated by a theorem. Most assumptions only
type a constant. These say more:

* `DerAssumption`: a length has at most four octets, and their number fits the
  short form. `OcspAssumption`: an octet has 256 values.
* `WalkAssumption`: a buffer that is said to encode values is their encodings, or
  is these cut off somewhere, and their lengths can be told.
* `OcspPeersAssumption`: the URL in a leaf names an address, the serial number is
  not negative and the request not longer than any length octets tell.
* `CtPeersAssumption`: what a CT log sends and begins with `[` is an array of records.

TLC evaluates all of them on every run.

**Recursion** gives what the other modules need to prove what a recursive function
computes. The library states induction and recursion for an operator `P(_)`, which
the installed provers cannot instantiate; `Recursion` states them for sets and
functions instead and derives them from the well-foundedness of `<` on numbers
(`LeastNumber`, `SetInduction`). `RecursionTheorem`: a function defined by an
equation that calls itself once, on an argument of lower rank, satisfies the
equation, and whatever satisfies it is that function. `PrimitiveRecursion` is the
case of counting up.

**CipherEnumProofs** (`SuiteCount`, `Permits` any positive numbers, any servers).
The inductive invariant `IInv` conjoins typing, `PermitsConserved`,
`ReportMatchesTasks` and three strengthenings: `LoopsInStep` (the loop counters
agree with the control state and with which tasks exist and are over; without it
`Join` could run past the tasks), `AcceptedIsReal` (a task says "accepted" only of
a suite the server negotiates; needed for the refinement) and `ReportLength`. The
arithmetic of permits rests on two lemmas, `HoldersGrow` and `HoldersShrink`,
about the cardinality of the set of tasks holding one. From it: `Typing`,
`NoPermitLost`, `BoundedConcurrency` (at most `Permits` handshakes, since permits
are not negative), `ReportIsFaithful`, and the action properties `QueueingIsFree`
and `VerdictsNeverRevised`. `EnumerateImplementsReport` shows that initial
states and steps map to those of `CipherReport` under `PublishedReport`.

**ConnectionInspectProofs** (any addresses, certificates, servers). `IInv` says
per probe what it has established at each point of its path (`PrimaryInv`, which
ties the tickets to the negotiated version, `NoSniInv`, `HstsInv`) and that a
returned `inspect` has ended probes (`OuterInv`). These say nothing about each
other's variables, which is why three concurrent probes need no interference
argument; `ServerTyping` gives the host's own types. From it: `Typing`,
`ReportsOnlyWhatItSaw`, `ComparesRealLeaves`, `HandshakeIsNeverDiscarded`,
`NothingRunsOn`. `InspectImplementsReport` is the simulation of `ConnectionReport`:
`SniVerdictIsAllowed` finds the two leaves of a comparison among the host's pairs.

**CertInspectProofs** (any `Day > 0`, any servers). `QuotientSign` states what
truncating division tells about its dividend; `ExpiryFlagLag` follows from it.
`IInv` adds which optional fields are filled in at each await point (`Stages`) and
that a request is only outstanding if there is a responder to ask. From it:
`Typing`, `NothingFabricated`, `MissingMeansNotRun`, `AdvisoryChecksNeverFail`.
`ClassifiedByEvidence` splits on the algorithm and the size of the key, and needs that
a set of positions has a first element (`LeastOfNat`). `InspectImplementsReport` is
the simulation of `CertReport`, with `Reportable` as a further invariant: nothing is reported of a
name or a leaf that does not convert.

**DerProofs** (any `Base`, any `LenOctets` up to 4). `ReadableBounds` types what
`read_tlv` returns. `ReadingIsLocal`: of the first n octets of a buffer the value at
its front reads exactly if it lies within them, and is then the same value. It is
what makes a cut response safe. `ValueOfBigEndian` says that reading length octets
undoes writing them; with it `TlvReads` says the same of `tlv` and `read_tlv`.
`ChildrenUnfold` unfolds the recursion of `Children` at the front of a buffer, and
`ChildrenOfEncodings` follows: whatever is encoded, however many values of whatever
length, is what `children` finds.

**DerWalkProofs** (any buffer). `IInv` is typing and `ChildrenTile`: `Typing`,
`Tiling`, and `Advancing`, by which the loop's guard against an advance of 0 or out
of the buffer is dead code. `LoopIsChildren` needs one more invariant: the children
found so far, followed by those of the rest, are those of the buffer.
`ReadingUndoesWriting` combines it with `ChildrenOfEncodings`.

**HttpExchangeProofs** (any peers). `Typing`, and `CutStatus`, from `ReadingIsLocal`:
whatever octets an OCSP response has, cut off anywhere it gives no status, although
the status comes long before its end. `Request`: the six levels of the request are
found again by the walk down its encodings, and `UrlIsRead` reads the address back
out of the URL.

`PartsAnswerLikeTheWhole` is about every peer, well behaved or not. Its invariant
`AnswerInv` says that an answer is `Meaning(peer)`, what the reader makes of the
whole response, or the one exception (`NothingYet`: a CT lookup whose body has not
begun). The argument goes reader by reader: a decoding of a part of chunked data is
the decoding of all of it (`DecodingOfPart`: a size line, once complete, does not
change), a status read from a part is the status (`StatusOfPart`), a part of a JSON
array that is an array is all of it (`ArrayOfPart`), and the head decides the policy.

`WellSaid(p)` then says what it is for a peer to say what it means, in terms of the
wire and not of the reader: a body as it is or `InChunks` (any number of chunks, each
with hexadecimal digits for its size, space and an extension or not; any trailer);
in it an OCSP response with the mandatory and optional parts of RFC 6960 (`Parts`)
or a refusal, an array of records in space, no array, or nothing; a policy with its
directives in any order. `WellSaidIsUnderstood` proves that each of them reads as what
it says: `ChunkedBodyIsDecoded` by induction over the chunks, `SizeIsRead` for the
digits, `StatusIsFound` by the walk down nine levels of encodings, `ArrayIsCounted`,
`PolicyIsRead`. From it `Answers` (`AnswerIsThePeers`) and `WholeAnswers`
(`WholeAnswerIsUnderstood`), for all sets of peers that speak well; the peers of
`MCHttpExchange` are built in these forms. `StatusIsTheResponders` is the same for
OCSP alone, without a hypothesis on the other peers.

**RussLScanProofs** (any servers, suites and command lines). `IInv` says what each
stage has established (`CertInv`, `ProtoInv`, `CipherInv`, `VulnInv`, `ConnInv`) and
what an exit code implies (`ExitInv`); each part is established by its own stage and
left alone by the others. `NegativesAreSeen` is about the staple and the HSTS header;
of resumption only the violated `NotOfferedIsTrue` speaks. From it: `Typing`, `CertificateIsKept`,
`SectionsMatchRequest`, `NothingMadeUp`, `NegativesAreSeen`. Its only assumption
besides types is that `None` is no value of a field (`RunAssumption`).

Only model-checked: every liveness property (`EnumerationReturns`, `InspectReturns`,
`RunEnds`, `WalkEnds`, `ExchangeEnds`), which is out of the prover's reach, and hence
the liveness half of the three refinements (`ImplementsReport`). That the peers of
`MCHttpExchange` are well said is by construction and not proved, because `WellSaid`
quantifies over all contents; `WholeAnswerIsUnderstood` checks the same of them
directly. No module uses a `RECURSIVE` operator.

## 5. Not modelled, and why

* Clap's parsing, table layout, serialisation, wording of errors: no property is
  about them. The failing branch of `json::print` is left out, because a
  `ScanResult` always serialises.
* The text of an HTTP head: splitting lines and values, and comparing names
  without case, is taken as done; likewise the splitting of a URL into pieces. A
  chunk size is trimmed of ASCII white space only, and one that no `usize` holds
  fails in the model one step later, as larger than the data.
* TLS versions in the certificate inspection: a host that speaks none is one whose
  handshake fails.
* Hosts of a responder's URL that contain a colon (IPv6 literals), which
  `OcspPeersAssumption` excludes.
* The names of signature algorithms and the strength labels of suites, which are
  only displayed; `error.rs`, whose variants only choose a message; `json.rs`.
* Where x509-parser finds names, policies and the responder's URL in a
  certificate, SHA-1, and serde_json beyond the length of an array: external.
* What neither the code nor the model looks at: an OCSP response's signature,
  freshness and the certificate it is about. `ThirdPartyAnswersAreReal` therefore
  says "the responder gave this answer", not more.
* rustls, tokio and the resolver are external: modelled by what this code
  requires of them.
* Two errors that cannot happen where they would be raised: a host name that
  does not convert, after `cert::inspect` has converted it; a `Semaphore` that is
  closed.

## 6. Plan

Done, in the order of importance chosen: cipher enumeration, certificate
inspection, connection properties, the whole run; their abstract reports and the
three simulations; DER, OCSP, HTTP and HSTS with cut and late responses; leaf
classification; the printed table; the theorems of section 4.

Left:

1. Time: the duration of an enumeration is at most ⌈suites / permits⌉ timeouts, on
   a model with a clock; likewise three timeouts for a certificate inspection.
2. `attempt_handshake` dialling address by address under its one timer, as
   `TcpStream::connect` does, for protocols and ciphers (today one wait).
3. `ProtocolProbe` under a specification of its own, with the refinement of the
   protocol stage by an abstract report, as the other stages have.
4. The converse of `ExchangeEnds` for a client without a timeout, and the time
   bounds of 1 as invariants with proofs.

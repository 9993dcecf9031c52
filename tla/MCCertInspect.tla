--------------------------- MODULE MCCertInspect ---------------------------
(***************************************************************************)
(* Targets for checking CertInspect: an ordinary one at each interesting   *)
(* distance from its expiry, the ways a target makes a check give up, and  *)
(* keys and policies on either side of every distinction.                  *)
(***************************************************************************)
EXTENDS CertInspect

Ordinary == [validName |-> TRUE, chain |-> 2, leafParses |-> TRUE, issuerParses |-> TRUE,
             responder |-> "url", revocation |-> "Revoked", logged |-> 3, remaining |-> 3 * Day,
             key |-> [algorithm |-> "1.2.840.113549.1.1.1", bits |-> <<2048>>],
             policies |-> <<"2.23.140.1.2.1">>, org |-> FALSE]

\* Two days and more on either side of expiry, second by second.
MCAges == {[Ordinary EXCEPT !.remaining = r] : r \in (-2 * Day - 1)..(2 * Day + 1)}

MCOdd ==
  { [Ordinary EXCEPT !.validName = FALSE],
    [Ordinary EXCEPT !.leafParses = FALSE],
    [Ordinary EXCEPT !.chain = 1],
    [Ordinary EXCEPT !.issuerParses = FALSE],
    [Ordinary EXCEPT !.responder = "none"],
    [Ordinary EXCEPT !.responder = "badurl"],
    [Ordinary EXCEPT !.revocation = "Unknown", !.logged = 0],
    [Ordinary EXCEPT !.revocation = "Good", !.chain = 3] }

\* RSA, DSA, EC, Ed25519 and an algorithm nobody knows.
MCKeys ==
  {[Ordinary EXCEPT !.key.algorithm = a, !.key.bits = b] :
     a \in {"1.2.840.113549.1.1.1", "1.2.840.10040.4.1", "1.2.840.10045.2.1", "1.3.101.112", "1.2.3"},
     b \in {<<>>, <<0>>, <<255>>, <<256>>, <<2047>>, <<2048>>}}

\* Expired for less than a day, and with a DSA key shorter than the minimum.
MCLapsed == {[Ordinary EXCEPT !.remaining = 1 - Day,
                              !.key = [algorithm |-> "1.2.840.10040.4.1", bits |-> <<1024>>]]}

\* A CA's own policy before, between and after reserved ones.
MCPolicies ==
  {[Ordinary EXCEPT !.policies = p, !.org = o] :
     p \in UNION {[1..n -> {"1.3.6.1.4.1.1", "2.23.140.1.1", "2.23.140.1.2.2", "2.23.140.1.2.3"}] : n \in 0..2},
     o \in BOOLEAN}

MCServers == MCAges \cup MCOdd \cup MCKeys \cup MCPolicies
=============================================================================

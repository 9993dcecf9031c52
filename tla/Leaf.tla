-------------------------------- MODULE Leaf --------------------------------
(***************************************************************************)
(* How `scanner::cert` classifies a leaf: is its key weak, and to what     *)
(* level did the CA validate its owner?  A key is [algorithm, bits] with   *)
(* the algorithm's object identifier and a size of at most one element     *)
(* (the key need not parse); policies is the sequence of policy            *)
(* identifiers, org tells whether the subject names an organisation.  X_y  *)
(* is a deliberately wrong variant of X.                                   *)
(***************************************************************************)
EXTENDS Integers, Sequences

\* The public key algorithms that have a name; another keeps its identifier.
KeyNames == [o \in {"1.2.840.10045.2.1", "1.2.840.113549.1.1.1", "1.3.101.112", "1.3.101.110"} |->
  CASE o = "1.2.840.10045.2.1" -> "EC"
    [] o = "1.2.840.113549.1.1.1" -> "RSA"
    [] o = "1.3.101.112" -> "Ed25519"
    [] o = "1.3.101.110" -> "X25519"]
OidName(o) == IF o \in DOMAIN KeyNames THEN KeyNames[o] ELSE o

\* Minimal sizes, by name.
MinBits == [a \in {"RSA", "DSA", "EC"} |-> IF a = "EC" THEN 256 ELSE 2048]

\* A size that is not known is no reason for an alarm.
IsWeakKey_UnknownIsZero(a, bits) ==
  a \in DOMAIN MinBits /\ (IF bits = <<>> THEN 0 ELSE bits[1]) < MinBits[a]
IsWeakKey(a, bits) == bits # <<>> /\ a \in DOMAIN MinBits /\ bits[1] < MinBits[a]

\* The reserved policy identifiers of the CA/Browser Forum.
PolicyLevels == [p \in {"2.23.140.1.1", "2.23.140.1.2.1", "2.23.140.1.2.2", "2.23.140.1.2.3"} |->
  CASE p = "2.23.140.1.1" -> "EV"
    [] p = "2.23.140.1.2.1" -> "DV"
    [] p = "2.23.140.1.2.2" -> "OV"
    [] p = "2.23.140.1.2.3" -> "IV"]
Asserted == {"EV", "DV", "OV", "IV"}
Inferred == {"OV (inferred)", "DV (inferred)"}

\* Which of the policies are reserved ones, and which of those is first.
Reserved(policies) == {i \in DOMAIN policies : policies[i] \in DOMAIN PolicyLevels}
First(I) == CHOOSE i \in I : \A j \in I : i <= j

ClassifyValidation_OnlyFirst(policies, org) ==
  IF 1 \in Reserved(policies) THEN PolicyLevels[policies[1]]
  ELSE IF org THEN "OV (inferred)" ELSE "DV (inferred)"
ClassifyValidation(policies, org) ==
  IF Reserved(policies) # {} THEN PolicyLevels[policies[First(Reserved(policies))]]
  ELSE IF org THEN "OV (inferred)" ELSE "DV (inferred)"
=============================================================================

------------------------ MODULE MCConnectionInspect ------------------------
(***************************************************************************)
(* Hosts with two addresses for checking ConnectionInspect.                *)
(***************************************************************************)
EXTENDS ConnectionInspect

CONSTANTS a1, a2, site, fallback

Host(up, withSni, without, ip, staples, versions, issues, trusted, http) ==
  [up |-> up, sni |-> withSni, bare |-> without, ip |-> ip, staples |-> staples,
   versions |-> versions, issues |-> issues, trusted |-> trusted, http |-> http]

Both == {"TLS 1.2", "TLS 1.3"}

Everywhere(c) == [a \in {a1, a2} |-> c]

\* One certificate, everything offered on either version; a default virtual
\* host that resumes on TLS 1.2 only, which it does not get to negotiate; a host
\* of TLS 1.2 that insists on SNI, one of its addresses unreachable; an IP
\* target under an untrusted chain; a host without a version in common.
MCServers ==
  { Host({a1, a2}, Everywhere(site), Everywhere(site), FALSE, TRUE, Both, {"tls12", "tls13"}, TRUE, "header"),
    Host({a1, a2}, Everywhere(site), Everywhere(fallback), FALSE, FALSE, Both, {"tls12"}, TRUE, "noheader"),
    Host({a1}, Everywhere(site), Everywhere(Refuse), FALSE, TRUE, {"TLS 1.1", "TLS 1.2"}, {"tls12", "tls13"},
         TRUE, "nothttp"),
    Host({a1, a2}, Everywhere(site), Everywhere(site), TRUE, FALSE, Both, {}, FALSE, "header"),
    Host({a1}, Everywhere(site), Everywhere(site), FALSE, TRUE, {"TLS 1.0"}, {"tls12"}, TRUE, "header") }

\* Two backends whose certificates differ from each other, never with SNI.
MCRenewing ==
  LET own == [a \in {a1, a2} |-> IF a = a1 THEN site ELSE fallback] IN
  { Host({a1, a2}, own, own, FALSE, FALSE, Both, {}, TRUE, "header") }

\* A host that never refuses, one of its two addresses unreachable.
MCDualStack ==
  { Host({a1}, Everywhere(site), Everywhere(site), FALSE, FALSE, Both, {}, TRUE, "header") }

\* Hosts that treat a client without SNI like any other.
MCIndifferent == MCRenewing \cup MCDualStack
=============================================================================

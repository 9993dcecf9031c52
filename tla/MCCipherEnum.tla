---------------------------- MODULE MCCipherEnum ----------------------------
(***************************************************************************)
(* Small sets of servers for checking CipherEnum: one that speaks every    *)
(* probed suite, one that speaks some of them, one that speaks every suite *)
(* under a chain the native roots do not verify.                           *)
(***************************************************************************)
EXTENDS CipherEnum

MCServers ==
  { [suites |-> Suites, trusted |-> TRUE],
    [suites |-> {t \in Suites : t % 2 = 1}, trusted |-> TRUE],
    [suites |-> Suites, trusted |-> FALSE] }
=============================================================================

----------------------------- MODULE CipherEnum -----------------------------
(***************************************************************************)
(* `scanner::ciphers::enumerate`: one tokio task per probed cipher suite,  *)
(* at most Permits of them on the network at a time, joined in the order   *)
(* they were spawned.                                                      *)
(*                                                                         *)
(* A task waits for a permit of a shared semaphore, then runs              *)
(* `handshake::attempt_handshake`, whose connect and TLS handshake race    *)
(* the timer of `scanner::with_timeout`.  The permit is a local of the     *)
(* task, so it returns to the semaphore however the task ends: a completed *)
(* handshake, an error, an expired timer or a panic.                       *)
(*                                                                         *)
(* A suite is its position in PROBE_SUITES; its name and strength label    *)
(* are functions of that position and are left out.  The network is free   *)
(* to answer, to fail or to stay silent.  A definition named X_y, standing *)
(* just before X, is a deliberately wrong X that some property must catch. *)
(***************************************************************************)
EXTENDS Integers, Sequences, FiniteSets

CONSTANTS
  SuiteCount,   \* length of PROBE_SUITES (6 in the code)
  Permits,      \* size of the semaphore (5 in the code)
  TimeoutSecs,  \* --timeout; 0 disables the limit
  Servers       \* the servers that may be scanned: [suites, trusted, ...]

Suites == 1..SuiteCount

ASSUME CipherEnumAssumption ==
  /\ SuiteCount \in Nat \ {0}
  /\ Permits \in Nat \ {0}
  /\ TimeoutSecs \in Nat

VARIABLES
  server,    \* the scanned server, fixed for the run
  pc,        \* enumerate itself: spawning, joining or returned
  spawned,   \* number of handles pushed
  joined,    \* number of handles awaited
  results,   \* the vector enumerate returns
  task,      \* each suite's task
  permits    \* free permits of the semaphore

vars == <<server, pc, spawned, joined, results, task, permits>>

Active   == {"connecting", "handshaking"}           \* tasks holding a permit
Finished == {"accepted", "rejected", "panicked"}    \* JoinHandle is ready
Holders  == {t \in Suites : task[t] \in Active}

\* One entry of the report: the CipherResult the task of suite t returned.
Entry(t) == [suite |-> t, accepted |-> task[t] = "accepted"]

-----------------------------------------------------------------------------
Init ==
  /\ server \in Servers
  /\ pc = "spawn"
  /\ spawned = 0
  /\ joined = 0
  /\ results = <<>>
  /\ task = [t \in Suites |-> "unspawned"]
  /\ permits = Permits

\* The for loop over PROBE_SUITES: tokio::spawn, handle pushed.
Spawn ==
  /\ pc = "spawn"
  /\ spawned < SuiteCount
  /\ spawned' = spawned + 1
  /\ task' = [task EXCEPT ![spawned + 1] = "queued"]
  /\ pc' = IF spawned + 1 = SuiteCount THEN "join" ELSE "spawn"
  /\ UNCHANGED <<server, joined, results, permits>>

\* sem.acquire().await resolves; the task goes on to build its ClientConfig
\* and to dial.  tokio serves waiters first come first served; any order is
\* allowed here.
Acquire_NoWait(t) ==
  /\ task[t] = "queued"
  /\ permits' = permits - 1
  /\ task' = [task EXCEPT ![t] = "connecting"]
  /\ UNCHANGED <<server, pc, spawned, joined, results>>
Acquire(t) ==
  /\ task[t] = "queued"
  /\ permits > 0
  /\ permits' = permits - 1
  /\ task' = [task EXCEPT ![t] = "connecting"]
  /\ UNCHANGED <<server, pc, spawned, joined, results>>

\* The task ends with verdict v and drops its permit.
Finish_LeakOnPanic(t, v) ==
  /\ task' = [task EXCEPT ![t] = v]
  /\ permits' = IF v = "panicked" THEN permits ELSE permits + 1
  /\ UNCHANGED <<server, pc, spawned, joined, results>>
Finish(t, v) ==
  /\ task' = [task EXCEPT ![t] = v]
  /\ permits' = permits + 1
  /\ UNCHANGED <<server, pc, spawned, joined, results>>

\* The TCP connection is up; the TLS handshake starts.  (The host name was
\* already converted once, by cert::inspect, or the scan would have stopped.)
Connected(t) ==
  /\ task[t] = "connecting"
  /\ task' = [task EXCEPT ![t] = "handshaking"]
  /\ UNCHANGED <<server, pc, spawned, joined, results, permits>>

\* The handshake completes: the server took the only suite offered and its
\* chain verified against the native roots.
Accepted_Unverified(t) ==
  /\ task[t] = "handshaking"
  /\ t \in server.suites
  /\ Finish(t, "accepted")
Accepted(t) ==
  /\ task[t] = "handshaking"
  /\ t \in server.suites
  /\ server.trusted
  /\ Finish(t, "accepted")

\* An awaited operation returns an error: refused, reset, TLS alert,
\* untrusted chain.
Failed(t) == task[t] \in Active /\ Finish(t, "rejected")

\* with_timeout's timer wins the race; the handshake future is dropped.
Expired_InQueue(t) ==
  /\ TimeoutSecs # 0
  /\ \/ task[t] \in Active /\ Finish(t, "rejected")
     \/ /\ task[t] = "queued"
        /\ task' = [task EXCEPT ![t] = "rejected"]
        /\ UNCHANGED <<server, pc, spawned, joined, results, permits>>
Expired_ConnectOnly(t) ==
  /\ TimeoutSecs # 0
  /\ task[t] = "connecting"
  /\ Finish(t, "rejected")
Expired_AfterAnswer(t) ==
  /\ TimeoutSecs # 0
  /\ task[t] \in Active \cup {"accepted"}
  /\ Finish(t, "rejected")
Expired(t) ==
  /\ TimeoutSecs # 0
  /\ task[t] \in Active
  /\ Finish(t, "rejected")

\* The task unwinds; tokio turns the panic into a JoinError.
Panicked(t) == task[t] \in Active /\ Finish(t, "panicked")

\* `for h in handles`: await the next handle, keep what it returned, skip a
\* JoinError.
Join_RenumberedEntry ==
  /\ pc = "join"
  /\ joined < SuiteCount
  /\ task[joined + 1] \in Finished
  /\ joined' = joined + 1
  /\ results' = IF task[joined + 1] = "panicked" THEN results
                ELSE Append(results, [Entry(joined + 1) EXCEPT !.suite = Len(results) + 1])
  /\ UNCHANGED <<server, pc, spawned, task, permits>>
Join ==
  /\ pc = "join"
  /\ joined < SuiteCount
  /\ task[joined + 1] \in Finished
  /\ joined' = joined + 1
  /\ results' = IF task[joined + 1] = "panicked" THEN results
                ELSE Append(results, Entry(joined + 1))
  /\ UNCHANGED <<server, pc, spawned, task, permits>>

\* Every handle has been awaited: the vector is returned.
Return ==
  /\ pc = "join"
  /\ joined = SuiteCount
  /\ pc' = "returned"
  /\ UNCHANGED <<server, spawned, joined, results, task, permits>>

\* enumerate has returned; nothing is left to do.
Terminated == pc = "returned" /\ UNCHANGED vars

TaskStep(t) ==
  \/ Acquire(t)
  \/ Connected(t)
  \/ Accepted(t)
  \/ Failed(t)
  \/ Expired(t)
  \/ Panicked(t)

Next ==
  \/ Spawn
  \/ Join
  \/ Return
  \/ \E t \in Suites : TaskStep(t)
  \/ Terminated

Spec == Init /\ [][Next]_vars

(***************************************************************************)
(* The runtime keeps polling enumerate and every task that can make        *)
(* progress, and tokio fires a timer that is due.  Nothing is assumed of   *)
(* the network: Connected, Accepted and Failed may never happen.           *)
(***************************************************************************)
Fairness ==
  /\ WF_vars(Spawn) /\ WF_vars(Join) /\ WF_vars(Return)
  /\ \A t \in Suites : WF_vars(Acquire(t)) /\ WF_vars(Expired(t))

FairSpec == Spec /\ Fairness

-----------------------------------------------------------------------------
(***************************************************************************)
(* Properties                                                              *)
(***************************************************************************)

\* Type invariant of the enumeration's state (ciphers.rs:27-79).
TypeOK ==
  /\ server \in Servers
  /\ pc \in {"spawn", "join", "returned"}
  /\ spawned \in 0..SuiteCount
  /\ joined \in 0..SuiteCount
  /\ results \in Seq([suite : Suites, accepted : BOOLEAN])
  /\ task \in [Suites -> {"unspawned", "queued"} \cup Active \cup Finished]
  /\ permits \in 0..Permits

\* Never more than Permits suites are on the network at once, whatever the
\* order in which tasks dial, fail, expire and panic (Semaphore::new(5),
\* ciphers.rs:28,37).
AtMostPermitsOnNetwork == Cardinality(Holders) <= Permits

\* No exit path of a task loses or duplicates a permit: free permits and
\* permits held by live tasks always add up (the guard `_permit`,
\* ciphers.rs:37).
PermitsConserved == permits + Cardinality(Holders) = Permits

\* The report is in PROBE_SUITES order, has exactly one entry for each joined
\* suite whose task did not panic, and that entry carries that suite's own
\* verdict, in whatever order the tasks finished; enumerate does not return
\* before every suite is accounted for (ciphers.rs:72-78).
ReportMatchesTasks ==
  /\ \A k \in 1..Len(results) :
       results[k].suite \in 1..joined /\ results[k] = Entry(results[k].suite)
  /\ \A j, k \in 1..Len(results) : j < k => results[j].suite < results[k].suite
  /\ \A t \in 1..joined :
       task[t] # "panicked" <=> \E k \in 1..Len(results) : results[k].suite = t
  /\ pc = "returned" => joined = SuiteCount

\* Waiting for a permit costs nothing: the timer starts after the permit is
\* held, so a queued task only ever moves on to dial and never gets a verdict
\* it was not given a connection for (ciphers.rs:37 before ciphers.rs:56).
NoVerdictWithoutDialling ==
  [][\A t \in Suites : task[t] \in {"unspawned", "queued"} => task'[t] \notin Finished]_vars

\* A finished task keeps its verdict, and the report only grows: what was
\* joined is never revised (ciphers.rs:72-77).
VerdictsAreFinal ==
  [][/\ \A t \in Suites : task[t] \in Finished => task'[t] = task[t]
     /\ \A k \in 1..Len(results) : k <= Len(results') /\ results'[k] = results[k]]_vars

\* With a nonzero --timeout the enumeration returns even if the server never
\* answers anything (mod.rs:40-51, ROADMAP.md:15).
EnumerationReturns == <>(pc = "returned")

\* What a caller sees of the enumeration: nothing until it returns, then the
\* verdict of each suite.
PublishedReport ==
  LET verdicts(t) == {k \in 1..Len(results) : results[k].suite = t} IN
  IF pc # "returned" THEN <<>>
  ELSE [t \in Suites |->
         IF verdicts(t) = {} THEN "missing"
         ELSE IF \E k \in verdicts(t) : results[k].accepted THEN "accepted"
         ELSE "rejected"]

Report == INSTANCE CipherReport WITH report <- PublishedReport

\* The concurrent enumeration implements the one-shot truthful report of
\* CipherReport, and eventually publishes it (ciphers.rs:27-79).
ImplementsReport == Report!Spec
=============================================================================

-------------------------- MODULE CipherEnumProofs --------------------------
(***************************************************************************)
(* Proofs about CipherEnum, for any number of suites, any number of        *)
(* permits and any set of servers: typing, the bound on concurrent         *)
(* handshakes, the conservation of permits, the shape of the report, and   *)
(* the safety half of the implementation of CipherReport.                  *)
(***************************************************************************)
EXTENDS CipherEnum, FiniteSetTheorems, TLAPS

\* The loop counters agree with the control state and with the tasks: a
\* suite's task exists once its handle is pushed, and a joined task is over.
LoopsInStep ==
  /\ pc = "spawn" => joined = 0 /\ spawned < SuiteCount
  /\ \A t \in Suites : task[t] = "unspawned" <=> t > spawned
  /\ \A t \in 1..joined : task[t] \in Finished

\* A task only ends "accepted" if the handshake really succeeded.
AcceptedIsReal ==
  \A t \in Suites : task[t] = "accepted" => server.trusted /\ t \in server.suites

\* No more entries than joined handles.
ReportLength == Len(results) <= joined

IInv ==
  /\ TypeOK
  /\ PermitsConserved
  /\ ReportMatchesTasks
  /\ LoopsInStep
  /\ AcceptedIsReal
  /\ ReportLength

-----------------------------------------------------------------------------
(***************************************************************************)
(* Facts about the set of permit holders                                   *)
(***************************************************************************)

\* The permit holders are finitely many.
LEMMA HoldersFinite == IsFiniteSet(Holders) /\ Cardinality(Holders) \in Nat
<1>1. IsFiniteSet(Suites)
  BY CipherEnumAssumption, FS_Interval DEF Suites
<1>2. Holders \in SUBSET Suites
  BY DEF Holders
<1>3. IsFiniteSet(Holders)
  BY <1>1, <1>2, FS_Subset
<1> QED BY <1>3, FS_CardinalityType

\* A task that starts to dial takes one permit (ciphers.rs:37).
LEMMA HoldersGrow ==
  ASSUME TypeOK, NEW t \in Suites, task[t] \notin Active,
         NEW v \in Active, task' = [task EXCEPT ![t] = v]
  PROVE  Cardinality(Holders') = Cardinality(Holders) + 1
<1>1. Holders' = Holders \cup {t} /\ t \notin Holders
  BY DEF Holders, TypeOK
<1> QED BY <1>1, HoldersFinite, FS_AddElement

\* A task that ends gives its permit back, however it ends.
LEMMA HoldersShrink ==
  ASSUME TypeOK, NEW t \in Suites, task[t] \in Active,
         NEW v, v \notin Active, task' = [task EXCEPT ![t] = v]
  PROVE  Cardinality(Holders') = Cardinality(Holders) - 1
<1>1. Holders' = Holders \ {t} /\ t \in Holders
  BY DEF Holders, TypeOK
<1> QED BY <1>1, HoldersFinite, FS_RemoveElement

-----------------------------------------------------------------------------
(***************************************************************************)
(* The invariant is inductive, one lemma per group of actions              *)
(***************************************************************************)

\* The report stays right as long as joined tasks keep their verdicts.
LEMMA ReportStable ==
  ASSUME IInv, UNCHANGED <<joined, results>>,
         \A t \in 1..joined : task'[t] = task[t],
         pc' = "returned" => joined = SuiteCount
  PROVE  ReportMatchesTasks' /\ ReportLength'
  BY DEF IInv, ReportMatchesTasks, ReportLength, Entry

\* The inductive invariant holds initially.
LEMMA InitIInv == Init => IInv
<1> SUFFICES ASSUME Init PROVE IInv
  OBVIOUS
<1>1. TypeOK
  BY CipherEnumAssumption DEF Init, TypeOK
<1>2. Holders = {}
  BY DEF Init, Holders, Active
<1>3. PermitsConserved
  BY <1>2, FS_EmptySet, CipherEnumAssumption DEF Init, PermitsConserved
<1>4. ReportMatchesTasks /\ ReportLength
  BY DEF Init, ReportMatchesTasks, ReportLength
<1>5. LoopsInStep /\ AcceptedIsReal
  BY CipherEnumAssumption DEF Init, LoopsInStep, AcceptedIsReal, Suites
<1> QED BY <1>1, <1>3, <1>4, <1>5 DEF IInv

\* A handle is pushed and its task queued.
LEMMA SpawnIInv ==
  ASSUME IInv, Spawn
  PROVE  IInv'
<1> USE CipherEnumAssumption
<1>1. TypeOK'
  BY DEF IInv, TypeOK, Spawn, Suites
<1>2. Holders' = Holders
  <2>1. task[spawned + 1] \notin Active
    BY DEF IInv, TypeOK, LoopsInStep, Spawn, Suites, Active
  <2> QED BY <2>1 DEF IInv, TypeOK, Holders, Spawn, Active
<1>3. PermitsConserved'
  BY <1>2 DEF IInv, PermitsConserved, Spawn
<1>4. ReportMatchesTasks' /\ ReportLength'
  BY ReportStable DEF IInv, TypeOK, LoopsInStep, Spawn, Suites
<1>5. LoopsInStep'
  BY DEF IInv, TypeOK, LoopsInStep, Spawn, Suites
<1>6. AcceptedIsReal'
  BY DEF IInv, TypeOK, AcceptedIsReal, Spawn, Suites
<1> QED BY <1>1, <1>3, <1>4, <1>5, <1>6 DEF IInv

\* A queued task takes a permit; there was one to take.
LEMMA AcquireIInv ==
  ASSUME IInv, NEW t \in Suites, Acquire(t)
  PROVE  IInv'
<1> USE CipherEnumAssumption
<1>1. TypeOK'
  BY DEF IInv, TypeOK, Acquire, Suites, Active
<1>2. Cardinality(Holders') = Cardinality(Holders) + 1
  BY HoldersGrow DEF IInv, Acquire, Active
<1>3. PermitsConserved'
  BY <1>2, HoldersFinite DEF IInv, TypeOK, PermitsConserved, Acquire
<1>4. t \notin 1..joined
  BY DEF IInv, LoopsInStep, Acquire, Finished
<1>5. ReportMatchesTasks' /\ ReportLength'
  BY <1>4, ReportStable DEF IInv, TypeOK, ReportMatchesTasks, Acquire, Suites
<1>6. LoopsInStep'
  BY <1>4 DEF IInv, TypeOK, LoopsInStep, Acquire, Suites
<1>7. AcceptedIsReal'
  BY DEF IInv, TypeOK, AcceptedIsReal, Acquire
<1> QED BY <1>1, <1>3, <1>5, <1>6, <1>7 DEF IInv

\* A task or probe moves on from its connection to its handshake.
LEMMA ConnectedIInv ==
  ASSUME IInv, NEW t \in Suites, Connected(t)
  PROVE  IInv'
<1> USE CipherEnumAssumption
<1>1. TypeOK'
  BY DEF IInv, TypeOK, Connected, Suites, Active
<1>2. Holders' = Holders
  BY DEF IInv, TypeOK, Holders, Connected, Active
<1>3. PermitsConserved'
  BY <1>2 DEF IInv, PermitsConserved, Connected
<1>4. t \notin 1..joined
  BY DEF IInv, LoopsInStep, Connected, Finished
<1>5. ReportMatchesTasks' /\ ReportLength'
  BY <1>4, ReportStable DEF IInv, TypeOK, ReportMatchesTasks, Connected, Suites
<1>6. LoopsInStep'
  BY <1>4 DEF IInv, TypeOK, LoopsInStep, Connected, Suites
<1>7. AcceptedIsReal'
  BY DEF IInv, TypeOK, AcceptedIsReal, Connected
<1> QED BY <1>1, <1>3, <1>5, <1>6, <1>7 DEF IInv

\* Every way a task ends: success, error, timer, panic.
LEMMA FinishIInv ==
  ASSUME IInv, NEW t \in Suites, NEW v \in Finished, task[t] \in Active,
         v = "accepted" => server.trusted /\ t \in server.suites,
         Finish(t, v)
  PROVE  IInv'
<1> USE CipherEnumAssumption
<1>0. v \notin Active
  BY DEF Active, Finished
<1>1. Cardinality(Holders') = Cardinality(Holders) - 1
  BY <1>0, HoldersShrink DEF IInv, Finish
<1>2. t \in Holders
  BY DEF Holders
<1>3. Cardinality(Holders) # 0
  BY <1>2, HoldersFinite, FS_EmptySet
<1>4. PermitsConserved'
  BY <1>1, HoldersFinite DEF IInv, TypeOK, PermitsConserved, Finish
<1>5. TypeOK'
  <2>1. permits + 1 \in 0..Permits
    BY <1>3, HoldersFinite DEF IInv, TypeOK, PermitsConserved
  <2> QED BY <2>1 DEF IInv, TypeOK, Finish, Suites
<1>6. t \notin 1..joined
  BY DEF IInv, LoopsInStep, Active, Finished
<1>7. ReportMatchesTasks' /\ ReportLength'
  BY <1>6, ReportStable DEF IInv, TypeOK, ReportMatchesTasks, Finish, Suites
<1>8. LoopsInStep'
  BY <1>6 DEF IInv, TypeOK, LoopsInStep, Finish, Suites, Active, Finished
<1>9. AcceptedIsReal'
  BY DEF IInv, TypeOK, AcceptedIsReal, Finish
<1> QED BY <1>4, <1>5, <1>7, <1>8, <1>9 DEF IInv

\* The next handle is awaited and what its task returned is appended.
LEMMA JoinIInv ==
  ASSUME IInv, Join
  PROVE  IInv'
<1> USE CipherEnumAssumption
<1> DEFINE next == joined + 1
<1>0. next \in Suites /\ joined \in Nat /\ 1..next = (1..joined) \cup {next}
  BY DEF IInv, TypeOK, Join, Suites
<1>1. Holders' = Holders
  BY DEF Holders, Join
<1>2. PermitsConserved'
  BY <1>1 DEF IInv, PermitsConserved, Join
<1>3. LoopsInStep'
  BY <1>0 DEF IInv, TypeOK, LoopsInStep, Join
<1>4. AcceptedIsReal'
  BY DEF IInv, AcceptedIsReal, Join
<1>5. CASE task[next] = "panicked"
  <2>1. UNCHANGED results /\ joined' = next /\ UNCHANGED <<server, pc, spawned, task, permits>>
    BY <1>5 DEF Join
  <2>2. TypeOK'
    BY <2>1, <1>0 DEF IInv, TypeOK, Suites
  <2>3. ReportMatchesTasks' /\ ReportLength'
    <3>1. \A k \in 1..Len(results) :
            results[k].suite \in 1..next /\ results[k].suite # next
            /\ results[k] = Entry(results[k].suite)
      BY <1>0 DEF IInv, ReportMatchesTasks
    <3>2. \A t \in 1..next :
            task[t] # "panicked" <=> \E k \in 1..Len(results) : results[k].suite = t
      BY <3>1, <1>0, <1>5 DEF IInv, ReportMatchesTasks
    <3>3. pc # "returned" /\ Len(results) <= next
      BY <1>0 DEF IInv, TypeOK, ReportLength, Join
    <3> HIDE DEF next
    <3> QED BY <2>1, <3>1, <3>2, <3>3 DEF IInv, ReportMatchesTasks, ReportLength, Entry
  <2> QED BY <1>2, <1>3, <1>4, <2>2, <2>3 DEF IInv
<1>6. CASE task[next] # "panicked"
  <2> DEFINE n == Len(results)
  <2>1. results' = Append(results, Entry(next)) /\ joined' = next
        /\ UNCHANGED <<server, pc, spawned, task, permits>>
    BY <1>6 DEF Join
  <2>2. Entry(next) \in [suite : Suites, accepted : BOOLEAN] /\ Entry(next).suite = next
    BY <1>0 DEF Entry
  <2>3. results' \in Seq([suite : Suites, accepted : BOOLEAN])
    BY <2>1, <2>2 DEF IInv, TypeOK
  <2>4. TypeOK'
    BY <2>1, <2>3, <1>0 DEF IInv, TypeOK, Suites
  <2>5. n \in Nat /\ Len(results') = n + 1 /\ results'[n + 1] = Entry(next)
        /\ \A k \in 1..n : results'[k] = results[k]
    BY <2>1, <2>2 DEF IInv, TypeOK
  <2>6. ReportLength'
    BY <2>1, <2>5, <1>0 DEF IInv, ReportLength
  <2>7. 1..(n + 1) = (1..n) \cup {n + 1}
    BY <2>5
  <2> HIDE DEF n
  <2>9. \A k \in 1..n :
          results[k].suite \in 1..joined /\ results[k] = Entry(results[k].suite)
    BY DEF IInv, ReportMatchesTasks, n
  <2>10. \A k \in 1..Len(results') :
           results'[k].suite \in 1..joined' /\ results'[k] = Entry(results'[k].suite)
    BY <2>1, <2>2, <2>5, <2>7, <2>9, <1>0
  <2>11. \A j, k \in 1..Len(results') : j < k => results'[j].suite < results'[k].suite
    <3> SUFFICES ASSUME NEW j \in 1..(n + 1), NEW k \in 1..(n + 1), j < k
                 PROVE  results'[j].suite < results'[k].suite
      BY <2>5
    <3>1. CASE k = n + 1
      BY <3>1, <2>2, <2>5, <2>7, <2>9, <1>0
    <3>2. CASE k # n + 1
      BY <3>2, <2>5, <2>7 DEF IInv, ReportMatchesTasks, n
    <3> QED BY <3>1, <3>2
  <2>12. \A t \in 1..joined' :
           task'[t] # "panicked" <=> \E k \in 1..Len(results') : results'[k].suite = t
    <3> SUFFICES ASSUME NEW t \in 1..next
                 PROVE  task[t] # "panicked" <=> \E k \in 1..(n + 1) : results'[k].suite = t
      BY <2>1, <2>5
    <3>1. CASE t = next
      BY <3>1, <1>6, <2>2, <2>5, <2>7
    <3>2. CASE t \in 1..joined
      <4>1. t # next
        BY <3>2, <1>0
      <4>2. task[t] # "panicked" <=> \E k \in 1..n : results[k].suite = t
        BY <3>2 DEF IInv, ReportMatchesTasks, n
      <4> QED BY <4>1, <4>2, <2>2, <2>5, <2>7
    <3> QED BY <3>1, <3>2, <1>0
  <2>13. ReportMatchesTasks'
    <3>1. pc' # "returned"
      BY <2>1 DEF Join
    <3> QED BY <2>1, <2>10, <2>11, <2>12, <3>1 DEF ReportMatchesTasks, Entry
  <2> QED BY <1>2, <1>3, <1>4, <2>4, <2>6, <2>13 DEF IInv
<1> QED BY <1>5, <1>6

\* The call returns; nothing it had collected changes.
LEMMA ReturnIInv ==
  ASSUME IInv, Return
  PROVE  IInv'
<1>1. Holders' = Holders
  BY DEF Holders, Return
<1>2. PermitsConserved'
  BY <1>1 DEF IInv, PermitsConserved, Return
<1>3. ReportMatchesTasks' /\ ReportLength'
  BY ReportStable DEF Return
<1>4. TypeOK' /\ LoopsInStep' /\ AcceptedIsReal'
  BY DEF IInv, TypeOK, LoopsInStep, AcceptedIsReal, Return
<1> QED BY <1>2, <1>3, <1>4 DEF IInv

\* So does a step that changes nothing.
LEMMA StutterIInv ==
  ASSUME IInv, UNCHANGED vars
  PROVE  IInv'
<1>1. Holders' = Holders
  BY DEF Holders, vars
<1>2. PermitsConserved'
  BY <1>1 DEF IInv, PermitsConserved, vars
<1>3. ReportMatchesTasks' /\ ReportLength'
  BY DEF IInv, ReportMatchesTasks, ReportLength, Entry, vars
<1>4. TypeOK' /\ LoopsInStep' /\ AcceptedIsReal'
  BY DEF IInv, TypeOK, LoopsInStep, AcceptedIsReal, vars
<1> QED BY <1>2, <1>3, <1>4 DEF IInv

\* Every step of a task preserves the inductive invariant.
LEMMA TaskStepIInv ==
  ASSUME IInv, NEW t \in Suites, TaskStep(t)
  PROVE  IInv'
<1>1. CASE Acquire(t)
  BY <1>1, AcquireIInv
<1>2. CASE Connected(t)
  BY <1>2, ConnectedIInv
<1>3. CASE Accepted(t)
  BY <1>3, FinishIInv DEF Accepted, Active, Finished
<1>4. CASE Failed(t)
  BY <1>4, FinishIInv DEF Failed, Finished
<1>5. CASE Expired(t)
  BY <1>5, FinishIInv DEF Expired, Finished
<1>6. CASE Panicked(t)
  BY <1>6, FinishIInv DEF Panicked, Finished
<1> QED BY <1>1, <1>2, <1>3, <1>4, <1>5, <1>6 DEF TaskStep

\* Every step of Next, or a stutter, preserves the inductive invariant.
LEMMA NextIInv == IInv /\ [Next]_vars => IInv'
<1> SUFFICES ASSUME IInv, [Next]_vars PROVE IInv'
  OBVIOUS
<1>1. CASE Spawn
  BY <1>1, SpawnIInv
<1>2. CASE Join
  BY <1>2, JoinIInv
<1>3. CASE Return
  BY <1>3, ReturnIInv
<1>4. CASE \E t \in Suites : TaskStep(t)
  BY <1>4, TaskStepIInv
<1>5. CASE Terminated
  BY <1>5, StutterIInv DEF Terminated
<1>6. CASE UNCHANGED vars
  BY <1>6, StutterIInv
<1> QED BY <1>1, <1>2, <1>3, <1>4, <1>5, <1>6 DEF Next

\* Every reachable state satisfies the inductive invariant.
THEOREM Invariance == Spec => []IInv
BY InitIInv, NextIInv, PTL DEF Spec

-----------------------------------------------------------------------------
(***************************************************************************)
(* The properties                                                          *)
(***************************************************************************)

\* The enumeration's state is well typed for every choice of the constants
\* (ciphers.rs:27-79).
THEOREM Typing == Spec => []TypeOK
<1>1. IInv => TypeOK
  BY DEF IInv
<1> QED BY <1>1, Invariance, PTL

\* However many suites there are and however tasks end, the permits held and
\* the free permits add up to the semaphore's size (ciphers.rs:28,37).
THEOREM NoPermitLost == Spec => []PermitsConserved
<1>1. IInv => PermitsConserved
  BY DEF IInv
<1> QED BY <1>1, Invariance, PTL

\* No schedule ever puts more than Permits handshakes on the network
\* (ciphers.rs:28,37).
THEOREM BoundedConcurrency == Spec => []AtMostPermitsOnNetwork
<1>1. IInv => AtMostPermitsOnNetwork
  BY HoldersFinite, CipherEnumAssumption
  DEF IInv, TypeOK, PermitsConserved, AtMostPermitsOnNetwork
<1> QED BY <1>1, Invariance, PTL

\* The report is complete, ordered and carries each suite's own verdict
\* (ciphers.rs:72-78).
THEOREM ReportIsFaithful == Spec => []ReportMatchesTasks
<1>1. IInv => ReportMatchesTasks
  BY DEF IInv
<1> QED BY <1>1, Invariance, PTL

\* A queued suite is only ever dialled, never given up (ciphers.rs:37,56).
THEOREM QueueingIsFree == Spec => NoVerdictWithoutDialling
<1> DEFINE A == \A t \in Suites : task[t] \in {"unspawned", "queued"} => task'[t] \notin Finished
<1>1. ASSUME IInv, [Next]_vars PROVE [A]_vars
  <2> SUFFICES ASSUME NEW u \in Suites, task[u] \in {"unspawned", "queued"},
                      task'[u] # task[u]
               PROVE  task'[u] \notin Finished
    BY DEF Finished
  <2>1. CASE Spawn
    BY <2>1, <1>1 DEF IInv, TypeOK, Spawn, Finished, Suites
  <2>2. CASE Join \/ Return \/ Terminated \/ UNCHANGED vars
    BY <2>2 DEF Join, Return, Terminated, vars
  <2>3. ASSUME NEW t \in Suites, TaskStep(t) PROVE task'[u] \notin Finished
    BY <2>3, <1>1
    DEF IInv, TypeOK, TaskStep, Acquire, Connected, Accepted, Failed, Expired, Panicked,
        Finish, Active, Finished
  <2> QED BY <1>1, <2>1, <2>2, <2>3 DEF Next
<1> QED BY <1>1, Invariance, PTL DEF Spec, NoVerdictWithoutDialling

\* A verdict, once reached, is never revised, in its task or in the report
\* (ciphers.rs:72-77).
THEOREM VerdictsNeverRevised == Spec => VerdictsAreFinal
<1> DEFINE A == /\ \A t \in Suites : task[t] \in Finished => task'[t] = task[t]
                /\ \A k \in 1..Len(results) : k <= Len(results') /\ results'[k] = results[k]
<1>1. ASSUME IInv, [Next]_vars PROVE A
  <2>1. CASE Spawn
    BY <2>1, <1>1 DEF IInv, TypeOK, LoopsInStep, Spawn, Finished, Suites
  <2>2. CASE Join
    <3>0. joined + 1 \in Suites
      BY <2>2, <1>1, CipherEnumAssumption DEF IInv, TypeOK, Join, Suites
    <3>1. Entry(joined + 1) \in [suite : Suites, accepted : BOOLEAN]
      BY <3>0 DEF Entry
    <3>2. results' = results \/ results' = Append(results, Entry(joined + 1))
      BY <2>2 DEF Join
    <3>3. results \in Seq([suite : Suites, accepted : BOOLEAN])
      BY <1>1 DEF IInv, TypeOK
    <3> HIDE DEF Entry
    <3>4. \A k \in 1..Len(results) : k <= Len(results') /\ results'[k] = results[k]
      BY <3>1, <3>2, <3>3
    <3> QED BY <2>2, <3>4 DEF Join
  <2>3. CASE Return \/ Terminated \/ UNCHANGED vars
    BY <2>3, <1>1 DEF IInv, TypeOK, Return, Terminated, vars
  <2>4. ASSUME NEW t \in Suites, TaskStep(t) PROVE A
    BY <2>4, <1>1
    DEF IInv, TypeOK, TaskStep, Acquire, Connected, Accepted, Failed, Expired, Panicked,
        Finish, Active, Finished
  <2> QED BY <1>1, <2>1, <2>2, <2>3, <2>4 DEF Next
<1> QED BY <1>1, Invariance, PTL DEF Spec, VerdictsAreFinal

-----------------------------------------------------------------------------
(***************************************************************************)
(* CipherEnum implements CipherReport (safety)                             *)
(***************************************************************************)

\* What enumerate publishes is a truthful report of the scanned server.
LEMMA PublishedIsTruthful ==
  IInv /\ pc = "returned" => PublishedReport \in Report!Truthful(server)
<1> SUFFICES ASSUME IInv, pc = "returned"
             PROVE  PublishedReport \in Report!Truthful(server)
  OBVIOUS
<1> DEFINE verdicts(t) == {k \in 1..Len(results) : results[k].suite = t}
           verdict(t) == IF verdicts(t) = {} THEN "missing"
                         ELSE IF \E k \in verdicts(t) : results[k].accepted THEN "accepted"
                         ELSE "rejected"
<1>1. PublishedReport = [t \in Suites |-> verdict(t)]
  BY DEF PublishedReport
<1>2. \A t \in Suites : verdict(t) \in Report!Verdicts
  BY DEF Report!Verdicts
<1>3. ASSUME NEW t \in Suites, verdict(t) = "accepted"
      PROVE  Report!Negotiates(server, t)
  <2>1. PICK k \in 1..Len(results) : results[k].suite = t /\ results[k].accepted
    BY <1>3
  <2>2. results[k] = Entry(t)
    BY <2>1 DEF IInv, ReportMatchesTasks
  <2>3. Entry(t).accepted = (task[t] = "accepted")
    BY DEF Entry
  <2>4. task[t] = "accepted"
    BY <2>1, <2>2, <2>3
  <2> QED BY <2>4 DEF IInv, AcceptedIsReal, Report!Negotiates
<1> HIDE DEF verdict
<1> QED BY <1>1, <1>2, <1>3 DEF Report!Truthful

\* Every behaviour of the concurrent enumeration is, to its caller, one
\* truthful report published at once (ciphers.rs:27-79).
THEOREM EnumerateImplementsReport ==
  Spec => Report!Init /\ [][Report!Publish]_(Report!reportVars)
<1>1. Init => Report!Init
  BY DEF Init, Report!Init, Report!NoReport, PublishedReport
<1>0. (IInv /\ pc = "returned" => PublishedReport \in Report!Truthful(server))'
  BY PublishedIsTruthful, PTL
<1>2. ASSUME IInv, IInv', [Next]_vars PROVE [Report!Publish]_(Report!reportVars)
  <2>1. UNCHANGED server
    BY <1>2 DEF Next, Spawn, Join, Return, Terminated, TaskStep, Acquire, Connected, Accepted,
                Failed, Expired, Panicked, Finish, vars
  <2>2. CASE Return
    <3>1. PublishedReport = Report!NoReport
      BY <2>2 DEF Return, PublishedReport, Report!NoReport
    <3>2. PublishedReport' \in Report!Truthful(server)'
      BY <1>0, <1>2, <2>2 DEF Return
    <3>3. PublishedReport' \in Report!Truthful(server)
      BY <2>1, <3>2 DEF Report!Truthful, Report!Negotiates
    <3> QED BY <2>1, <3>1, <3>3 DEF Report!Publish
  <2>3. CASE ~Return
    <3>1. \/ UNCHANGED <<pc, results>>
          \/ pc # "returned" /\ pc' # "returned"
      BY <1>2, <2>3 DEF Next, Spawn, Join, Terminated, TaskStep, Acquire, Connected, Accepted,
                Failed, Expired, Panicked, Finish, vars
    <3>2. UNCHANGED PublishedReport
      BY <3>1 DEF PublishedReport
    <3> QED BY <2>1, <3>2 DEF Report!reportVars
  <2> QED BY <2>2, <2>3
<1> QED BY <1>1, <1>2, Invariance, PTL DEF Spec
=============================================================================

----------------------- MODULE OperatingMode_proofs ------------------------
(***************************************************************************)
(* Proofs about OperatingMode, for any number of nodes, workloads, clients *)
(* and faults. SnapshotWhileFrozen and RecoveryKeepsSnapshot need one fact *)
(* more than types: a supervisor that has started to probe etcd did so     *)
(* because the mode was not normal, and only the supervisor itself (or a   *)
(* restart, which resets it) can make it normal again.                     *)
(***************************************************************************)
EXTENDS OperatingMode, TLAPS

\* Most leaves are first-order: Zenon is tried unless a leaf names another prover.
USE Zenon

\* While the supervisor is past its reading of the mode and has not switched
\* yet, the control plane stays frozen.
ProbingMeansFrozen ==
    sup \in Probes \cup {"toNormal", "toRecovery"} => mode # "normal"

\* Every plan of the code is a sequence of operations on known keys.
LEMMA PlansAreOps == AllPlans \subseteq Seq(Ops)
<1>1. \A n \in NodeIDs : NodeKey(n) \in Keys
  BY DEF Keys
<1>2. \A w \in WorkloadIDs : SpecKey(w) \in Keys /\ StatusKey(w) \in Keys /\ AssignmentKey(w) \in Keys
  BY DEF Keys
<1>4. \A n \in NodeIDs : {NodeKey(n)} \in SUBSET Keys
  BY <1>1
<1>5. \A w \in WorkloadIDs :
         /\ {SpecKey(w)} \in SUBSET Keys /\ {StatusKey(w)} \in SUBSET Keys
         /\ {AssignmentKey(w)} \in SUBSET Keys /\ {SpecKey(w), AssignmentKey(w)} \in SUBSET Keys
  BY <1>2
<1>6. /\ {NodeKey(n) : n \in NodeIDs} \in SUBSET Keys
      /\ {SpecKey(w) : w \in WorkloadIDs} \in SUBSET Keys
      /\ {} \in SUBSET Keys
  BY <1>1, <1>2
<1>7. /\ \A a \in Ops : <<a>> \in Seq(Ops)
      /\ \A a, b \in Ops : <<a, b>> \in Seq(Ops)
      /\ \A a, b, c \in Ops : <<a, b, c>> \in Seq(Ops)
      /\ \A a, b, c, d \in Ops : <<a, b, c, d>> \in Seq(Ops)
  BY SMT
<1>8. ASSUME NEW n \in NodeIDs
      PROVE  RegisterNodePlan(n) \in Seq(Ops) /\ DeleteNodePlan(n) \in Seq(Ops)
             /\ GetNodeByIDPlan(n) \in Seq(Ops)
  <2>1. /\ Op("put", {NodeKey(n)}, TRUE) \in Ops /\ Op("cache", {NodeKey(n)}, TRUE) \in Ops
        /\ Op("delete", {NodeKey(n)}, TRUE) \in Ops /\ Op("find", {NodeKey(n)}, TRUE) \in Ops
    BY <1>4 DEF Op, Ops
  <2>. QED
    BY <2>1, <1>7 DEF RegisterNodePlan, DeleteNodePlan, GetNodeByIDPlan
<1>9. ASSUME NEW w \in WorkloadIDs
      PROVE  /\ saveWorkloadPlan(w) \in Seq(Ops) /\ writeAssignmentPlan(w) \in Seq(Ops)
             /\ DeleteWorkloadPlan(w) \in Seq(Ops) /\ GetWorkloadByIDPlan(w) \in Seq(Ops)
  <2>1. /\ Op("put", {SpecKey(w)}, TRUE) \in Ops /\ Op("put", {StatusKey(w)}, TRUE) \in Ops
        /\ Op("cache", {SpecKey(w)}, TRUE) \in Ops /\ Op("put", {}, FALSE) \in Ops
        /\ Op("put", {AssignmentKey(w)}, TRUE) \in Ops /\ Op("cache", {AssignmentKey(w)}, TRUE) \in Ops
        /\ Op("delete", {SpecKey(w)}, TRUE) \in Ops /\ Op("delete", {StatusKey(w)}, FALSE) \in Ops
        /\ Op("delete", {AssignmentKey(w)}, FALSE) \in Ops
        /\ Op("uncache", {SpecKey(w), AssignmentKey(w)}, TRUE) \in Ops
        /\ Op("find", {SpecKey(w)}, TRUE) \in Ops /\ Op("peek", {}, FALSE) \in Ops
    BY <1>5, <1>6 DEF Op, Ops
  <2>. QED
    BY <2>1, <1>7 DEF saveWorkloadPlan, writeAssignmentPlan, DeleteWorkloadPlan, GetWorkloadByIDPlan
<1>10. GetNodesPlan \in Seq(Ops) /\ GetWorkloadsPlan \in Seq(Ops)
  <2>. DEFINE nodes == {NodeKey(n) : n \in NodeIDs}
              specs == {SpecKey(w) : w \in WorkloadIDs}
  <2>1. nodes \in SUBSET Keys /\ specs \in SUBSET Keys
    BY <1>6
  <2>. HIDE DEF nodes, specs
  <2>2. /\ Op("list", nodes, TRUE) \in Ops /\ Op("fill", nodes, TRUE) \in Ops
        /\ Op("list", specs, TRUE) \in Ops /\ Op("fill", specs, TRUE) \in Ops
        /\ Op("serve", specs, TRUE) \in Ops /\ Op("peek", {}, FALSE) \in Ops
    BY <2>1, <1>6 DEF Op, Ops
  <2>3. <<Op("list", nodes, TRUE), Op("fill", nodes, TRUE)>> \in Seq(Ops)
    BY <2>2, <1>7
  <2>4. <<Op("list", specs, TRUE), Op("peek", {}, FALSE),
          Op("serve", specs, TRUE), Op("fill", specs, TRUE)>> \in Seq(Ops)
    BY <2>2, <1>7
  <2>. QED
    BY <2>3, <2>4 DEF GetNodesPlan, GetWorkloadsPlan, nodes, specs
<1>. QED
  BY <1>8, <1>9, <1>10 DEF AllPlans

\* Moving a client to a plan keeps the types of the client variables.
LEMMA ContinueType ==
    ASSUME TypeOK, NEW c \in Clients, NEW p \in Seq(Ops), Continue(c, p)
    PROVE  /\ plan' \in [Clients -> Seq(Ops)]
           /\ phase' \in [Clients -> {"gate", "try", "fail"}]
           /\ tries' \in [Clients -> 0..MaxRetries]
<1>1. 0 \in 0..MaxRetries
  BY MaxRetriesAssumption, SMT
<1>2. FirstPhase(p) \in {"gate", "try", "fail"}
  BY DEF FirstPhase
<1>. QED
  BY <1>1, <1>2 DEF Continue, TypeOK

\* The operation a running handler is at, and what remains after it.
LEMMA CurrentType ==
    ASSUME TypeOK, NEW c \in Clients, ~Idle(c)
    PROVE  Current(c) \in Ops /\ Tail(plan[c]) \in Seq(Ops)
BY SMT DEF TypeOK, Idle, Current

\* After a failed operation the client variables keep their types.
LEMMA AfterFailureType ==
    ASSUME TypeOK, NEW c \in Clients, ~Idle(c), AfterFailure(c)
    PROVE  /\ plan' \in [Clients -> Seq(Ops)]
           /\ phase' \in [Clients -> {"gate", "try", "fail"}]
           /\ tries' \in [Clients -> 0..MaxRetries]
<1>1. (IF Current(c).must THEN <<>> ELSE Tail(plan[c])) \in Seq(Ops)
  BY CurrentType, SMT
<1>. QED
  BY <1>1, ContinueType DEF AfterFailure

\* Counting a failed attempt keeps the types of tries and phase.
LEMMA CountFailureType ==
    ASSUME TypeOK, NEW c \in Clients, CountFailure(c)
    PROVE  phase' \in [Clients -> {"gate", "try", "fail"}] /\ tries' \in [Clients -> 0..MaxRetries]
<1>1. CASE tries[c] < MaxRetries
  <2>1. tries[c] + 1 \in 0..MaxRetries
    BY <1>1, MaxRetriesAssumption, SMT DEF TypeOK
  <2>. QED
    BY <1>1, <2>1 DEF CountFailure, TypeOK
<1>2. CASE ~(tries[c] < MaxRetries)
  BY <1>2 DEF CountFailure, TypeOK
<1>. QED
  BY <1>1, <1>2

\* A put or a delete leaves known keys in etcd.
LEMMA StoreAfterType ==
    ASSUME TypeOK, NEW op \in Ops
    PROVE  StoreAfter(op) \subseteq Keys
BY DEF StoreAfter, TypeOK, Ops

\* Every step keeps the types.
LEMMA TypeStep == TypeOK /\ [Next]_vars => TypeOK'
<1>. SUFFICES ASSUME TypeOK, [Next]_vars PROVE TypeOK'
  OBVIOUS
<1>1. ASSUME NEW c \in Clients, StartHandler(c) PROVE TypeOK'
  <2>1. PICK p \in Handlers[c] : Continue(c, p)
    BY <1>1 DEF StartHandler
  <2>2. p \in Seq(Ops)
    BY <2>1, PlansAreOps, HandlersAssumption
  <2>. QED
    BY <1>1, <2>1, <2>2, ContinueType DEF StartHandler, TypeOK
<1>2. ASSUME NEW c \in Clients, requireWritable(c) PROVE TypeOK'
  <2>1. CASE isWritable
    BY <1>2, <2>1 DEF requireWritable, TypeOK
  <2>2. CASE ~isWritable
    BY <1>2, <2>2, AfterFailureType DEF requireWritable, TypeOK
  <2>. QED
    BY <2>1, <2>2
<1>3. ASSUME NEW c \in Clients, AttemptAnswered(c) PROVE TypeOK'
  <2>. DEFINE p == IF Current(c).do = "find" /\ Current(c).keys \cap etcd = {}
                   THEN IF OfKind(Current(c).keys, "spec") # {}
                        THEN <<Op("peek", {}, FALSE)>> ELSE <<>>
                   ELSE Tail(plan[c])
  <2>1. Op("peek", {}, FALSE) \in Ops
    BY DEF Op, Ops
  <2>2. Current(c) \in Ops /\ Tail(plan[c]) \in Seq(Ops)
    BY <1>3, CurrentType DEF AttemptAnswered
  <2>3. p \in Seq(Ops)
    <3>1. \A a \in Ops : <<a>> \in Seq(Ops)
      BY SMT
    <3>2. p \in {<<Op("peek", {}, FALSE)>>, <<>>, Tail(plan[c])}
      OBVIOUS
    <3>3. <<Op("peek", {}, FALSE)>> \in Seq(Ops)
      BY <2>1, <3>1
    <3>4. <<>> \in Seq(Ops)
      BY SMT
    <3>. HIDE DEF p
    <3>. QED
      BY <2>2, <3>2, <3>3, <3>4
  <2>4. Continue(c, p)
    BY <1>3 DEF AttemptAnswered
  <2>5. etcd' \subseteq Keys
    BY <1>3, <2>2, StoreAfterType DEF AttemptAnswered
  <2>6. seen' \in [Clients -> SUBSET Keys]
    BY <1>3, <2>2 DEF AttemptAnswered, TypeOK
  <2>. HIDE DEF p
  <2>. QED
    BY <1>3, <2>3, <2>4, <2>5, <2>6, ContinueType DEF AttemptAnswered, TypeOK
<1>4. ASSUME NEW c \in Clients, AttemptRefused(c) PROVE TypeOK'
  BY <1>4, CountFailureType DEF AttemptRefused, TypeOK
<1>5. ASSUME NEW c \in Clients, AttemptTimedOut(c) PROVE TypeOK'
  <2>1. Current(c) \in Ops
    BY <1>5, CurrentType DEF AttemptTimedOut
  <2>2. etcd' \subseteq Keys
    BY <1>5, <2>1, StoreAfterType DEF AttemptTimedOut
  <2>3. faults' \in 0..MaxFaults
    BY <1>5, MaxFaultsAssumption, SMT DEF AttemptTimedOut, TypeOK
  <2>. QED
    BY <1>5, <2>2, <2>3, CountFailureType DEF AttemptTimedOut, TypeOK
<1>6. ASSUME NEW c \in Clients, GiveUp(c) PROVE TypeOK'
  BY <1>6, AfterFailureType DEF GiveUp, enterDegraded, TypeOK, Modes
<1>7. ASSUME NEW c \in Clients, ServeFrozenCache(c) PROVE TypeOK'
  <2>1. (IF ~isWritable /\ seen[c] = {} THEN <<>> ELSE Tail(plan[c])) \in Seq(Ops)
    BY <1>7, CurrentType, SMT DEF ServeFrozenCache
  <2>. QED
    BY <1>7, <2>1, ContinueType DEF ServeFrozenCache, TypeOK
<1>8. ASSUME NEW c \in Clients, UpdateCache(c) PROVE TypeOK'
  <2>1. Current(c) \in Ops /\ Tail(plan[c]) \in Seq(Ops)
    BY <1>8, CurrentType DEF UpdateCache
  <2>2. cache' \subseteq Keys
    BY <1>8, <2>1 DEF UpdateCache, TypeOK, Ops
  <2>. QED
    BY <1>8, <2>1, <2>2, ContinueType DEF UpdateCache, TypeOK
<1>9. CASE Supervisor
  <2>1. CASE switchMode
    <3>1. mode' \in Modes
      BY <2>1 DEF switchMode, enterDegraded, enterNormal, enterRecovery, TypeOK, Modes
    <3>4. frozen' \in {frozen, cache, NoSnapshot}
      BY <2>1 DEF switchMode, enterDegraded, enterNormal, enterRecovery
    <3>5. frozen' \in (SUBSET Keys) \cup {NoSnapshot}
      BY <3>4 DEF TypeOK
    <3>2. sup' \in SupStates
      BY <2>1 DEF switchMode, SupStates
    <3>3. UNCHANGED <<up, etcd, backup, cache, plan, phase, tries, seen, faults>>
      BY <2>1 DEF switchMode, clientVars
    <3>. QED
      BY <3>1, <3>2, <3>3, <3>5 DEF TypeOK
  <2>2. CASE pingEtcd \/ checkMode \/ etcdHasState
    BY <2>2, SMT DEF pingEtcd, checkMode, etcdHasState, AfterEmptyProbe, clientVars, TypeOK, SupStates, Probes
  <2>. QED
    BY <1>9, <2>1, <2>2 DEF Supervisor
<1>10. CASE EtcdDown \/ EtcdUp \/ EtcdWipe \/ OperatorRestore
  <2>1. faults' \in 0..MaxFaults
    BY <1>10, MaxFaultsAssumption, SMT DEF EtcdDown, EtcdUp, EtcdWipe, OperatorRestore, TypeOK
  <2>2. up' \in BOOLEAN /\ etcd' \subseteq Keys /\ backup' \subseteq Keys
    BY <1>10 DEF EtcdDown, EtcdUp, EtcdWipe, OperatorRestore, TypeOK
  <2>3. UNCHANGED <<mode, frozen, cache, sup, clientVars>>
    BY <1>10 DEF EtcdDown, EtcdUp, EtcdWipe, OperatorRestore
  <2>. QED
    BY <2>1, <2>2, <2>3 DEF clientVars, TypeOK
<1>11. CASE NewScheduler
  <2>1. faults' \in 0..MaxFaults /\ 0 \in 0..MaxRetries
    BY <1>11, MaxFaultsAssumption, MaxRetriesAssumption, SMT DEF NewScheduler, TypeOK
  <2>2. plan' \in [Clients -> Seq(Ops)] /\ seen' \in [Clients -> SUBSET Keys]
    BY <1>11, SMT DEF NewScheduler
  <2>3. phase' \in [Clients -> {"gate", "try", "fail"}] /\ tries' \in [Clients -> 0..MaxRetries]
    BY <1>11, <2>1 DEF NewScheduler
  <2>4. mode' \in Modes /\ sup' \in SupStates
    BY <1>11 DEF NewScheduler, Modes, SupStates
  <2>6. frozen' \in (SUBSET Keys) \cup {NoSnapshot} /\ cache' \subseteq Keys
    BY <1>11 DEF NewScheduler
  <2>5. UNCHANGED <<up, etcd, backup>>
    BY <1>11 DEF NewScheduler
  <2>. QED
    BY <2>1, <2>2, <2>3, <2>4, <2>5, <2>6 DEF TypeOK
<1>12. CASE UNCHANGED vars
  BY <1>12 DEF vars, TypeOK
<1>. QED
  BY <1>1, <1>2, <1>3, <1>4, <1>5, <1>6, <1>7, <1>8, <1>9, <1>10, <1>11, <1>12 DEF Next, HandlerStep

----------------------------------------------------------------------------
\* Every variable keeps its type in every reachable state.
THEOREM TypeCorrect == Spec => []TypeOK
<1>1. Init => TypeOK
  <2>. SUFFICES ASSUME Init PROVE TypeOK
    OBVIOUS
  <2>1. 0 \in 0..MaxFaults /\ 0 \in 0..MaxRetries
    BY MaxFaultsAssumption, MaxRetriesAssumption, SMT
  <2>2. plan \in [Clients -> Seq(Ops)] /\ seen \in [Clients -> SUBSET Keys]
    BY SMT DEF Init
  <2>3. phase \in [Clients -> {"gate", "try", "fail"}] /\ tries \in [Clients -> 0..MaxRetries]
    BY <2>1 DEF Init
  <2>4. mode \in Modes /\ sup \in SupStates
    BY DEF Init, Modes, SupStates
  <2>6. frozen \in (SUBSET Keys) \cup {NoSnapshot} /\ cache \subseteq Keys
    BY DEF Init
  <2>5. up \in BOOLEAN /\ etcd \subseteq Keys /\ backup \subseteq Keys /\ faults \in 0..MaxFaults
    BY <2>1 DEF Init
  <2>. QED
    BY <2>2, <2>3, <2>4, <2>5, <2>6 DEF TypeOK
<1>. QED
  BY <1>1, TypeStep, PTL DEF Spec

\* One step from a state that satisfies the types, the snapshot invariant and
\* its strengthening keeps the two, and can only enter recovery from a frozen
\* mode with the snapshot in place.
LEMMA FrozenStep ==
    ASSUME TypeOK, SnapshotWhileFrozen, ProbingMeansFrozen, [Next]_vars
    PROVE  /\ SnapshotWhileFrozen' /\ ProbingMeansFrozen'
           /\ mode' = "recovery" => mode # "normal" /\ frozen' = frozen
<1>. DEFINE Goal == /\ SnapshotWhileFrozen' /\ ProbingMeansFrozen'
                    /\ mode' = "recovery" => mode # "normal" /\ frozen' = frozen
<1>1. cache # NoSnapshot
  BY SnapshotAssumption DEF TypeOK
<1>2. CASE UNCHANGED <<mode, frozen, sup>>
  BY <1>2 DEF SnapshotWhileFrozen, ProbingMeansFrozen
<1>3. ASSUME NEW c \in Clients, GiveUp(c) PROVE Goal
  BY <1>1, <1>3 DEF GiveUp, enterDegraded, SnapshotWhileFrozen, ProbingMeansFrozen
<1>4. CASE pingEtcd \/ checkMode
  BY <1>4 DEF pingEtcd, checkMode, SnapshotWhileFrozen, ProbingMeansFrozen, Probes
<1>5. CASE etcdHasState
  BY <1>5 DEF etcdHasState, SnapshotWhileFrozen, ProbingMeansFrozen
<1>6. CASE switchMode
  BY <1>1, <1>6 DEF switchMode, enterDegraded, enterNormal, enterRecovery,
     SnapshotWhileFrozen, ProbingMeansFrozen, Probes
<1>7. CASE NewScheduler
  BY <1>7 DEF NewScheduler, SnapshotWhileFrozen, ProbingMeansFrozen, Probes
<1>8. ASSUME NEW c \in Clients,
             \/ StartHandler(c) \/ requireWritable(c) \/ AttemptAnswered(c) \/ AttemptRefused(c)
             \/ ServeFrozenCache(c) \/ UpdateCache(c) \/ AttemptTimedOut(c)
      PROVE UNCHANGED <<mode, frozen, sup>>
  BY <1>8 DEF StartHandler, requireWritable, AttemptAnswered, AttemptRefused,
     ServeFrozenCache, UpdateCache, AttemptTimedOut
<1>9. CASE EtcdDown \/ EtcdUp \/ EtcdWipe \/ OperatorRestore \/ UNCHANGED vars
  BY <1>2, <1>9 DEF EtcdDown, EtcdUp, EtcdWipe, OperatorRestore, vars
<1>. QED
  BY <1>2, <1>3, <1>4, <1>5, <1>6, <1>7, <1>8, <1>9 DEF Next, HandlerStep, Supervisor

\* enterDegraded, enterRecovery and enterNormal keep the frozen snapshot and the
\* mode in step, for every interleaving of the supervisor, of failing handlers
\* and of restarts.
THEOREM SnapshotInvariant == Spec => []SnapshotWhileFrozen
<1>1. Init => SnapshotWhileFrozen /\ ProbingMeansFrozen
  BY DEF Init, SnapshotWhileFrozen, ProbingMeansFrozen, Probes
<1>2. TypeOK /\ SnapshotWhileFrozen /\ ProbingMeansFrozen /\ [Next]_vars
      => SnapshotWhileFrozen' /\ ProbingMeansFrozen'
  BY FrozenStep
<1>. QED
  BY <1>1, <1>2, TypeCorrect, PTL DEF Spec

\* The scheduler degrades before it enters recovery, and entering recovery keeps
\* the snapshot taken when it degraded, although evaluateMode acts on a mode it
\* read several etcd requests earlier.
THEOREM RecoveryKeepsSnapshotHolds == Spec => RecoveryKeepsSnapshot
<1>1. Init => SnapshotWhileFrozen /\ ProbingMeansFrozen
  BY DEF Init, SnapshotWhileFrozen, ProbingMeansFrozen, Probes
<1>2. TypeOK /\ SnapshotWhileFrozen /\ ProbingMeansFrozen /\ [Next]_vars
      => SnapshotWhileFrozen' /\ ProbingMeansFrozen'
  BY FrozenStep
<1>3. TypeOK /\ SnapshotWhileFrozen /\ ProbingMeansFrozen /\ [Next]_vars
      => [mode' = "recovery" => mode # "normal" /\ frozen' = frozen]_vars
  BY FrozenStep
<1>. QED
  BY <1>1, <1>2, <1>3, TypeCorrect, PTL DEF Spec, RecoveryKeepsSnapshot

----------------------------------------------------------------------------
(* Writes drain once the control plane is frozen *)

\* The handlers whose etcd write has passed requireWritable and is still being
\* attempted.
InFlight == {c \in Clients : ~Idle(c) /\ phase[c] = "try" /\ Current(c).do \in {"put", "delete"}}

\* Outside normal mode no handler begins to write: requireWritable is not
\* repeated between the attempts of RetryableEtcdPut and RetryableEtcdDelete, so
\* the writes let through before the freeze go on, but their set only shrinks.
FreezeDrains == [][mode # "normal" => InFlight' \subseteq InFlight]_vars

\* A handler that goes on to another operation is at its gate again, so it is
\* not in flight, and no other handler moves.
LEMMA ContinueDrains ==
    ASSUME TypeOK, NEW c \in Clients, NEW p, Continue(c, p)
    PROVE  InFlight' \subseteq InFlight
<1>. SUFFICES ASSUME NEW d \in Clients, d \in InFlight' PROVE d \in InFlight
  BY DEF InFlight
<1>1. plan'[d] # <<>> /\ phase'[d] = "try" /\ Head(plan'[d]).do \in {"put", "delete"}
  BY DEF InFlight, Idle, Current
<1>2. CASE d # c
  <2>1. plan'[d] = plan[d] /\ phase'[d] = phase[d]
    BY <1>2 DEF Continue, TypeOK
  <2>. QED
    BY <1>1, <2>1 DEF InFlight, Idle, Current
<1>3. CASE d = c
  <2>1. plan'[d] = p /\ phase'[d] = FirstPhase(p)
    BY <1>3 DEF Continue, TypeOK
  <2>. QED
    BY <1>1, <2>1 DEF FirstPhase
<1>. QED
  BY <1>2, <1>3

\* A failed attempt leaves the operation where it is.
LEMMA CountFailureDrains ==
    ASSUME TypeOK, NEW c \in Clients, CountFailure(c), UNCHANGED plan
    PROVE  InFlight' \subseteq InFlight
<1>. SUFFICES ASSUME NEW d \in Clients, d \in InFlight' PROVE d \in InFlight
  BY DEF InFlight
<1>1. phase'[d] = "try" => phase[d] = "try"
  <2>1. CASE UNCHANGED phase
    BY <2>1
  <2>2. CASE phase' = [phase EXCEPT ![c] = "fail"]
    BY <2>2 DEF TypeOK
  <2>. QED
    BY <2>1, <2>2 DEF CountFailure
<1>. QED
  BY <1>1 DEF InFlight, Idle, Current

\* One step outside normal mode adds no handler to those in flight.
LEMMA FrozenDrains ==
    ASSUME TypeOK, [Next]_vars, mode # "normal"
    PROVE  InFlight' \subseteq InFlight
<1>1. ASSUME NEW c \in Clients, StartHandler(c) PROVE InFlight' \subseteq InFlight
  BY <1>1, ContinueDrains DEF StartHandler
<1>2. ASSUME NEW c \in Clients, requireWritable(c) PROVE InFlight' \subseteq InFlight
  <2>1. AfterFailure(c)
    BY <1>2 DEF requireWritable, isWritable
  <2>. QED
    BY <2>1, ContinueDrains DEF AfterFailure
<1>3. ASSUME NEW c \in Clients, AttemptAnswered(c) PROVE InFlight' \subseteq InFlight
  BY <1>3, ContinueDrains DEF AttemptAnswered
<1>4. ASSUME NEW c \in Clients, AttemptRefused(c) PROVE InFlight' \subseteq InFlight
  BY <1>4, CountFailureDrains DEF AttemptRefused
<1>5. ASSUME NEW c \in Clients, AttemptTimedOut(c) PROVE InFlight' \subseteq InFlight
  BY <1>5, CountFailureDrains DEF AttemptTimedOut
<1>6. ASSUME NEW c \in Clients, GiveUp(c) PROVE InFlight' \subseteq InFlight
  BY <1>6, ContinueDrains DEF GiveUp, AfterFailure
<1>7. ASSUME NEW c \in Clients, ServeFrozenCache(c) PROVE InFlight' \subseteq InFlight
  BY <1>7, ContinueDrains DEF ServeFrozenCache
<1>8. ASSUME NEW c \in Clients, UpdateCache(c) PROVE InFlight' \subseteq InFlight
  BY <1>8, ContinueDrains DEF UpdateCache
<1>9. CASE UNCHANGED clientVars
  BY <1>9 DEF clientVars, InFlight, Idle, Current
<1>10. CASE Supervisor \/ EtcdDown \/ EtcdUp \/ EtcdWipe \/ OperatorRestore \/ UNCHANGED vars
  BY <1>9, <1>10 DEF Supervisor, pingEtcd, checkMode, etcdHasState, switchMode,
     EtcdDown, EtcdUp, EtcdWipe, OperatorRestore, vars, clientVars
<1>11. CASE NewScheduler
  BY <1>11 DEF NewScheduler, InFlight, Idle
<1>. QED
  BY <1>1, <1>2, <1>3, <1>4, <1>5, <1>6, <1>7, <1>8, <1>10, <1>11 DEF Next, HandlerStep

\* requireWritable closes the store to every write that has not begun when the
\* control plane freezes, for every interleaving of handlers and supervisor.
THEOREM FreezeDrainsWrites == Spec => FreezeDrains
<1>1. TypeOK /\ [Next]_vars => [mode # "normal" => InFlight' \subseteq InFlight]_vars
  BY FrozenDrains
<1>. QED
  BY <1>1, TypeCorrect, PTL DEF Spec, FreezeDrains
=============================================================================

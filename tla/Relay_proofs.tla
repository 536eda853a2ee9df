---------------------------- MODULE Relay_proofs ----------------------------
(***************************************************************************)
(* Proofs about Relay, for any set of events, any number of relays and     *)
(* every bound.  The invariants of interest are not inductive by           *)
(* themselves: what a relay will mark or publish later is held in its      *)
(* memory (sentIds, the rest of the batch, publishes that timed out), so   *)
(* the inductive invariant says what that memory may contain.              *)
(***************************************************************************)
EXTENDS Relay, DataTheorems, TLAPS

Working(r) == pc[r] \in {"publishing", "marking"}

(* While a pass runs, its batch and its sentIds are rows it has locked. *)
BatchLocked ==
  \A r \in Relays : Working(r) => todo[r] \subseteq locked[r] /\ sent[r] \subseteq locked[r]

Reached(e) == copies[e] + unrouted[e] >= 1

(* sentIds holds only what the broker confirmed. *)
SentReached == \A r \in Relays : \A e \in sent[r] : Reached(e)

(* A publish that timed out was of a committed order. *)
LateCommitted == \A r \in Relays, e \in Event : late[r][e] > 0 => Committed(e)

IInv ==
  /\ TypeOK
  /\ BatchLocked
  /\ BatchesDisjoint
  /\ SentReached
  /\ LateCommitted
  /\ MarkedReachedBroker
  /\ OnlyCommittedPublished

-----------------------------------------------------------------------------
(* The type invariant of the outbox tables, the relays and the broker. *)
LEMMA TypeInit == Init => TypeOK
  BY RelayAssumption DEF Init, TypeOK, RowStates, Topologies, NoneLate

(* created_at is a natural number: finitely many orders have started. *)
LEMMA StampType ==
  ASSUME TypeOK PROVE Cardinality(Started) + 1 \in Nat
<1>1. IsFiniteSet(Started)
  <2>1. Started \subseteq Event  BY DEF Started
  <2> QED  BY <2>1, RelayAssumption, FS_Subset
<1> QED  BY <1>1, FS_CardinalityType

(* Accept keeps the broker's counters natural and never lowers them. *)
LEMMA AcceptType ==
  ASSUME TypeOK, NEW e \in Event, Accept(e)
  PROVE  /\ copies' \in [Event -> Nat] /\ unrouted' \in [Event -> Nat]
         /\ topology' = topology
         /\ copies'[e] + unrouted'[e] = copies[e] + unrouted[e] + 1
         /\ \A f \in Event \ {e} : copies'[f] = copies[f] /\ unrouted'[f] = unrouted[f]
<1>1. CASE topology = "bound"
  <2>1. /\ copies' = [copies EXCEPT ![e] = copies[e] + 1]
        /\ unrouted' = [unrouted EXCEPT ![e] = unrouted[e] + 0]
        /\ topology' = topology
    BY <1>1 DEF Accept
  <2>2. copies \in [Event -> Nat] /\ unrouted \in [Event -> Nat]
    BY DEF TypeOK
  <2> QED  BY <2>1, <2>2
<1>2. CASE topology # "bound"
  <2>1. /\ copies' = [copies EXCEPT ![e] = copies[e] + 0]
        /\ unrouted' = [unrouted EXCEPT ![e] = unrouted[e] + 1]
        /\ topology' = topology
    BY <1>2 DEF Accept
  <2>2. copies \in [Event -> Nat] /\ unrouted \in [Event -> Nat]
    BY DEF TypeOK
  <2> QED  BY <2>1, <2>2
<1> QED  BY <1>1, <1>2

(* Every step of relays, orders, topology and clean-up keeps the types. *)
LEMMA TypeStep == TypeOK /\ [Next]_vars => TypeOK'
<1> SUFFICES ASSUME TypeOK, [Next]_vars PROVE TypeOK'  OBVIOUS
<1>1. ASSUME NEW e \in Event, BeginOrder(e) PROVE TypeOK'
  BY <1>1, StampType DEF TypeOK, BeginOrder, RowStates, relayVars, brokerVars
<1>2. ASSUME NEW e \in Event, EndOrder(e) PROVE TypeOK'
  BY <1>2 DEF TypeOK, EndOrder, RowStates, relayVars, brokerVars
<1>3. ASSUME NEW r \in Relays, SelectBatch(r) PROVE TypeOK'
  BY <1>3 DEF TypeOK, SelectBatch, TakeBatch, Eligible, tableVars, brokerVars
<1>4. ASSUME NEW r \in Relays, PublishConfirmed(r) PROVE TypeOK'
  <2> PICK e \in Oldest(todo[r]) : Accept(e) /\ todo' = [todo EXCEPT ![r] = @ \ {e}]
                                   /\ sent' = [sent EXCEPT ![r] = @ \union {e}]
    BY <1>4 DEF PublishConfirmed
  <2>1. e \in Event  BY DEF Oldest, TypeOK
  <2> QED  BY <1>4, <2>1, AcceptType DEF TypeOK, PublishConfirmed, tableVars
<1>5. ASSUME NEW r \in Relays, PublishFails(r) PROVE TypeOK'
  <2> PICK e \in Oldest(todo[r]) :
         /\ failed' = [failed EXCEPT ![r] = {e}]
         /\ \/ UNCHANGED <<late, brokerVars>>
            \/ Accept(e) /\ UNCHANGED late
            \/ late' = [late EXCEPT ![r][e] = @ + 1] /\ UNCHANGED brokerVars
    BY <1>5 DEF PublishFails
  <2>1. e \in Event  BY DEF Oldest, TypeOK
  <2>2. late' \in [Relays -> [Event -> Nat]]
    <3>1. late \in [Relays -> [Event -> Nat]] /\ late[r][e] + 1 \in Nat
      BY <2>1 DEF TypeOK
    <3> QED  BY <2>1, <3>1
  <2>3. copies' \in [Event -> Nat] /\ unrouted' \in [Event -> Nat] /\ topology' \in Topologies
    BY <2>1, AcceptType DEF TypeOK, brokerVars
  <2> QED  BY <1>5, <2>1, <2>2, <2>3, ZenonT(30) DEF TypeOK, PublishFails, tableVars
<1>6. ASSUME NEW r \in Relays, LatePublish(r) PROVE TypeOK'
  <2> PICK e \in Event : /\ late[r][e] > 0
                         /\ late' = [late EXCEPT ![r][e] = @ - 1]
                         /\ Accept(e) \/ UNCHANGED brokerVars
    BY <1>6 DEF LatePublish
  <2>2. late' \in [Relays -> [Event -> Nat]]
    <3>1. late \in [Relays -> [Event -> Nat]] /\ late[r][e] - 1 \in Nat
      BY DEF TypeOK
    <3> QED  BY <3>1
  <2>3. copies' \in [Event -> Nat] /\ unrouted' \in [Event -> Nat] /\ topology' \in Topologies
    BY AcceptType DEF TypeOK, brokerVars
  <2> QED  BY <1>6, <2>2, <2>3 DEF TypeOK, LatePublish, tableVars
<1>7. ASSUME NEW r \in Relays, EndOfBatch(r) PROVE TypeOK'
  BY <1>7 DEF TypeOK, EndOfBatch, tableVars, brokerVars
<1>8. ASSUME NEW r \in Relays, MarkAndCommit(r) PROVE TypeOK'
  <2>1. row' \in [Event -> RowStates]
    BY <1>8 DEF TypeOK, MarkAndCommit, MarkRows, RowStates
  <2>2. attempts' \in [Event -> Nat]
    BY <1>8 DEF TypeOK, MarkAndCommit, MarkRows
  <2> QED
    BY <1>8, <2>1, <2>2 DEF TypeOK, MarkAndCommit, MarkRows, brokerVars
<1>9. ASSUME NEW r \in Relays, Rollback(r) PROVE TypeOK'
  BY <1>9, RelayAssumption DEF TypeOK, Rollback, LosePass, tableVars, brokerVars
<1>10. ASSUME NEW r \in Relays, Crash(r) PROVE TypeOK'
  BY <1>10, RelayAssumption DEF TypeOK, Crash, LosePass, NoneLate, tableVars, brokerVars
<1>11. ASSUME NEW r \in Relays, Stop(r) PROVE TypeOK'
  BY <1>11, RelayAssumption DEF TypeOK, Stop, NoneLate, tableVars, brokerVars
<1>12. ASSUME NEW r \in Relays, Restart(r) PROVE TypeOK'
  BY <1>12 DEF TypeOK, Restart, tableVars, brokerVars
<1>13. ASSUME DeclareTopology PROVE TypeOK'
  BY <1>13 DEF TypeOK, DeclareTopology, Topologies, tableVars, relayVars
<1>14. ASSUME CleanupOutbox PROVE TypeOK'
  BY <1>14 DEF TypeOK, CleanupOutbox, DeleteRows, RowStates, relayVars, brokerVars
<1>15. ASSUME UNCHANGED vars PROVE TypeOK'
  BY <1>15 DEF TypeOK, vars, tableVars, relayVars, brokerVars
<1> QED
  BY <1>1, <1>2, <1>3, <1>4, <1>5, <1>6, <1>7, <1>8, <1>9, <1>10, <1>11, <1>12,
     <1>13, <1>14, <1>15 DEF Next, RelayStep, EmptyPass

(* TypeOK is an invariant of the outbox relay. *)
THEOREM TypeCorrect == Spec => []TypeOK
<1>1. Init => TypeOK  BY TypeInit
<1>2. TypeOK /\ [Next]_vars => TypeOK'  BY TypeStep
<1> QED  BY <1>1, <1>2, PTL DEF Spec

-----------------------------------------------------------------------------
(* The inductive invariant holds of an empty outbox. *)
LEMMA InvInit == Init => IInv
<1> SUFFICES ASSUME Init PROVE IInv  OBVIOUS
<1>1. TypeOK  BY TypeInit
<1> QED
  BY <1>1 DEF Init, IInv, BatchLocked, Working, BatchesDisjoint, SentReached,
     LateCommitted, MarkedReachedBroker, OnlyCommittedPublished, Marked, NoneLate

(* The rest of the inductive invariant, step by step. *)
LEMMA InvStep == IInv /\ [Next]_vars => IInv'
<1> SUFFICES ASSUME IInv, [Next]_vars PROVE IInv'  OBVIOUS
<1>0. TypeOK /\ TypeOK'  BY TypeStep DEF IInv
<1> USE DEF Committed, Marked, Reached, Working, Lockers
<1>1. ASSUME NEW e \in Event, BeginOrder(e) PROVE IInv'
  <2>1. /\ row[e] = "absent"
        /\ \A f \in Event : row'[f] = IF f = e THEN "open" ELSE row[f]
        /\ UNCHANGED <<relayVars, brokerVars>>
    BY <1>0, <1>1 DEF TypeOK, BeginOrder
  <2>2. BatchLocked' /\ SentReached'
    BY <2>1 DEF IInv, BatchLocked, SentReached, relayVars, brokerVars
  <2>3. BatchesDisjoint'
    BY <1>0, <2>1 DEF IInv, TypeOK, BatchesDisjoint, relayVars
  <2>4. LateCommitted' /\ MarkedReachedBroker' /\ OnlyCommittedPublished'
    BY <2>1 DEF IInv, LateCommitted, MarkedReachedBroker, OnlyCommittedPublished,
       relayVars, brokerVars
  <2> QED  BY <1>0, <2>2, <2>3, <2>4 DEF IInv
<1>2. ASSUME NEW e \in Event, EndOrder(e) PROVE IInv'
  <2>1. /\ row[e] = "open"
        /\ row'[e] \in {"pending", "rolled back"}
        /\ \A f \in Event \ {e} : row'[f] = row[f]
        /\ UNCHANGED <<relayVars, brokerVars>>
    BY <1>0, <1>2 DEF TypeOK, EndOrder
  <2>2. BatchLocked' /\ SentReached'
    BY <2>1 DEF IInv, BatchLocked, SentReached, relayVars, brokerVars
  <2>3. BatchesDisjoint'
    BY <1>0, <2>1 DEF IInv, TypeOK, BatchesDisjoint, relayVars
  <2>4. LateCommitted' /\ MarkedReachedBroker' /\ OnlyCommittedPublished'
    BY <2>1 DEF IInv, LateCommitted, MarkedReachedBroker, OnlyCommittedPublished,
       relayVars, brokerVars
  <2> QED  BY <1>0, <2>2, <2>3, <2>4 DEF IInv
<1>3. ASSUME NEW r \in Relays, SelectBatch(r) PROVE IInv'
  <2> PICK B \in SUBSET Eligible : /\ locked' = [locked EXCEPT ![r] = B]
                                   /\ todo' = [todo EXCEPT ![r] = B]
    BY <1>3 DEF SelectBatch, TakeBatch
  <2>1. BatchLocked'
    BY <1>0, <1>3 DEF IInv, TypeOK, BatchLocked, SelectBatch, TakeBatch
  <2>2. BatchesDisjoint'
    <3> SUFFICES ASSUME NEW s \in Relays, NEW e \in locked'[s]
                 PROVE  Lockers(e)' = {s} /\ row'[e] = "pending"
      BY DEF BatchesDisjoint
    <3>1. row' = row  BY <1>3 DEF SelectBatch, TakeBatch, tableVars
    <3>2. CASE s = r
      BY <1>0, <3>1, <3>2 DEF Eligible, TypeOK
    <3>3. CASE s # r
      <4>1. e \in locked[s] /\ e \in Event  BY <1>0, <3>3 DEF TypeOK
      <4>2. Lockers(e) = {s} /\ row[e] = "pending"  BY <4>1 DEF IInv, BatchesDisjoint
      <4>3. e \notin B  BY <4>2 DEF Eligible
      <4> QED  BY <1>0, <3>1, <3>3, <4>1, <4>2, <4>3 DEF TypeOK
    <3> QED  BY <3>2, <3>3
  <2>3. SentReached'
    BY <1>0, <1>3 DEF IInv, TypeOK, SentReached, SelectBatch, TakeBatch, brokerVars
  <2> QED
    BY <1>0, <1>3, <2>1, <2>2, <2>3 DEF IInv, LateCommitted, MarkedReachedBroker,
       OnlyCommittedPublished, SelectBatch, TakeBatch, tableVars, brokerVars
<1>4. ASSUME NEW r \in Relays, PublishConfirmed(r) PROVE IInv'
  <2> PICK e \in Oldest(todo[r]) : Accept(e) /\ todo' = [todo EXCEPT ![r] = @ \ {e}]
                                   /\ sent' = [sent EXCEPT ![r] = @ \union {e}]
    BY <1>4 DEF PublishConfirmed
  <2>1. e \in Event /\ e \in todo[r]  BY <1>0 DEF Oldest, TypeOK
  <2>2. e \in locked[r] /\ row[e] = "pending"
    BY <1>4, <2>1 DEF IInv, BatchLocked, BatchesDisjoint, PublishConfirmed
  <2>3. BatchLocked'
    BY <1>0, <1>4, <2>1, <2>2 DEF IInv, TypeOK, BatchLocked, PublishConfirmed
  <2>4. \A f \in Event : Reached(f) => Reached(f)'
    BY <1>0, <2>1, AcceptType DEF TypeOK
  <2>5. Reached(e)'  BY <1>0, <2>1, AcceptType DEF TypeOK
  <2>6. SentReached'
    BY <1>0, <2>1, <2>4, <2>5 DEF IInv, TypeOK, SentReached
  <2>7. OnlyCommittedPublished'
    BY <1>0, <1>4, <2>1, <2>2, AcceptType
    DEF IInv, OnlyCommittedPublished, PublishConfirmed, tableVars
  <2> QED
    BY <1>0, <1>4, <2>3, <2>4, <2>6, <2>7 DEF IInv, BatchesDisjoint, LateCommitted,
       MarkedReachedBroker, PublishConfirmed, tableVars
<1>5. ASSUME NEW r \in Relays, PublishFails(r) PROVE IInv'
  <2> PICK e \in Oldest(todo[r]) :
         \/ UNCHANGED <<late, brokerVars>>
         \/ Accept(e) /\ UNCHANGED late
         \/ late' = [late EXCEPT ![r][e] = @ + 1] /\ UNCHANGED brokerVars
    BY <1>5 DEF PublishFails
  <2>1. e \in Event /\ e \in todo[r]  BY <1>0 DEF Oldest, TypeOK
  <2>2. row[e] = "pending"
    BY <1>5, <2>1 DEF IInv, BatchLocked, BatchesDisjoint, PublishFails
  <2>3. \A f \in Event : /\ Reached(f) => Reached(f)'
                         /\ Reached(f)' => Reached(f) \/ f = e
    BY <1>0, <2>1, AcceptType DEF TypeOK, brokerVars
  <2>4. LateCommitted'
    <3>1. \A s \in Relays, f \in Event : late'[s][f] > 0 => late[s][f] > 0 \/ f = e
      <4>1. CASE late' = late  BY <4>1
      <4>2. CASE late' = [late EXCEPT ![r][e] = @ + 1]
        BY <1>0, <2>1, <4>2 DEF TypeOK
      <4> QED  BY <4>1, <4>2
    <3>2. row' = row  BY <1>5 DEF PublishFails, tableVars
    <3> QED  BY <2>2, <3>1, <3>2 DEF IInv, LateCommitted
  <2>5. SentReached'
    BY <1>0, <1>5, <2>3 DEF IInv, TypeOK, SentReached, PublishFails
  <2>6. OnlyCommittedPublished' /\ MarkedReachedBroker'
    BY <1>5, <2>2, <2>3 DEF IInv, OnlyCommittedPublished, MarkedReachedBroker,
       PublishFails, tableVars
  <2>7. BatchLocked' /\ BatchesDisjoint'
    BY <1>0, <1>5 DEF IInv, TypeOK, BatchLocked, BatchesDisjoint, PublishFails, tableVars
  <2> QED  BY <1>0, <2>4, <2>5, <2>6, <2>7 DEF IInv
<1>6. ASSUME NEW r \in Relays, LatePublish(r) PROVE IInv'
  <2> PICK e \in Event : /\ late[r][e] > 0
                         /\ late' = [late EXCEPT ![r][e] = @ - 1]
                         /\ Accept(e) \/ UNCHANGED brokerVars
    BY <1>6 DEF LatePublish
  <2>1. Committed(e)  BY DEF IInv, LateCommitted
  <2>2. row' = row  BY <1>6 DEF LatePublish, tableVars
  <2>3. \A f \in Event : /\ Reached(f) => Reached(f)'
                         /\ Reached(f)' => Reached(f) \/ f = e
    BY <1>0, AcceptType DEF TypeOK, brokerVars
  <2>4. \A s \in Relays, f \in Event : late'[s][f] <= late[s][f]
    BY <1>0 DEF TypeOK
  <2>5. LateCommitted'
    BY <1>0, <2>2, <2>4 DEF IInv, TypeOK, LateCommitted
  <2>6. SentReached'
    BY <1>0, <1>6, <2>3 DEF IInv, TypeOK, SentReached, LatePublish
  <2>7. OnlyCommittedPublished' /\ MarkedReachedBroker'
    BY <2>1, <2>2, <2>3 DEF IInv, OnlyCommittedPublished, MarkedReachedBroker
  <2>8. BatchLocked' /\ BatchesDisjoint'
    BY <1>6, <2>2 DEF IInv, BatchLocked, BatchesDisjoint, LatePublish
  <2> QED  BY <1>0, <2>5, <2>6, <2>7, <2>8 DEF IInv
<1>7. ASSUME NEW r \in Relays, EndOfBatch(r) PROVE IInv'
  BY <1>0, <1>7 DEF IInv, TypeOK, BatchLocked, BatchesDisjoint, SentReached, LateCommitted,
     MarkedReachedBroker, OnlyCommittedPublished, EndOfBatch, tableVars, brokerVars
<1>8. ASSUME NEW r \in Relays, MarkAndCommit(r) PROVE IInv'
  <2>1. /\ pc[r] = "marking" /\ sent' = sent /\ late' = late
        /\ copies' = copies /\ unrouted' = unrouted
        /\ locked' = [locked EXCEPT ![r] = {}] /\ todo' = [todo EXCEPT ![r] = {}]
        /\ pc' = [pc EXCEPT ![r] = "idle"]
        /\ \A e \in Event : row'[e] = IF e \in sent[r] THEN "published" ELSE row[e]
    BY <1>8 DEF MarkAndCommit, MarkRows, brokerVars
  <2>2. sent[r] \subseteq locked[r]  BY <2>1 DEF IInv, BatchLocked
  <2>3. \A e \in sent[r] : e \in Event /\ Reached(e) /\ Lockers(e) = {r}
    BY <1>0, <2>2 DEF IInv, TypeOK, SentReached, BatchesDisjoint
  <2>4. BatchLocked'
    BY <1>0, <2>1 DEF IInv, TypeOK, BatchLocked
  <2>5. BatchesDisjoint'
    <3> SUFFICES ASSUME NEW s \in Relays, NEW e \in locked'[s]
                 PROVE  Lockers(e)' = {s} /\ row'[e] = "pending"
      BY DEF BatchesDisjoint
    <3>1. s # r /\ e \in locked[s] /\ e \in Event  BY <1>0, <2>1 DEF TypeOK
    <3>2. Lockers(e) = {s} /\ row[e] = "pending"  BY <3>1 DEF IInv, BatchesDisjoint
    <3>3. e \notin sent[r]  BY <2>3, <3>1, <3>2
    <3> QED  BY <1>0, <2>1, <3>1, <3>2, <3>3 DEF TypeOK
  <2>6. SentReached' /\ LateCommitted'
    BY <2>1 DEF IInv, SentReached, LateCommitted
  <2>7. MarkedReachedBroker'
    BY <2>1, <2>3 DEF IInv, MarkedReachedBroker
  <2>8. OnlyCommittedPublished'
    BY <2>1 DEF IInv, OnlyCommittedPublished
  <2> QED  BY <1>0, <2>4, <2>5, <2>6, <2>7, <2>8 DEF IInv
<1>9. ASSUME NEW r \in Relays, Rollback(r) \/ Crash(r) \/ Stop(r) \/ Restart(r) PROVE IInv'
  <2>1. /\ row' = row /\ copies' = copies /\ unrouted' = unrouted
        /\ \A s \in Relays : locked'[s] \subseteq locked[s] /\ sent'[s] \subseteq sent[s]
        /\ \A s \in Relays, e \in Event : late'[s][e] > 0 => late[s][e] > 0
    <3>1. CASE Rollback(r)
      BY <1>0, <3>1 DEF TypeOK, Rollback, LosePass, tableVars, brokerVars
    <3>2. CASE Crash(r)
      BY <1>0, <3>2 DEF TypeOK, Crash, LosePass, NoneLate, tableVars, brokerVars
    <3>3. CASE Stop(r)
      BY <1>0, <3>3 DEF TypeOK, Stop, NoneLate, tableVars, brokerVars
    <3>4. CASE Restart(r)
      BY <1>0, <3>4 DEF TypeOK, Restart, tableVars, brokerVars
    <3> QED  BY <1>9, <3>1, <3>2, <3>3, <3>4
  <2>2. BatchLocked'
    BY <1>0, <1>9, ZenonT(30) DEF IInv, TypeOK, BatchLocked, Rollback, Crash, Stop, Restart, LosePass
  <2>3. BatchesDisjoint'
    BY <1>0, <2>1 DEF IInv, TypeOK, BatchesDisjoint
  <2>4. SentReached' /\ LateCommitted'
    BY <2>1 DEF IInv, SentReached, LateCommitted
  <2> QED
    BY <1>0, <2>1, <2>2, <2>3, <2>4 DEF IInv, MarkedReachedBroker, OnlyCommittedPublished
<1>10. ASSUME DeclareTopology PROVE IInv'
  BY <1>0, <1>10 DEF IInv, BatchLocked, BatchesDisjoint, SentReached, LateCommitted,
     MarkedReachedBroker, OnlyCommittedPublished, DeclareTopology, tableVars, relayVars
<1>11. ASSUME CleanupOutbox PROVE IInv'
  <2> PICK S \in SUBSET {e \in Event : row[e] = "published"} :
         row' = [e \in Event |-> IF e \in S THEN "deleted" ELSE row[e]]
    BY <1>11 DEF CleanupOutbox, DeleteRows
  <2> QED
    BY <1>0, <1>11 DEF IInv, TypeOK, BatchLocked, BatchesDisjoint, SentReached, LateCommitted,
       MarkedReachedBroker, OnlyCommittedPublished, CleanupOutbox, DeleteRows,
       relayVars, brokerVars
<1>12. ASSUME UNCHANGED vars PROVE IInv'
  BY <1>0, <1>12 DEF IInv, BatchLocked, BatchesDisjoint, SentReached, LateCommitted,
     MarkedReachedBroker, OnlyCommittedPublished, vars, tableVars, relayVars, brokerVars
<1> QED
  BY <1>1, <1>2, <1>3, <1>4, <1>5, <1>6, <1>7, <1>8, <1>9, <1>10, <1>11, <1>12
  DEF Next, RelayStep, EmptyPass

(* At-least-once and no phantom events, for every number of relays, events  *)
(* and failures: a row marked published has a stored copy, and only rows of *)
(* committed orders are published.                                          *)
THEOREM AtLeastOnce == Spec => [](MarkedReachedBroker /\ OnlyCommittedPublished)
<1>1. Init => IInv  BY InvInit
<1>2. IInv /\ [Next]_vars => IInv'  BY InvStep
<1>3. IInv => MarkedReachedBroker /\ OnlyCommittedPublished  BY DEF IInv
<1> QED  BY <1>1, <1>2, <1>3, PTL DEF Spec

(* FOR UPDATE SKIP LOCKED keeps the batches of concurrent relays apart. *)
THEOREM Disjoint == Spec => []BatchesDisjoint
<1>1. Init => IInv  BY InvInit
<1>2. IInv /\ [Next]_vars => IInv'  BY InvStep
<1>3. IInv => BatchesDisjoint  BY DEF IInv
<1> QED  BY <1>1, <1>2, <1>3, PTL DEF Spec

-----------------------------------------------------------------------------
(* What NoResendAfterMark says of one step. *)
SteadyMarks ==
  \A e \in Event :
    Marked(e) /\ copies'[e] + unrouted'[e] > copies[e] + unrouted[e]
      => \E r \in Relays : late'[r][e] < late[r][e]

(* One step sends a copy of a marked row only from a publish that timed     *)
(* out: a batch holds unpublished rows only.                                *)
LEMMA SteadyStep == IInv /\ [Next]_vars => SteadyMarks
<1> SUFFICES ASSUME IInv, [Next]_vars, NEW e \in Event, Marked(e),
                    copies'[e] + unrouted'[e] > copies[e] + unrouted[e]
             PROVE  \E r \in Relays : late'[r][e] < late[r][e]
  BY DEF SteadyMarks
<1>0. TypeOK  BY DEF IInv
<1>1. ~ UNCHANGED <<copies, unrouted>>  BY <1>0 DEF TypeOK
<1>2. ASSUME NEW r \in Relays, PublishConfirmed(r) \/ PublishFails(r) PROVE FALSE
  <2>1. PICK f \in Oldest(todo[r]) : Accept(f) \/ UNCHANGED brokerVars
    BY <1>2 DEF PublishConfirmed, PublishFails
  <2>2. f \in Event /\ f \in todo[r]  BY <1>0 DEF Oldest, TypeOK
  <2>3. row[f] = "pending"
    BY <1>2, <2>2 DEF IInv, BatchLocked, BatchesDisjoint, Working, PublishConfirmed, PublishFails
  <2>4. Accept(f) /\ f # e  BY <1>1, <2>1, <2>3 DEF Marked, brokerVars
  <2> QED  BY <1>0, <2>2, <2>4, AcceptType DEF TypeOK
<1>3. ASSUME NEW r \in Relays, LatePublish(r) PROVE late'[r][e] < late[r][e]
  <2>1. PICK f \in Event : /\ late[r][f] > 0
                           /\ late' = [late EXCEPT ![r][f] = @ - 1]
                           /\ Accept(f) \/ UNCHANGED brokerVars
    BY <1>3 DEF LatePublish
  <2>2. Accept(f) /\ f = e  BY <1>0, <1>1, <2>1, AcceptType DEF TypeOK, brokerVars
  <2> QED  BY <1>0, <2>1, <2>2 DEF TypeOK
<1> QED
  BY <1>1, <1>2, <1>3 DEF Next, RelayStep, BeginOrder, EndOrder, SelectBatch, TakeBatch,
     EmptyPass, EndOfBatch, MarkAndCommit, MarkRows, Rollback, Crash, Stop, Restart,
     DeclareTopology, CleanupOutbox, DeleteRows, vars, brokerVars

(* Marking is final: no pass of any relay ever sends a marked row again. *)
THEOREM MarkIsFinal == Spec => NoResendAfterMark
<1>1. Init => IInv  BY InvInit
<1>2. IInv /\ [Next]_vars => IInv'  BY InvStep
<1>3. IInv /\ [Next]_vars => [SteadyMarks]_vars  BY SteadyStep
<1> QED  BY <1>1, <1>2, <1>3, PTL DEF Spec, NoResendAfterMark, SteadyMarks

-----------------------------------------------------------------------------
(* A row is tried once in a pass, and a relay between passes holds none.    *)
PassInv ==
  \A r \in Relays :
    /\ ~Working(r) => locked[r] = {}
    /\ pc[r] = "publishing" => failed[r] = {} /\ todo[r] \intersect sent[r] = {}

(* The invariant of the duplicates' account, with IInv. *)
DupInv == PassInv /\ DuplicatesAccounted

LateOf(e) == [r \in Relays |-> late[r][e]]

(* The terms of the account are natural numbers. *)
LEMMA AccountTypes ==
  ASSUME TypeOK, NEW e \in Event
  PROVE  /\ IsFiniteSet(Trying(e)) /\ Cardinality(Trying(e)) \in Nat
         /\ StillRunning(e) = SumFunctionOnSet(LateOf(e), Relays) /\ StillRunning(e) \in Nat
         /\ \A r \in Relays : LateOf(e)[r] = late[r][e] /\ late[r][e] \in Nat
<1>1. IsFiniteSet(Trying(e))  BY RelayAssumption, FS_Subset DEF Trying
<1>2. \A r \in Relays : LateOf(e)[r] = late[r][e] /\ late[r][e] \in Nat
  BY DEF LateOf, TypeOK
<1>3. StillRunning(e) = SumFunctionOnSet(LateOf(e), Relays)
  <2>1. DOMAIN LateOf(e) = Relays  BY DEF LateOf
  <2>2. SumFunctionOnSet(LateOf(e), DOMAIN LateOf(e)) = SumFunctionOnSet(LateOf(e), Relays)
    BY <2>1
  <2> QED  BY <2>2 DEF StillRunning, LateOf, SumFunction
<1>4. SumFunctionOnSet(LateOf(e), Relays) \in Nat  BY <1>2, RelayAssumption, SumType
<1> QED  BY <1>1, <1>2, <1>3, <1>4, FS_CardinalityType

(* And so they are after a step. *)
LEMMA NextAccountTypes ==
  ASSUME TypeOK', NEW e \in Event
  PROVE  /\ Cardinality(Trying(e)') \in Nat
         /\ StillRunning(e)' = SumFunctionOnSet(LateOf(e)', Relays) /\ StillRunning(e)' \in Nat
         /\ \A r \in Relays : LateOf(e)'[r] = late'[r][e] /\ late'[r][e] \in Nat
<1>1. IsFiniteSet(Trying(e)')
  <2>1. Trying(e)' \subseteq Relays  BY DEF Trying
  <2> QED  BY <2>1, RelayAssumption, FS_Subset
<1>2. \A r \in Relays : LateOf(e)'[r] = late'[r][e] /\ late'[r][e] \in Nat
  BY DEF LateOf, TypeOK
<1>3. StillRunning(e)' = SumFunctionOnSet(LateOf(e)', Relays)
  <2>1. DOMAIN LateOf(e)' = Relays  BY DEF LateOf
  <2>2. SumFunctionOnSet(LateOf(e)', DOMAIN LateOf(e)') = SumFunctionOnSet(LateOf(e)', Relays)
    BY <2>1
  <2> QED  BY <2>2 DEF StillRunning, LateOf, SumFunction
<1> DEFINE k == LateOf(e)'
<1>4. \A r \in Relays : k[r] \in Nat  BY <1>2
<1> HIDE DEF k
<1>5. SumFunctionOnSet(k, Relays) \in Nat  BY <1>4, RelayAssumption, SumType
<1> QED  BY <1>1, <1>2, <1>3, <1>5, FS_CardinalityType DEF k

(* One relay's abandoned publishes change in number. *)
LEMMA LateChanges ==
  ASSUME TypeOK, TypeOK', NEW e \in Event, NEW r \in Relays,
         \A s \in Relays \ {r} : late'[s][e] = late[s][e]
  PROVE  StillRunning(e)' = StillRunning(e) + (late'[r][e] - late[r][e])
<1>1. /\ StillRunning(e) = SumFunctionOnSet(LateOf(e), Relays)
      /\ \A s \in Relays : LateOf(e)[s] = late[s][e] /\ late[s][e] \in Nat
  BY AccountTypes
<1>2. /\ StillRunning(e)' = SumFunctionOnSet(LateOf(e)', Relays)
      /\ \A s \in Relays : LateOf(e)'[s] = late'[s][e] /\ late'[s][e] \in Nat
  BY NextAccountTypes
<1> DEFINE f == LateOf(e)
           k == LateOf(e)'
<1>3. \A s \in Relays : f[s] = late[s][e] /\ k[s] = late'[s][e]  BY <1>1, <1>2
<1>4. \A s \in Relays : f[s] \in Int /\ k[s] \in Int  BY <1>1, <1>2, <1>3
<1>5. \A s \in Relays \ {r} : f[s] = k[s]  BY <1>3
<1> HIDE DEF f, k
<1>6. SumFunctionOnSet(k, Relays) = SumFunctionOnSet(f, Relays) + (k[r] - f[r])
  BY <1>4, <1>5, RelayAssumption, SumChanges
<1> QED  BY <1>1, <1>2, <1>3, <1>6 DEF f, k

(* A pass takes one more event in hand, or lets go of some. *)
LEMMA TriesChange ==
  ASSUME TypeOK, NEW e \in Event, NEW r \in Relays
  PROVE  /\ Trying(e)' = Trying(e) => Cardinality(Trying(e)') = Cardinality(Trying(e))
         /\ r \notin Trying(e) /\ Trying(e)' = Trying(e) \union {r} =>
              Cardinality(Trying(e)') = Cardinality(Trying(e)) + 1
         /\ Trying(e)' = Trying(e) \ {r} =>
              /\ Cardinality(Trying(e)') \in Nat
              /\ Cardinality(Trying(e)') >= Cardinality(Trying(e)) - 1
<1>1. IsFiniteSet(Trying(e)) /\ Cardinality(Trying(e)) \in Nat  BY AccountTypes
<1>2. Trying(e)' = Trying(e) => Cardinality(Trying(e)') = Cardinality(Trying(e))  OBVIOUS
<1>3. r \notin Trying(e) => Cardinality(Trying(e) \union {r}) = Cardinality(Trying(e)) + 1
  BY <1>1, FS_AddElement
<1>4. /\ Cardinality(Trying(e) \ {r}) \in Nat
      /\ Cardinality(Trying(e) \ {r}) >= Cardinality(Trying(e)) - 1
  <2>1. CASE r \in Trying(e)
    <3>1. Cardinality(Trying(e) \ {r}) = Cardinality(Trying(e)) - 1
      BY <1>1, <2>1, FS_RemoveElement
    <3>2. Cardinality(Trying(e) \ {r}) \in Nat
      BY <1>1, FS_RemoveElement, FS_CardinalityType
    <3> QED  BY <1>1, <3>1, <3>2
  <2>2. CASE r \notin Trying(e)
    <3>1. Trying(e) \ {r} = Trying(e)  BY <2>2
    <3> QED  BY <1>1, <3>1
  <2> QED  BY <2>1, <2>2
<1> QED  BY <1>2, <1>3, <1>4

(* Every step keeps PassInv. *)
LEMMA PassStep == IInv /\ PassInv /\ [Next]_vars => PassInv'
<1> SUFFICES ASSUME IInv, PassInv, [Next]_vars PROVE PassInv'  OBVIOUS
<1>0. TypeOK  BY DEF IInv
<1> USE DEF Working
<1>1. CASE UNCHANGED relayVars  BY <1>1 DEF PassInv, relayVars
<1>2. ASSUME NEW r \in Relays, SelectBatch(r) PROVE PassInv'
  BY <1>0, <1>2 DEF PassInv, SelectBatch, TakeBatch, TypeOK
<1>3. ASSUME NEW r \in Relays, PublishConfirmed(r) PROVE PassInv'
  BY <1>0, <1>3 DEF PassInv, PublishConfirmed, TypeOK
<1>4. ASSUME NEW r \in Relays, PublishFails(r) PROVE PassInv'
  BY <1>0, <1>4 DEF PassInv, PublishFails, TypeOK
<1>5. ASSUME NEW r \in Relays, LatePublish(r) \/ EndOfBatch(r) \/ Stop(r) \/ Restart(r) PROVE PassInv'
  BY <1>0, <1>5 DEF PassInv, LatePublish, EndOfBatch, Stop, Restart, TypeOK
<1>6. ASSUME NEW r \in Relays, MarkAndCommit(r) PROVE PassInv'
  BY <1>0, <1>6 DEF PassInv, MarkAndCommit, MarkRows, TypeOK
<1>7. ASSUME NEW r \in Relays, Rollback(r) \/ Crash(r) PROVE PassInv'
  BY <1>0, <1>7 DEF PassInv, Rollback, Crash, LosePass, TypeOK
<1> QED
  BY <1>1, <1>2, <1>3, <1>4, <1>5, <1>6, <1>7 DEF Next, RelayStep, BeginOrder, EndOrder,
     EmptyPass, DeclareTopology, CleanupOutbox, DeleteRows, vars

(* The account of one event after a step that may move each of its terms.   *)
Balanced(e) ==
  copies[e] + unrouted[e] + StillRunning(e) <= attempts[e] + aborts + Cardinality(Trying(e))

(* Every step keeps the account of every event. *)
LEMMA AccountStep ==
  ASSUME IInv, PassInv, [Next]_vars, NEW e \in Event, Balanced(e)
  PROVE  Balanced(e)'
<1>1. TypeOK /\ TypeOK'  BY TypeStep DEF IInv
<1>2. /\ copies[e] \in Nat /\ unrouted[e] \in Nat /\ attempts[e] \in Nat /\ aborts \in Nat
      /\ copies'[e] \in Nat /\ unrouted'[e] \in Nat /\ attempts'[e] \in Nat /\ aborts' \in Nat
      /\ StillRunning(e) \in Nat /\ Cardinality(Trying(e)) \in Nat
  BY <1>1, AccountTypes, RelayAssumption DEF TypeOK
<1> DEFINE had == copies[e] + unrouted[e]
           has == copies'[e] + unrouted'[e]
           paid == attempts[e] + aborts
           pays == attempts'[e] + aborts'
           ran == StillRunning(e)
           tried == Cardinality(Trying(e))
           runs == StillRunning(e)'
           tries == Cardinality(Trying(e)')
<1>3. /\ had \in Nat /\ has \in Nat /\ paid \in Nat /\ pays \in Nat
      /\ ran \in Nat /\ tried \in Nat /\ runs \in Nat /\ tries \in Nat
      /\ had + ran <= paid + tried
  <2>1. runs \in Nat /\ tries \in Nat  BY <1>1, NextAccountTypes
  <2> QED  BY <1>2, <2>1 DEF Balanced
<1>4. ASSUME has + runs <= pays + tries PROVE Balanced(e)'
  BY <1>4 DEF Balanced
<1>5. UNCHANGED late => StillRunning(e)' = StillRunning(e)  BY DEF StillRunning
<1>6. UNCHANGED <<sent, failed, locked>> => Cardinality(Trying(e)') = Cardinality(Trying(e))
  BY DEF Trying
<1>7. ASSUME UNCHANGED <<relayVars, brokerVars, attempts, aborts>> PROVE Balanced(e)'
  <2>1. has = had /\ runs = ran /\ tries = tried
    BY <1>5, <1>6, <1>7 DEF relayVars, brokerVars
  <2>2. pays = paid  BY <1>7
  <2> HIDE DEF had, has, paid, pays, ran, runs, tried, tries
  <2>3. has + runs <= pays + tries  BY <1>3, <1>7, <2>1, <2>2
  <2> QED  BY <1>4, <2>3
<1>8. ASSUME NEW r \in Relays, SelectBatch(r) PROVE Balanced(e)'
  <2>1. /\ pc[r] = "idle" /\ UNCHANGED <<late, tableVars, brokerVars, aborts>>
        /\ sent' = [sent EXCEPT ![r] = {}] /\ failed' = [failed EXCEPT ![r] = {}]
        /\ \A s \in Relays \ {r} : locked'[s] = locked[s]
    BY <1>1, <1>8 DEF SelectBatch, TakeBatch, TypeOK
  <2>2. locked[r] = {}  BY <2>1 DEF PassInv, Working
  <2>3. Trying(e)' = Trying(e)  BY <1>1, <2>1, <2>2 DEF Trying, TypeOK
  <2>4. has = had /\ runs = ran /\ tries = tried
    BY <1>5, <2>1, <2>3 DEF brokerVars
  <2>5. pays = paid  BY <2>1 DEF tableVars
  <2> HIDE DEF had, has, paid, pays, ran, runs, tried, tries
  <2>6. has + runs <= pays + tries  BY <1>3, <2>1, <2>4, <2>5
  <2> QED  BY <1>4, <2>6
<1>9. ASSUME NEW r \in Relays, PublishConfirmed(r) PROVE Balanced(e)'
  <2>1. PICK f \in Oldest(todo[r]) : /\ Accept(f)
                                     /\ sent' = [sent EXCEPT ![r] = @ \union {f}]
    BY <1>9 DEF PublishConfirmed
  <2>2. /\ pc[r] = "publishing" /\ UNCHANGED <<locked, failed, late, attempts, aborts>>
        /\ f \in todo[r] /\ f \in Event
    BY <1>1, <1>9 DEF PublishConfirmed, tableVars, Oldest, TypeOK
  <2>3. f \in locked[r] /\ f \notin sent[r] /\ failed[r] = {}
    BY <2>2 DEF IInv, BatchLocked, PassInv, Working
  <2>4. CASE e = f
    <3>1. Trying(e)' = Trying(e) \union {r} /\ r \notin Trying(e)
      BY <1>1, <2>1, <2>2, <2>3, <2>4 DEF Trying, TypeOK
    <3>2. has = had + 1 /\ runs = ran /\ tries = tried + 1
      BY <1>1, <1>5, <2>1, <2>2, <2>4, <3>1, AcceptType, TriesChange
    <3>3. pays = paid  BY <2>2
    <3> HIDE DEF had, has, paid, pays, ran, runs, tried, tries
    <3>4. has + runs <= pays + tries  BY <1>3, <2>2, <3>2, <3>3
    <3> QED  BY <1>4, <3>4
  <2>5. CASE e # f
    <3>1. Trying(e)' = Trying(e)  BY <1>1, <2>1, <2>2, <2>5 DEF Trying, TypeOK
    <3>2. has = had /\ runs = ran /\ tries = tried
      BY <1>1, <1>5, <2>1, <2>2, <2>5, <3>1, AcceptType
    <3>3. pays = paid  BY <2>2
    <3> HIDE DEF had, has, paid, pays, ran, runs, tried, tries
    <3>4. has + runs <= pays + tries  BY <1>3, <2>2, <3>2, <3>3
    <3> QED  BY <1>4, <3>4
  <2> QED  BY <2>4, <2>5
<1>10. ASSUME NEW r \in Relays, PublishFails(r) PROVE Balanced(e)'
  <2>1. PICK f \in Oldest(todo[r]) :
          /\ failed' = [failed EXCEPT ![r] = {f}]
          /\ \/ UNCHANGED <<late, brokerVars>>
             \/ Accept(f) /\ UNCHANGED late
             \/ late' = [late EXCEPT ![r][f] = @ + 1] /\ UNCHANGED brokerVars
    BY <1>10 DEF PublishFails
  <2>2. /\ pc[r] = "publishing" /\ UNCHANGED <<locked, sent, attempts, aborts>>
        /\ f \in todo[r] /\ f \in Event
    BY <1>1, <1>10 DEF PublishFails, tableVars, Oldest, TypeOK
  <2>3. f \in locked[r] /\ f \notin sent[r] /\ failed[r] = {}
    BY <2>2 DEF IInv, BatchLocked, PassInv, Working
  <2>4. CASE e = f
    <3>1. Trying(e)' = Trying(e) \union {r} /\ r \notin Trying(e)
      BY <1>1, <2>1, <2>2, <2>3, <2>4 DEF Trying, TypeOK
    <3>2. tries = tried + 1  BY <1>1, <3>1, TriesChange
    <3>3. \/ has = had /\ runs = ran
          \/ has = had + 1 /\ runs = ran
          \/ has = had /\ runs = ran + 1
      <4>1. CASE UNCHANGED <<late, brokerVars>>  BY <1>5, <4>1 DEF brokerVars
      <4>2. CASE Accept(f) /\ UNCHANGED late  BY <1>1, <1>5, <2>2, <2>4, <4>2, AcceptType
      <4>3. CASE late' = [late EXCEPT ![r][f] = @ + 1] /\ UNCHANGED brokerVars
        <5>1. /\ late'[r][e] = late[r][e] + 1 /\ late[r][e] \in Nat
              /\ \A s \in Relays \ {r} : late'[s][e] = late[s][e]
          BY <1>1, <2>4, <4>3 DEF TypeOK
        <5>2. runs = ran + (late'[r][e] - late[r][e])
          BY <1>1, <5>1, LateChanges
        <5> QED  BY <1>2, <4>3, <5>1, <5>2 DEF brokerVars
      <4> QED  BY <2>1, <4>1, <4>2, <4>3
    <3>4. pays = paid  BY <2>2
    <3> HIDE DEF had, has, paid, pays, ran, runs, tried, tries
    <3>5. has + runs <= pays + tries  BY <1>3, <2>2, <3>2, <3>3, <3>4
    <3> QED  BY <1>4, <3>5
  <2>5. CASE e # f
    <3>1. Trying(e)' = Trying(e)  BY <1>1, <2>1, <2>2, <2>3, <2>5 DEF Trying, TypeOK
    <3>2. \A s \in Relays : late'[s][e] = late[s][e]
      <4>1. CASE late' = late  BY <4>1
      <4>2. CASE late' = [late EXCEPT ![r][f] = @ + 1]  BY <1>1, <2>2, <2>5, <4>2 DEF TypeOK
      <4> QED  BY <2>1, <4>1, <4>2
    <3>3. runs = ran  BY <3>2 DEF StillRunning
    <3>4. has = had  BY <1>1, <2>1, <2>2, <2>5, AcceptType DEF brokerVars
    <3>5. tries = tried  BY <3>1
    <3>6. pays = paid  BY <2>2
    <3> HIDE DEF had, has, paid, pays, ran, runs, tried, tries
    <3>7. has + runs <= pays + tries  BY <1>3, <2>2, <3>3, <3>4, <3>5, <3>6
    <3> QED  BY <1>4, <3>7
  <2> QED  BY <2>4, <2>5
<1>11. ASSUME NEW r \in Relays, LatePublish(r) PROVE Balanced(e)'
  <2>1. PICK f \in Event : /\ late[r][f] > 0
                           /\ late' = [late EXCEPT ![r][f] = @ - 1]
                           /\ Accept(f) \/ UNCHANGED brokerVars
    BY <1>11 DEF LatePublish
  <2>2. UNCHANGED <<sent, failed, locked, attempts, aborts>>
    BY <1>11 DEF LatePublish, tableVars
  <2>3. CASE e = f
    <3>1. /\ late'[r][e] = late[r][e] - 1 /\ late[r][e] \in Nat
          /\ \A s \in Relays \ {r} : late'[s][e] = late[s][e]
      BY <1>1, <2>1, <2>3 DEF TypeOK
    <3>2. runs = ran + (late'[r][e] - late[r][e])
      BY <1>1, <3>1, LateChanges
    <3>3. has = had \/ has = had + 1  BY <1>1, <2>1, <2>3, AcceptType DEF brokerVars
    <3>4. tries = tried  BY <1>6, <2>2
    <3>5. pays = paid  BY <2>2
    <3> HIDE DEF had, has, paid, pays, ran, runs, tried, tries
    <3>6. runs = ran - 1  BY <1>3, <3>1, <3>2
    <3>7. has + runs <= pays + tries  BY <1>3, <2>2, <3>3, <3>4, <3>6, <3>5
    <3> QED  BY <1>4, <3>7
  <2>4. CASE e # f
    <3>1. \A s \in Relays : late'[s][e] = late[s][e]  BY <1>1, <2>1, <2>4 DEF TypeOK
    <3>2. runs = ran  BY <3>1 DEF StillRunning
    <3>3. has = had  BY <1>1, <2>1, <2>4, AcceptType DEF brokerVars
    <3>4. tries = tried  BY <1>6, <2>2
    <3>5. pays = paid  BY <2>2
    <3> HIDE DEF had, has, paid, pays, ran, runs, tried, tries
    <3>6. has + runs <= pays + tries  BY <1>3, <2>2, <3>2, <3>3, <3>4, <3>5
    <3> QED  BY <1>4, <3>6
  <2> QED  BY <2>3, <2>4
<1>12. ASSUME NEW r \in Relays, MarkAndCommit(r) PROVE Balanced(e)'
  <2>1. /\ UNCHANGED <<sent, failed, late, brokerVars, aborts>>
        /\ locked' = [locked EXCEPT ![r] = {}]
        /\ attempts'[e] = IF e \in sent[r] \union failed[r] THEN attempts[e] + 1 ELSE attempts[e]
    BY <1>12 DEF MarkAndCommit, MarkRows
  <2>2. has = had /\ runs = ran  BY <1>5, <2>1 DEF brokerVars
  <2>3. Trying(e)' = Trying(e) \ {r}  BY <1>1, <2>1 DEF Trying, TypeOK
  <2>4. CASE e \in sent[r] \union failed[r]
    <3>1. tries \in Nat /\ tries >= tried - 1  BY <1>1, <2>3, TriesChange
    <3>2. pays = paid + 1  BY <1>2, <2>1, <2>4
    <3> HIDE DEF had, has, paid, pays, ran, runs, tried, tries
    <3>3. has + runs <= pays + tries  BY <1>3, <2>1, <2>2, <2>4, <3>1, <3>2
    <3> QED  BY <1>4, <3>3
  <2>5. CASE e \notin sent[r] \union failed[r]
    <3>1. Trying(e)' = Trying(e)  BY <2>3, <2>5 DEF Trying
    <3>2. tries = tried  BY <3>1
    <3>3. pays = paid  BY <2>1, <2>5
    <3> HIDE DEF had, has, paid, pays, ran, runs, tried, tries
    <3>4. has + runs <= pays + tries  BY <1>3, <2>1, <2>2, <2>5, <3>2, <3>3
    <3> QED  BY <1>4, <3>4
  <2> QED  BY <2>4, <2>5
<1>13. ASSUME NEW r \in Relays, Rollback(r) \/ Crash(r) \/ Stop(r) PROVE Balanced(e)'
  <2>1. /\ UNCHANGED <<tableVars, brokerVars>> /\ aborts' = aborts + 1
        /\ late' = late \/ late' = [late EXCEPT ![r] = NoneLate]
        /\ \/ UNCHANGED <<sent, failed, locked>>
           \/ LosePass(r)
    BY <1>13 DEF Rollback, Crash, Stop
  <2>2. Trying(e)' = Trying(e) \/ Trying(e)' = Trying(e) \ {r}
    <3>1. CASE UNCHANGED <<sent, failed, locked>>  BY <3>1 DEF Trying
    <3>2. CASE LosePass(r)
      <4>1. Trying(e)' = Trying(e) \ {r}  BY <1>1, <3>2 DEF Trying, TypeOK, LosePass
      <4> QED  BY <4>1
    <3> QED  BY <2>1, <3>1, <3>2
  <2>3. tries \in Nat /\ tries >= tried - 1
    <3>1. Trying(e)' = Trying(e) => tries = tried  BY <1>1, TriesChange
    <3>2. Trying(e)' = Trying(e) \ {r} => tries \in Nat /\ tries >= tried - 1
      BY <1>1, TriesChange
    <3> HIDE DEF tries
    <3> QED  BY <1>2, <2>2, <3>1, <3>2
  <2>4. runs \in Nat /\ runs <= ran
    <3>1. CASE late' = late  BY <1>2, <1>5, <3>1
    <3>2. CASE late' = [late EXCEPT ![r] = NoneLate]
      <4>1. /\ late'[r][e] = 0 /\ late[r][e] \in Nat
            /\ \A s \in Relays \ {r} : late'[s][e] = late[s][e]
        BY <1>1, <3>2 DEF TypeOK, NoneLate
      <4>2. runs = ran + (late'[r][e] - late[r][e])
        BY <1>1, <4>1, LateChanges
      <4>3. runs \in Nat  BY <1>1, NextAccountTypes
      <4> HIDE DEF runs
      <4> QED  BY <1>2, <4>1, <4>2, <4>3
    <3> QED  BY <2>1, <3>1, <3>2
  <2>5. has = had /\ attempts' = attempts  BY <2>1 DEF brokerVars, tableVars
  <2>6. pays = paid + 1  BY <1>2, <2>1 DEF tableVars
  <2> HIDE DEF had, has, paid, pays, ran, runs, tried, tries
  <2>7. has + runs <= pays + tries  BY <1>3, <2>1, <2>3, <2>4, <2>5, <2>6
  <2> QED  BY <1>4, <2>7
<1>14. ASSUME NEW r \in Relays, EndOfBatch(r) \/ Restart(r) PROVE Balanced(e)'
  <2>1. UNCHANGED <<sent, failed, locked, late, copies, unrouted, attempts, aborts>>
    BY <1>14 DEF EndOfBatch, Restart, tableVars, brokerVars
  <2>2. has = had /\ runs = ran /\ tries = tried
    BY <1>5, <1>6, <2>1
  <2>3. pays = paid  BY <2>1
  <2> HIDE DEF had, has, paid, pays, ran, runs, tried, tries
  <2>4. has + runs <= pays + tries  BY <1>3, <2>1, <2>2, <2>3
  <2> QED  BY <1>4, <2>4
<1>15. CASE DeclareTopology
  <2>1. UNCHANGED <<sent, failed, locked, late, copies, unrouted, attempts, aborts>>
    BY <1>15 DEF DeclareTopology, tableVars, relayVars
  <2>2. has = had /\ runs = ran /\ tries = tried
    BY <1>5, <1>6, <2>1
  <2>3. pays = paid  BY <2>1
  <2> HIDE DEF had, has, paid, pays, ran, runs, tried, tries
  <2>4. has + runs <= pays + tries  BY <1>3, <2>1, <2>2, <2>3
  <2> QED  BY <1>4, <2>4
<1> QED
  BY <1>7, <1>8, <1>9, <1>10, <1>11, <1>12, <1>13, <1>14, <1>15 DEF Next, RelayStep, BeginOrder,
     EndOrder, EmptyPass, CleanupOutbox, DeleteRows, vars, tableVars

(* Every step keeps the account of the duplicates. *)
LEMMA DupStep == IInv /\ DupInv /\ [Next]_vars => DupInv'
<1> SUFFICES ASSUME IInv, DupInv, [Next]_vars PROVE DupInv'  OBVIOUS
<1>1. PassInv'  BY PassStep DEF DupInv
<1>2. \A e \in Event : Balanced(e)  BY DEF DupInv, DuplicatesAccounted, Balanced
<1>3. \A e \in Event : Balanced(e)'  BY <1>2, AccountStep DEF DupInv
<1> QED  BY <1>1, <1>3 DEF DupInv, DuplicatesAccounted, Balanced

(* publish, UPDATE attempts and the passes that are lost: for any number of *)
(* relays and failures a duplicate in the broker has a failed attempt or a  *)
(* lost pass of its own.                                                    *)
THEOREM DuplicatesArePaidFor == Spec => []DuplicatesAccounted
<1>1. Init => IInv /\ DupInv
  <2> SUFFICES ASSUME Init PROVE DupInv  BY InvInit
  <2>0. TypeOK  BY TypeInit
  <2>1. PassInv  BY DEF Init, PassInv, Working
  <2>2. ASSUME NEW e \in Event PROVE StillRunning(e) = 0 /\ Trying(e) = {}
    <3>1. Trying(e) = {}  BY DEF Init, Trying
    <3>2. \A r \in Relays : LateOf(e)[r] = 0  BY DEF Init, LateOf, NoneLate
    <3>3. SumFunctionOnSet(LateOf(e), Relays) = 0  BY <3>2, RelayAssumption, SumZeros
    <3> QED  BY <2>0, <3>1, <3>3, AccountTypes
  <2>3. \A e \in Event : Cardinality(Trying(e)) = 0
    <3>1. \A e \in Event : Trying(e) = {}  BY <2>2
    <3> QED  BY <3>1, FS_EmptySet
  <2> QED  BY <2>1, <2>2, <2>3 DEF Init, DupInv, DuplicatesAccounted
<1>2. IInv /\ DupInv /\ [Next]_vars => (IInv /\ DupInv)'  BY InvStep, DupStep
<1>3. DupInv => DuplicatesAccounted  BY DEF DupInv
<1> QED  BY <1>1, <1>2, <1>3, PTL DEF Spec

-----------------------------------------------------------------------------
(* The queue only gains copies from the relays. *)
LEMMA CopiesGrow ==
  ASSUME TypeOK, [Next]_vars PROVE \A e \in Event : copies'[e] >= copies[e]
<1>1. CASE copies' = copies  BY <1>1 DEF TypeOK
<1>2. ASSUME NEW e \in Event, Accept(e) PROVE \A f \in Event : copies'[f] >= copies[f]
  <2>1. copies \in [Event -> Nat]  BY DEF TypeOK
  <2>2. CASE topology = "bound"
    <3>1. copies' = [copies EXCEPT ![e] = copies[e] + 1]  BY <1>2, <2>2 DEF Accept
    <3> QED  BY <2>1, <3>1
  <2>3. CASE topology # "bound"
    <3>1. copies' = [copies EXCEPT ![e] = copies[e] + 0]  BY <1>2, <2>3 DEF Accept
    <3> QED  BY <2>1, <3>1
  <2> QED  BY <2>2, <2>3
<1>3. ASSUME NEW r \in Relays, PublishConfirmed(r) \/ PublishFails(r) \/ LatePublish(r)
      PROVE  copies' = copies \/ \E e \in Event : Accept(e)
  <2>1. todo[r] \subseteq Event  BY DEF TypeOK
  <2> QED  BY <1>3, <2>1 DEF PublishConfirmed, PublishFails, LatePublish, Oldest, brokerVars
<1> QED
  BY <1>1, <1>2, <1>3 DEF Next, RelayStep, BeginOrder, EndOrder, SelectBatch, TakeBatch,
     EmptyPass, EndOfBatch, MarkAndCommit, MarkRows, Rollback, Crash, Stop, Restart,
     DeclareTopology, CleanupOutbox, DeleteRows, vars, brokerVars

(* Orders appear one at a time, at COMMIT, and never go away: marking and   *)
(* clean-up keep the order behind a row.                                    *)
LEMMA OrdersStay ==
  ASSUME IInv, [Next]_vars
  PROVE  \/ \A f \in Event : Committed(f)' <=> Committed(f)
         \/ \E e \in Event : /\ ~Committed(e)
                             /\ \A f \in Event : Committed(f)' <=> (Committed(f) \/ f = e)
<1>0. TypeOK  BY DEF IInv
<1> USE DEF Committed
<1>1. CASE row' = row  BY <1>1
<1>2. ASSUME NEW e \in Event, BeginOrder(e) PROVE \A f \in Event : Committed(f)' <=> Committed(f)
  BY <1>0, <1>2 DEF BeginOrder, TypeOK
<1>3. ASSUME NEW e \in Event, EndOrder(e)
      PROVE  \/ \A f \in Event : Committed(f)' <=> Committed(f)
             \/ /\ ~Committed(e)
                /\ \A f \in Event : Committed(f)' <=> (Committed(f) \/ f = e)
  <2>1. PICK s \in {"pending", "rolled back"} : row' = [row EXCEPT ![e] = s]
    BY <1>3 DEF EndOrder
  <2>2. row[e] = "open"  BY <1>3 DEF EndOrder
  <2>3. CASE s = "pending"  BY <1>0, <2>1, <2>2, <2>3 DEF TypeOK
  <2>4. CASE s = "rolled back"
    <3>1. \A f \in Event : row'[f] = IF f = e THEN "rolled back" ELSE row[f]
      BY <1>0, <2>1, <2>4 DEF TypeOK
    <3>2. \A f \in Event : Committed(f)' <=> Committed(f)  BY <2>2, <3>1
    <3> QED  BY <3>2
  <2> QED  BY <2>3, <2>4
<1>4. ASSUME NEW r \in Relays, MarkAndCommit(r)
      PROVE  \A f \in Event : Committed(f)' <=> Committed(f)
  <2>1. \A f \in Event : row'[f] = IF f \in sent[r] THEN "published" ELSE row[f]
    BY <1>4 DEF MarkAndCommit, MarkRows
  <2>2. \A f \in sent[r] : row[f] = "pending"
    BY <1>4 DEF IInv, BatchLocked, BatchesDisjoint, Working, MarkAndCommit, MarkRows
  <2> QED  BY <2>1, <2>2
<1>5. CASE CleanupOutbox
  <2>1. PICK S \in SUBSET {e \in Event : row[e] = "published"} :
          row' = [e \in Event |-> IF e \in S THEN "deleted" ELSE row[e]]
    BY <1>5 DEF CleanupOutbox, DeleteRows
  <2> QED  BY <2>1
<1> QED
  BY <1>1, <1>2, <1>3, <1>4, <1>5 DEF Next, RelayStep, SelectBatch, TakeBatch, EmptyPass,
     PublishConfirmed, PublishFails, LatePublish, EndOfBatch, Rollback, Crash, Stop, Restart,
     DeclareTopology, vars, tableVars
=============================================================================

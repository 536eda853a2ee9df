-------------------------- MODULE Pipeline_proofs --------------------------
(***************************************************************************)
(* The chain outbox -> relays -> queue -> consumers implements OrderEffect *)
(* for any number of orders, relays, consumers and failures.  The proof    *)
(* puts together what is proved of the components: only committed orders   *)
(* reach the queue (Relay_proofs), and only accepted messages take effect, *)
(* once each (Consumer_proofs).                                            *)
(***************************************************************************)
EXTENDS Pipeline, TLAPS

RP == INSTANCE Relay_proofs
CP == INSTANCE Consumer_proofs WITH Poison <- {}

PInv == RP!IInv /\ CP!CInv

-----------------------------------------------------------------------------
(* The two instances of Relay, in Pipeline and here, are the same. *)
LEMMA SameRelay ==
  ASSUME R!Next PROVE RP!Next
  BY DEF R!relayVars, R!tableVars, R!brokerVars, R!vars, R!Committed, R!Marked,
     R!Lockers, R!Oldest, R!Started, R!NoneLate, R!BeginOrder, R!EndOrder,
     R!Eligible, R!IsBatch, R!TakeBatch, R!SelectBatch, R!EmptyPass, R!Accept,
     R!PublishConfirmed, R!PublishFails, R!LatePublish, R!EndOfBatch,
     R!MarkRows, R!MarkAndCommit, R!LosePass, R!Rollback, R!Crash, R!Stop,
     R!Restart, R!DeclareTopology, R!DeleteRows, R!CleanupOutbox, R!RelayStep,
     R!Next, R!Cardinality, RP!relayVars, RP!tableVars, RP!brokerVars, RP!vars,
     RP!Committed, RP!Marked, RP!Lockers, RP!Oldest, RP!Started, RP!NoneLate,
     RP!BeginOrder, RP!EndOrder, RP!Eligible, RP!IsBatch, RP!TakeBatch,
     RP!SelectBatch, RP!EmptyPass, RP!Accept, RP!PublishConfirmed,
     RP!PublishFails, RP!LatePublish, RP!EndOfBatch, RP!MarkRows,
     RP!MarkAndCommit, RP!LosePass, RP!Rollback, RP!Crash, RP!Stop, RP!Restart,
     RP!DeclareTopology, RP!DeleteRows, RP!CleanupOutbox, RP!RelayStep,
     RP!Next, RP!Cardinality

(* The two instances of Consumer are the same. *)
LEMMA SameConsumer ==
  ASSUME C!ConsumerNext PROVE CP!ConsumerNext
  BY DEF C!queueVars, C!storeVars, C!Copy, C!Idle, C!Accepted, C!ReturnCopies,
     C!SettleCopy, C!EndHandler, C!Deliver, C!Readable, C!RejectPoison,
     C!Claiming, C!ClaimKey, C!Claim, C!CommitEffect, C!EnqueueReceipt, C!Ack,
     C!Fail, C!Shutdown, C!ChannelLost, C!Die, C!Exit, C!Kill, C!Restart,
     C!Handle, C!Process, C!ConsumerNext, C!Cardinality, CP!queueVars,
     CP!storeVars, CP!Copy, CP!Idle, CP!Accepted, CP!ReturnCopies,
     CP!SettleCopy, CP!EndHandler, CP!Deliver, CP!Readable, CP!RejectPoison,
     CP!Claiming, CP!ClaimKey, CP!Claim, CP!CommitEffect, CP!EnqueueReceipt,
     CP!Ack, CP!Fail, CP!Shutdown, CP!ChannelLost, CP!Die, CP!Exit, CP!Kill,
     CP!Restart, CP!Handle, CP!Process, CP!ConsumerNext, CP!Cardinality

(* The bound on copies is a number. *)
LEMMA MaxCopiesType == MaxCopies \in Nat
  BY PipelineAssumption DEF MaxCopies

(* Both components start in their invariants. *)
LEMMA PipelineInit == Init => PInv
<1> SUFFICES ASSUME Init PROVE PInv  OBVIOUS
<1>1. RP!Init
  BY DEF Init, R!Init, RP!Init, R!NoneLate, RP!NoneLate
<1>2. CP!Init
  BY DEF Init, R!Init, C!ConsumerInit, CP!Init, CP!ConsumerInit, C!Idle, CP!Idle, C!Copy, CP!Copy
<1>3. RP!IInv
  BY <1>1, PipelineAssumption, RP!InvInit DEF RP!IsFiniteSet, IsFiniteSet
<1>4. CP!CInv
  BY <1>2, PipelineAssumption, MaxCopiesType, CP!ConsumerInvInit
<1> QED  BY <1>3, <1>4 DEF PInv

(* A step of either component keeps both invariants: relays only add copies *)
(* to the queue, consumers do not touch the outbox.                         *)
LEMMA PipelineStep == PInv /\ [Next]_vars => PInv'
<1> SUFFICES ASSUME PInv, [Next]_vars PROVE PInv'  OBVIOUS
<1>1. RP!IInv /\ CP!CInv  BY DEF PInv
<1>2. RP!IInv /\ [RP!Next]_RP!vars => RP!IInv'
  BY PipelineAssumption, RP!InvStep DEF RP!IsFiniteSet, IsFiniteSet
<1>3. CASE (R!Next \/ UNCHANGED relayVars) /\ UNCHANGED consumerVars
  <2>1. [RP!Next]_RP!vars
    BY <1>3, SameRelay DEF relayVars, RP!vars, RP!tableVars, RP!relayVars, RP!brokerVars
  <2>2. RP!IInv'  BY <1>1, <1>2, <2>1
  <2>3. RP!TypeOK /\ RP!TypeOK'  BY <1>1, <2>2 DEF RP!IInv
  <2>4. \A e \in Event : copies'[e] >= copies[e]
    BY <2>1, <2>3, PipelineAssumption, RP!CopiesGrow DEF RP!IsFiniteSet, IsFiniteSet
  <2>5. copies' \in [Event -> Nat]  BY <2>3 DEF RP!TypeOK
  <2>6. UNCHANGED <<place, returns, unacked, up, step, inbox, effects, applied, jobs>>
    BY <1>3 DEF consumerVars
  <2>7. CP!CInv'
    BY <1>1, <2>4, <2>5, <2>6, PipelineAssumption, MaxCopiesType, CP!PublishStep
  <2> QED  BY <2>2, <2>7 DEF PInv
<1>4. CASE C!ConsumerNext /\ UNCHANGED relayVars
  <2>1. CP!CInv'
    BY <1>1, <1>4, SameConsumer, PipelineAssumption, MaxCopiesType, CP!ConsumerStep
  <2>2. UNCHANGED RP!vars
    BY <1>4 DEF relayVars, RP!vars, RP!tableVars, RP!relayVars, RP!brokerVars
  <2>3. RP!IInv'  BY <1>1, <1>2, <2>2
  <2> QED  BY <2>1, <2>3 DEF PInv
<1> QED  BY <1>3, <1>4 DEF Next, vars

-----------------------------------------------------------------------------
(* An empty outbox and no effects: the abstract initial state. *)
LEMMA RefineInit == Init => A!Init
<1> SUFFICES ASSUME Init PROVE A!Init  OBVIOUS
<1>1. \A e \in Event : ~R!Committed(e)  BY DEF Init, R!Init, R!Committed
<1>2. applied = [e \in Event |-> 0]  BY DEF Init, C!ConsumerInit
<1> QED  BY <1>1, <1>2 DEF A!Init

(* Every step places one order, applies one placed order's effect for the   *)
(* first time, or is invisible.                                             *)
LEMMA RefineStep == PInv /\ [Next]_vars => [A!Next]_A!vars
<1> SUFFICES ASSUME PInv, [Next]_vars PROVE [A!Next]_A!vars  OBVIOUS
<1>1. RP!IInv /\ CP!CInv  BY DEF PInv
<1>2. CASE (R!Next \/ UNCHANGED relayVars) /\ UNCHANGED consumerVars
  <2>1. [RP!Next]_RP!vars
    BY <1>2, SameRelay DEF relayVars, RP!vars, RP!tableVars, RP!relayVars, RP!brokerVars
  <2>2. \/ \A f \in Event : RP!Committed(f)' <=> RP!Committed(f)
        \/ \E e \in Event : /\ ~RP!Committed(e)
                            /\ \A f \in Event : RP!Committed(f)' <=> (RP!Committed(f) \/ f = e)
    BY <1>1, <2>1, PipelineAssumption, RP!OrdersStay DEF RP!IsFiniteSet, IsFiniteSet
  <2>3. applied' = applied  BY <1>2 DEF consumerVars
  <2>4. CASE \A f \in Event : RP!Committed(f)' <=> RP!Committed(f)
    <3>1. {e \in Event : R!Committed(e)}' = {e \in Event : R!Committed(e)}
      BY <2>4 DEF R!Committed, RP!Committed
    <3> QED  BY <2>3, <3>1 DEF A!vars
  <2>5. ASSUME NEW e \in Event, ~RP!Committed(e),
               \A f \in Event : RP!Committed(f)' <=> (RP!Committed(f) \/ f = e)
        PROVE  A!Place(e)
    <3>1. e \notin {f \in Event : R!Committed(f)}
      BY <2>5 DEF R!Committed, RP!Committed
    <3>2. {f \in Event : R!Committed(f)}' = {f \in Event : R!Committed(f)} \union {e}
      BY <2>5 DEF R!Committed, RP!Committed
    <3> QED  BY <2>3, <3>1, <3>2 DEF A!Place
  <2> QED  BY <2>2, <2>4, <2>5 DEF A!Next
<1>3. CASE C!ConsumerNext /\ UNCHANGED relayVars
  <2>1. \/ applied' = applied
        \/ \E e \in Event : /\ applied[e] = 0 /\ copies[e] >= 1
                            /\ applied' = [applied EXCEPT ![e] = 1]
    BY <1>1, <1>3, SameConsumer, PipelineAssumption, MaxCopiesType, CP!AppliesOnce
  <2>2. {e \in Event : R!Committed(e)}' = {e \in Event : R!Committed(e)}
    BY <1>3 DEF relayVars, R!Committed
  <2>3. CASE applied' = applied  BY <2>2, <2>3 DEF A!vars
  <2>4. ASSUME NEW e \in Event, applied[e] = 0, copies[e] >= 1,
               applied' = [applied EXCEPT ![e] = 1]
        PROVE  A!Apply(e)
    <3>1. copies[e] \in Nat /\ unrouted[e] \in Nat  BY <1>1 DEF RP!IInv, RP!TypeOK
    <3>2. RP!Committed(e)
      BY <1>1, <2>4, <3>1 DEF RP!IInv, RP!OnlyCommittedPublished
    <3>3. e \in {f \in Event : R!Committed(f)}  BY <3>2 DEF R!Committed, RP!Committed
    <3> QED  BY <2>2, <2>4, <3>3 DEF A!Apply
  <2> QED  BY <2>1, <2>3, <2>4 DEF A!Next
<1> QED  BY <1>2, <1>3 DEF Next, vars

(* The pipeline implements OrderEffect: end to end, an order's effect is    *)
(* applied only after its transaction committed, at most once, and stays.   *)
THEOREM PipelineImplements == Spec => ImplementsOrderEffect
<1> QED
  BY PipelineInit, PipelineStep, RefineInit, RefineStep, PTL
  DEF Spec, ImplementsOrderEffect, A!Spec

-----------------------------------------------------------------------------
(* Both invariants hold throughout. *)
THEOREM PipelineInvariant == Spec => []PInv
<1> QED  BY PipelineInit, PipelineStep, PTL DEF Spec

(* An outbox row is cleaned up only when its event has taken effect and has *)
(* its receipt job, or a copy of it is in the queue, the DLQ or             *)
(* shop.unrouted: the mark follows a stored copy, and the ack of a copy     *)
(* follows effect and job.                                                  *)
THEOREM ChainLosesNothing == Spec => []NothingLost
<1>1. ASSUME PInv PROVE NothingLost
  <2>1. SUFFICES ASSUME NEW e \in Event, row[e] = "deleted", ~ (unrouted[e] > 0)
                 PROVE  \/ e \in effects /\ e \in jobs
                        \/ \E c \in C!Copy : c[1] = e /\ C!Accepted(c) /\ place[c] # "acked"
    BY DEF NothingLost
  <2>2. copies[e] \in Nat /\ unrouted[e] \in Nat
    BY <1>1 DEF PInv, RP!IInv, RP!TypeOK
  <2>3. copies[e] >= 1
    BY <1>1, <2>1, <2>2 DEF PInv, RP!IInv, RP!MarkedReachedBroker, RP!Marked
  <2> DEFINE c == <<e, 1>>
  <2>4. c \in CP!Copy /\ c \in C!Copy
    BY PipelineAssumption DEF CP!Copy, C!Copy, MaxCopies
  <2>5. CASE place[c] # "acked"  BY <2>3, <2>4, <2>5 DEF C!Accepted
  <2>6. CASE place[c] = "acked"
    BY <1>1, <2>4, <2>6 DEF PInv, CP!CInv, CP!AckedIsComplete, CP!EffectOnce
  <2> QED  BY <2>5, <2>6
<1> QED  BY <1>1, PipelineInvariant, PTL
=============================================================================

-------------------------- MODULE Consumer_proofs --------------------------
(***************************************************************************)
(* Proofs about Consumer, for any number of events, copies, consumers, any *)
(* prefetch and any delivery limit.  EffectOnce is not inductive: between  *)
(* the INSERT into the inbox and COMMIT the claim lives only in the        *)
(* handler.  The inductive invariant says what each handler knows at each  *)
(* of its steps, handlers of closed channels included.                     *)
(***************************************************************************)
EXTENDS Consumer, TLAPS

(* An uncommitted claim is of a key the inbox does not have, and no other  *)
(* handler has it: the unique index makes the second INSERT wait.          *)
ClaimsExclusive ==
  /\ \A w \in Consumers, c \in Copy : step[w][c] = "claimed" => c[1] \notin inbox
  /\ \A w, v \in Consumers, c, d \in Copy :
       step[w][c] = "claimed" /\ step[v][d] = "claimed" /\ c[1] = d[1]
         => w = v /\ c = d

(* A handler past its transaction works on a committed effect, one about   *)
(* to ack has its receipt job.                                             *)
HandlersCommitted ==
  \A w \in Consumers, c \in Copy :
    /\ step[w][c] \in {"applied", "enqueued"} => c[1] \in inbox
    /\ step[w][c] = "enqueued" => c[1] \in jobs

(* Handlers run for accepted messages; past parseOrderPlaced, readable ones. *)
HandlersHaveMessage ==
  \A w \in Consumers, c \in Copy :
    /\ step[w][c] # "none" => Accepted(c)
    /\ step[w][c] \in {"claimed", "applied", "enqueued"} => Readable(c)

(* What a channel holds unacknowledged is what the broker has out. *)
UnackedIsOut ==
  \A w \in Consumers, c \in Copy : c \in unacked[w] => place[c] = "unacked"

CInv ==
  /\ TypeOK
  /\ ClaimsExclusive
  /\ HandlersCommitted
  /\ HandlersHaveMessage
  /\ UnackedIsOut
  /\ EffectOnce
  /\ AckedIsComplete
  /\ EffectNeedsMessage

-----------------------------------------------------------------------------
(* A copy is an event and a positive number. *)
LEMMA CopyParts ==
  ASSUME NEW c \in Copy PROVE c[1] \in Event /\ c[2] \in Nat /\ c[2] >= 1
  BY ConsumerAssumption DEF Copy

(* An accepted copy is one the queue has counted. *)
LEMMA AcceptedCounts ==
  ASSUME TypeOK, NEW c \in Copy, Accepted(c) PROVE copies[c[1]] >= 1
  BY CopyParts DEF TypeOK, Accepted

(* What an assignment to one handler's step does. *)
LEMMA SetStep ==
  ASSUME TypeOK, NEW w \in Consumers, NEW c \in Copy, NEW s \in Steps,
         step' = [step EXCEPT ![w][c] = s]
  PROVE  /\ step' \in [Consumers -> [Copy -> Steps]]
         /\ \A v \in Consumers, d \in Copy :
              step'[v][d] = IF v = w /\ d = c THEN s ELSE step[v][d]
<1>1. step \in [Consumers -> [Copy -> Steps]]  BY DEF TypeOK
<1>2. step' = [step EXCEPT ![w] = [step[w] EXCEPT ![c] = s]]  OBVIOUS
<1>3. [step[w] EXCEPT ![c] = s] \in [Copy -> Steps]  BY <1>1
<1> QED  BY <1>1, <1>2, <1>3

(* A handler that ends takes no other handler along. *)
LEMMA ClearStep ==
  ASSUME TypeOK, NEW w \in Consumers, NEW c \in Copy,
         step' = [step EXCEPT ![w][c] = "none"]
  PROVE  /\ step' \in [Consumers -> [Copy -> Steps]]
         /\ \A v \in Consumers, d \in Copy : step'[v][d] \in {step[v][d], "none"}
<1>1. "none" \in Steps  BY DEF Steps
<1>2. /\ step' \in [Consumers -> [Copy -> Steps]]
      /\ \A v \in Consumers, d \in Copy :
           step'[v][d] = IF v = w /\ d = c THEN "none" ELSE step[v][d]
  BY <1>1, SetStep
<1> QED  BY <1>2

(* Returning messages S a channel holds: only their place changes, and none *)
(* of them becomes acknowledged.                                            *)
LEMMA ReturnFacts ==
  ASSUME TypeOK, UnackedIsOut, NEW w \in Consumers,
         NEW S \in SUBSET Copy, S \subseteq unacked[w], ReturnCopies(S)
  PROVE  /\ place' \in [Copy -> Places]
         /\ returns' \in [Copy -> 0 .. DeliveryLimit]
         /\ unacked' \in [Consumers -> SUBSET Copy]
         /\ UnackedIsOut'
         /\ \A d \in Copy : d \notin S => place'[d] = place[d]
         /\ \A d \in S : place[d] = "unacked" /\ place'[d] \in {"queue", "dlq"}
<1>1. place' \in [Copy -> Places]
      /\ \A d \in Copy : place'[d] = IF d \notin S THEN place[d]
                            ELSE IF returns[d] < DeliveryLimit THEN "queue" ELSE "dlq"
  BY DEF ReturnCopies, TypeOK, Places
<1>2. returns' \in [Copy -> 0 .. DeliveryLimit]
  <2>1. ASSUME NEW d \in Copy
        PROVE (IF d \in S /\ returns[d] < DeliveryLimit THEN returns[d] + 1 ELSE returns[d])
                \in 0 .. DeliveryLimit
    BY ConsumerAssumption DEF TypeOK
  <2> QED  BY <2>1 DEF ReturnCopies
<1>3. unacked' \in [Consumers -> SUBSET Copy]
      /\ \A v \in Consumers : unacked'[v] = unacked[v] \ S
  BY DEF ReturnCopies, TypeOK
<1>4. UnackedIsOut'
  BY <1>1, <1>3 DEF UnackedIsOut
<1> QED  BY <1>1, <1>2, <1>3, <1>4 DEF UnackedIsOut

(* ack or reject(false) of a message a channel holds. *)
LEMMA SettleFacts ==
  ASSUME TypeOK, UnackedIsOut, NEW c \in Copy, NEW p \in {"acked", "dlq"}, SettleCopy(c, p)
  PROVE  /\ place' \in [Copy -> Places]
         /\ returns' \in [Copy -> 0 .. DeliveryLimit]
         /\ unacked' \in [Consumers -> SUBSET Copy]
         /\ UnackedIsOut'
         /\ place'[c] = p
         /\ \A d \in Copy : d # c => place'[d] = place[d]
<1>1. place' \in [Copy -> Places]
      /\ \A d \in Copy : place'[d] = IF d = c THEN p ELSE place[d]
  BY DEF SettleCopy, TypeOK, Places
<1>2. returns' \in [Copy -> 0 .. DeliveryLimit]
  BY DEF SettleCopy, TypeOK
<1>3. unacked' \in [Consumers -> SUBSET Copy]
      /\ \A v \in Consumers : unacked'[v] = unacked[v] \ {c}
  BY DEF SettleCopy, TypeOK
<1>4. UnackedIsOut'
  BY <1>1, <1>3 DEF UnackedIsOut
<1> QED  BY <1>1, <1>2, <1>3, <1>4

(* A step that only ends handlers and moves messages, without changing the  *)
(* database, keeps the invariant if what it acknowledges is complete.       *)
LEMMA QueueStep ==
  ASSUME CInv,
         place' \in [Copy -> Places], returns' \in [Copy -> 0 .. DeliveryLimit],
         unacked' \in [Consumers -> SUBSET Copy],
         up' \in [Consumers -> {"up", "stopping", "broken", "down"}],
         step' \in [Consumers -> [Copy -> Steps]],
         \A v \in Consumers, d \in Copy : step'[v][d] \in {step[v][d], "none"},
         UNCHANGED <<copies, inbox, effects, applied, jobs>>,
         UnackedIsOut', AckedIsComplete'
  PROVE  CInv'
<1>1. TypeOK'  BY DEF CInv, TypeOK
<1>2. ClaimsExclusive'
  <2>1. \A v \in Consumers, d \in Copy : step'[v][d] = "claimed" => step[v][d] = "claimed"
    OBVIOUS
  <2> QED  BY <2>1 DEF CInv, ClaimsExclusive
<1>3. HandlersCommitted'
  <2>1. \A v \in Consumers, d \in Copy :
          step'[v][d] \in {"applied", "enqueued"} => step[v][d] = step'[v][d]
    OBVIOUS
  <2> QED  BY <2>1 DEF CInv, HandlersCommitted
<1>4. HandlersHaveMessage'
  <2>1. \A v \in Consumers, d \in Copy : step'[v][d] # "none" => step[v][d] = step'[v][d]
    OBVIOUS
  <2> QED  BY <2>1 DEF CInv, HandlersHaveMessage, Accepted, Readable
<1>5. EffectOnce' /\ EffectNeedsMessage'
  BY DEF CInv, EffectOnce, EffectNeedsMessage
<1> QED  BY <1>1, <1>2, <1>3, <1>4, <1>5 DEF CInv

(* Shutdown, the loss of a channel and the death of a process. *)
LEMMA ReturnStep ==
  ASSUME CInv, NEW w \in Consumers, NEW S \in SUBSET Copy, S \subseteq unacked[w],
         ReturnCopies(S),
         up' \in [Consumers -> {"up", "stopping", "broken", "down"}],
         step' \in [Consumers -> [Copy -> Steps]],
         \A v \in Consumers, d \in Copy : step'[v][d] \in {step[v][d], "none"},
         UNCHANGED <<copies, inbox, effects, applied, jobs>>
  PROVE  CInv'
<1>1. TypeOK /\ UnackedIsOut /\ AckedIsComplete  BY DEF CInv
<1>2. /\ place' \in [Copy -> Places]
      /\ returns' \in [Copy -> 0 .. DeliveryLimit]
      /\ unacked' \in [Consumers -> SUBSET Copy]
      /\ UnackedIsOut'
      /\ \A d \in Copy : d \notin S => place'[d] = place[d]
      /\ \A d \in S : place[d] = "unacked" /\ place'[d] \in {"queue", "dlq"}
  BY <1>1, ReturnFacts
<1>3. AckedIsComplete'
  BY <1>1, <1>2 DEF AckedIsComplete
<1> QED  BY <1>2, <1>3, QueueStep

(* A handler that ends without touching the broker: its channel is closed. *)
LEMMA EndSilently ==
  ASSUME CInv, NEW w \in Consumers, NEW c \in Copy,
         step' = [step EXCEPT ![w][c] = "none"],
         UNCHANGED <<copies, place, returns, unacked, up, inbox, effects, applied, jobs>>
  PROVE  CInv'
<1>1. TypeOK /\ UnackedIsOut /\ AckedIsComplete  BY DEF CInv
<1>3. step' \in [Consumers -> [Copy -> Steps]]
      /\ \A v \in Consumers, d \in Copy : step'[v][d] \in {step[v][d], "none"}
  BY <1>1, ClearStep
<1>4. UnackedIsOut' /\ AckedIsComplete'
  BY <1>1 DEF UnackedIsOut, AckedIsComplete
<1>5. /\ place' \in [Copy -> Places] /\ returns' \in [Copy -> 0 .. DeliveryLimit]
      /\ unacked' \in [Consumers -> SUBSET Copy]
      /\ up' \in [Consumers -> {"up", "stopping", "broken", "down"}]
  BY <1>1 DEF TypeOK
<1> QED  BY <1>3, <1>4, <1>5, QueueStep

(* A handler that settles its message: p is "dlq", or "acked" for a message *)
(* whose effect and receipt job exist.                                      *)
LEMMA EndSettling ==
  ASSUME CInv, NEW w \in Consumers, NEW c \in Copy, NEW p \in {"acked", "dlq"},
         step' = [step EXCEPT ![w][c] = "none"], SettleCopy(c, p),
         p = "acked" => c[1] \in inbox /\ c[1] \in jobs,
         UNCHANGED <<copies, up, inbox, effects, applied, jobs>>
  PROVE  CInv'
<1>1. TypeOK /\ UnackedIsOut /\ AckedIsComplete  BY DEF CInv
<1>3. step' \in [Consumers -> [Copy -> Steps]]
      /\ \A v \in Consumers, d \in Copy : step'[v][d] \in {step[v][d], "none"}
  BY <1>1, ClearStep
<1>4. /\ place' \in [Copy -> Places]
      /\ returns' \in [Copy -> 0 .. DeliveryLimit]
      /\ unacked' \in [Consumers -> SUBSET Copy]
      /\ UnackedIsOut'
      /\ place'[c] = p
      /\ \A d \in Copy : d # c => place'[d] = place[d]
  BY <1>1, SettleFacts
<1>5. AckedIsComplete'
  BY <1>1, <1>4 DEF AckedIsComplete
<1>6. up' \in [Consumers -> {"up", "stopping", "broken", "down"}]
  BY <1>1 DEF TypeOK
<1> QED  BY <1>3, <1>4, <1>5, <1>6, QueueStep

-----------------------------------------------------------------------------
(* The queue accepts another copy. *)
LEMMA PublishStep ==
  ASSUME CInv, copies' \in [Event -> Nat], \A e \in Event : copies'[e] >= copies[e],
         UNCHANGED <<place, returns, unacked, up, step, inbox, effects, applied, jobs>>
  PROVE  CInv'
<1>1. TypeOK'  BY DEF CInv, TypeOK
<1>2. \A c \in Copy : Accepted(c) => Accepted(c)'
  <2> SUFFICES ASSUME NEW c \in Copy, Accepted(c) PROVE Accepted(c)'  OBVIOUS
  <2>1. copies[c[1]] \in Nat /\ copies'[c[1]] \in Nat /\ c[2] \in Nat
        /\ copies'[c[1]] >= copies[c[1]] /\ c[2] <= copies[c[1]]
    BY CopyParts DEF CInv, TypeOK, Accepted
  <2> QED  BY <2>1 DEF Accepted
<1>3. HandlersHaveMessage'
  BY <1>2 DEF CInv, HandlersHaveMessage, Readable
<1>4. EffectNeedsMessage'
  <2> SUFFICES ASSUME NEW e \in inbox \union jobs
               PROVE copies'[e] >= 1 /\ e \notin Poison
    BY DEF EffectNeedsMessage
  <2>1. e \in Event /\ copies[e] \in Nat /\ copies'[e] \in Nat /\ copies'[e] >= copies[e]
    BY DEF CInv, TypeOK
  <2>2. copies[e] >= 1 /\ e \notin Poison  BY DEF CInv, EffectNeedsMessage
  <2> QED  BY <2>1, <2>2
<1>5. ClaimsExclusive' /\ HandlersCommitted' /\ UnackedIsOut' /\ EffectOnce' /\ AckedIsComplete'
  BY DEF CInv, ClaimsExclusive, HandlersCommitted, UnackedIsOut, EffectOnce, AckedIsComplete
<1> QED  BY <1>1, <1>3, <1>4, <1>5 DEF CInv

(* A delivery starts a handler. *)
LEMMA DeliverStep ==
  ASSUME CInv, NEW w \in Consumers, NEW c \in Copy, Deliver(w, c) PROVE CInv'
<1>1. TypeOK  BY DEF CInv
<1>2. "received" \in Steps  BY DEF Steps
<1>3. step' = [step EXCEPT ![w][c] = "received"]  BY DEF Deliver
<1>4. /\ step' \in [Consumers -> [Copy -> Steps]]
      /\ \A v \in Consumers, d \in Copy :
           step'[v][d] = IF v = w /\ d = c THEN "received" ELSE step[v][d]
  BY <1>1, <1>2, <1>3, SetStep, ZenonT(30)
<1>5. /\ place' \in [Copy -> Places]
      /\ \A d \in Copy : place'[d] = IF d = c THEN "unacked" ELSE place[d]
  BY <1>1 DEF Deliver, TypeOK, Places
<1>6. /\ unacked' \in [Consumers -> SUBSET Copy]
      /\ \A v \in Consumers : unacked'[v] = IF v = w THEN unacked[v] \union {c} ELSE unacked[v]
  BY <1>1 DEF Deliver, TypeOK
<1>7. UNCHANGED <<copies, returns, up, inbox, effects, applied, jobs>>
  BY DEF Deliver, storeVars
<1>8. TypeOK'  BY <1>1, <1>4, <1>5, <1>6, <1>7 DEF TypeOK
<1>9. ClaimsExclusive'
  <2>1. \A v \in Consumers, d \in Copy : step'[v][d] = "claimed" => step[v][d] = "claimed"
    BY <1>4
  <2> QED  BY <1>7, <2>1 DEF CInv, ClaimsExclusive
<1>10. HandlersCommitted'
  BY <1>4, <1>7 DEF CInv, HandlersCommitted
<1>11. HandlersHaveMessage'
  <2>1. Accepted(c)  BY DEF Deliver
  <2> QED  BY <1>4, <1>7, <2>1 DEF CInv, HandlersHaveMessage, Accepted, Readable
<1>12. UnackedIsOut'
  BY <1>5, <1>6 DEF CInv, UnackedIsOut
<1>13. AckedIsComplete'
  BY <1>5, <1>7 DEF CInv, AckedIsComplete
<1>14. EffectOnce' /\ EffectNeedsMessage'
  BY <1>7 DEF CInv, EffectOnce, EffectNeedsMessage
<1> QED  BY <1>8, <1>9, <1>10, <1>11, <1>12, <1>13, <1>14 DEF CInv

(* INSERT INTO processed_messages: a duplicate, or the one open claim. *)
LEMMA ClaimStep ==
  ASSUME CInv, NEW w \in Consumers, NEW c \in Copy, Claim(w, c) PROVE CInv'
<1>1. TypeOK  BY DEF CInv
<1>2. UNCHANGED <<copies, place, returns, unacked, up, inbox, effects, applied, jobs>>
  BY DEF Claim, ClaimKey, queueVars, storeVars
<1>3. step[w][c] = "received" /\ Readable(c)  BY DEF Claim, ClaimKey
<1>4. Accepted(c)  BY <1>3 DEF CInv, HandlersHaveMessage
<1>5. UnackedIsOut' /\ AckedIsComplete' /\ EffectOnce' /\ EffectNeedsMessage'
  BY <1>2 DEF CInv, UnackedIsOut, AckedIsComplete, EffectOnce, EffectNeedsMessage
<1>6. CASE c[1] \in inbox /\ step' = [step EXCEPT ![w][c] = "applied"]
  <2>1. "applied" \in Steps  BY DEF Steps
  <2>2. /\ step' \in [Consumers -> [Copy -> Steps]]
        /\ \A v \in Consumers, d \in Copy :
             step'[v][d] = IF v = w /\ d = c THEN "applied" ELSE step[v][d]
    BY <1>1, <1>6, <2>1, SetStep, ZenonT(30)
  <2>3. TypeOK'  BY <1>1, <1>2, <2>2 DEF TypeOK
  <2>4. ClaimsExclusive'
    <3>1. \A v \in Consumers, d \in Copy : step'[v][d] = "claimed" => step[v][d] = "claimed"
      BY <2>2
    <3> QED  BY <1>2, <3>1 DEF CInv, ClaimsExclusive
  <2>5. HandlersCommitted'  BY <1>2, <1>6, <2>2 DEF CInv, HandlersCommitted
  <2>6. HandlersHaveMessage'
    BY <1>2, <1>3, <1>4, <2>2 DEF CInv, HandlersHaveMessage, Accepted, Readable
  <2> QED  BY <1>5, <2>3, <2>4, <2>5, <2>6 DEF CInv
<1>7. CASE /\ c[1] \notin inbox /\ Claiming(c[1]) = {}
           /\ step' = [step EXCEPT ![w][c] = "claimed"]
  <2>1. "claimed" \in Steps  BY DEF Steps
  <2>2. /\ step' \in [Consumers -> [Copy -> Steps]]
        /\ \A v \in Consumers, d \in Copy :
             step'[v][d] = IF v = w /\ d = c THEN "claimed" ELSE step[v][d]
    BY <1>1, <1>7, <2>1, SetStep, ZenonT(30)
  <2>3. TypeOK'  BY <1>1, <1>2, <2>2 DEF TypeOK
  <2>4. ClaimsExclusive'
    <3>1. \A v \in Consumers, d \in Copy : d[1] = c[1] => step[v][d] # "claimed"
      BY <1>7 DEF Claiming
    <3>2. \A v \in Consumers, d \in Copy : step'[v][d] = "claimed" => d[1] \notin inbox'
      BY <1>2, <1>7, <2>2 DEF CInv, ClaimsExclusive
    <3>3. ASSUME NEW v \in Consumers, NEW u \in Consumers, NEW d \in Copy, NEW f \in Copy,
                 step'[v][d] = "claimed", step'[u][f] = "claimed", d[1] = f[1]
          PROVE  v = u /\ d = f
      <4>1. CASE (v = w /\ d = c) \/ (u = w /\ f = c)
        BY <2>2, <3>1, <3>3, <4>1
      <4>2. CASE ~(v = w /\ d = c) /\ ~(u = w /\ f = c)
        <5>1. step[v][d] = "claimed" /\ step[u][f] = "claimed"  BY <2>2, <3>3, <4>2
        <5> QED  BY <3>3, <5>1 DEF CInv, ClaimsExclusive
      <4> QED  BY <4>1, <4>2
    <3> QED  BY <3>2, <3>3 DEF ClaimsExclusive
  <2>5. HandlersCommitted'  BY <1>2, <2>2 DEF CInv, HandlersCommitted
  <2>6. HandlersHaveMessage'
    BY <1>2, <1>3, <1>4, <2>2 DEF CInv, HandlersHaveMessage, Accepted, Readable
  <2> QED  BY <1>5, <2>3, <2>4, <2>5, <2>6 DEF CInv
<1> QED  BY <1>6, <1>7 DEF Claim, ClaimKey

(* The effect's transaction commits: nobody else held the key. *)
LEMMA CommitStep ==
  ASSUME CInv, NEW w \in Consumers, NEW c \in Copy, CommitEffect(w, c) PROVE CInv'
<1>1. TypeOK  BY DEF CInv
<1>2. c[1] \in Event  BY CopyParts
<1>3. /\ step[w][c] = "claimed"
      /\ inbox' = inbox \union {c[1]} /\ effects' = effects \union {c[1]}
      /\ applied' = [applied EXCEPT ![c[1]] = @ + 1]
      /\ step' = [step EXCEPT ![w][c] = "applied"]
      /\ UNCHANGED <<copies, place, returns, unacked, up, jobs>>
  BY DEF CommitEffect, queueVars
<1>4. "applied" \in Steps  BY DEF Steps
<1>5. /\ step' \in [Consumers -> [Copy -> Steps]]
      /\ \A v \in Consumers, d \in Copy :
           step'[v][d] = IF v = w /\ d = c THEN "applied" ELSE step[v][d]
  BY <1>1, <1>3, <1>4, SetStep, ZenonT(30)
<1>6. /\ applied' \in [Event -> Nat]
      /\ \A e \in Event : applied'[e] = IF e = c[1] THEN applied[e] + 1 ELSE applied[e]
  BY <1>1, <1>2, <1>3 DEF TypeOK
<1>7. TypeOK'  BY <1>1, <1>2, <1>3, <1>5, <1>6 DEF TypeOK
<1>8. c[1] \notin inbox  BY <1>3 DEF CInv, ClaimsExclusive
<1>9. ClaimsExclusive'
  <2>1. \A v \in Consumers, d \in Copy :
          step'[v][d] = "claimed" => step[v][d] = "claimed" /\ d[1] # c[1]
    BY <1>3, <1>5 DEF CInv, ClaimsExclusive
  <2> QED  BY <1>3, <2>1 DEF CInv, ClaimsExclusive
<1>10. HandlersCommitted'  BY <1>3, <1>5 DEF CInv, HandlersCommitted
<1>11. Accepted(c) /\ Readable(c)  BY <1>3 DEF CInv, HandlersHaveMessage
<1>12. HandlersHaveMessage'
  BY <1>3, <1>5, <1>11 DEF CInv, HandlersHaveMessage, Accepted, Readable
<1>13. UnackedIsOut' /\ AckedIsComplete'
  BY <1>3 DEF CInv, UnackedIsOut, AckedIsComplete
<1>14. EffectOnce'
  BY <1>3, <1>6, <1>8 DEF CInv, EffectOnce
<1>15. EffectNeedsMessage'
  <2>1. copies[c[1]] >= 1 /\ c[1] \notin Poison  BY <1>1, <1>11, AcceptedCounts DEF Readable
  <2> QED  BY <1>3, <2>1 DEF CInv, EffectNeedsMessage
<1> QED  BY <1>7, <1>9, <1>10, <1>12, <1>13, <1>14, <1>15 DEF CInv

(* The receipt job is added for an effect that is committed. *)
LEMMA EnqueueStep ==
  ASSUME CInv, NEW w \in Consumers, NEW c \in Copy, EnqueueReceipt(w, c) PROVE CInv'
<1>1. TypeOK  BY DEF CInv
<1>2. c[1] \in Event  BY CopyParts
<1>3. /\ step[w][c] = "applied"
      /\ jobs' = jobs \union {c[1]}
      /\ step' = [step EXCEPT ![w][c] = "enqueued"]
      /\ UNCHANGED <<copies, place, returns, unacked, up, inbox, effects, applied>>
  BY DEF EnqueueReceipt, queueVars, storeVars
<1>4. "enqueued" \in Steps  BY DEF Steps
<1>5. /\ step' \in [Consumers -> [Copy -> Steps]]
      /\ \A v \in Consumers, d \in Copy :
           step'[v][d] = IF v = w /\ d = c THEN "enqueued" ELSE step[v][d]
  BY <1>1, <1>3, <1>4, SetStep, ZenonT(30)
<1>6. TypeOK'  BY <1>1, <1>2, <1>3, <1>5 DEF TypeOK
<1>7. ClaimsExclusive'
  <2>1. \A v \in Consumers, d \in Copy : step'[v][d] = "claimed" => step[v][d] = "claimed"
    BY <1>5
  <2> QED  BY <1>3, <2>1 DEF CInv, ClaimsExclusive
<1>8. c[1] \in inbox  BY <1>3 DEF CInv, HandlersCommitted
<1>9. HandlersCommitted'  BY <1>3, <1>5, <1>8 DEF CInv, HandlersCommitted
<1>10. Accepted(c) /\ Readable(c)  BY <1>3 DEF CInv, HandlersHaveMessage
<1>11. HandlersHaveMessage'
  BY <1>3, <1>5, <1>10 DEF CInv, HandlersHaveMessage, Accepted, Readable
<1>12. UnackedIsOut' /\ AckedIsComplete' /\ EffectOnce'
  BY <1>3 DEF CInv, UnackedIsOut, AckedIsComplete, EffectOnce
<1>13. EffectNeedsMessage'
  BY <1>3, <1>8 DEF CInv, EffectNeedsMessage
<1> QED  BY <1>6, <1>7, <1>9, <1>11, <1>12, <1>13 DEF CInv

-----------------------------------------------------------------------------
(* Every handler and process step keeps the invariant. *)
LEMMA ConsumerStep ==
  ASSUME CInv, ConsumerNext PROVE CInv'
<1> USE DEF CInv
<1>1. ASSUME NEW w \in Consumers, NEW c \in Copy, RejectPoison(w, c) PROVE CInv'
  <2>1. step' = [step EXCEPT ![w][c] = "none"]
        /\ UNCHANGED <<copies, up, inbox, effects, applied, jobs>>
    BY <1>1 DEF RejectPoison, EndHandler, storeVars
  <2>2. CASE c \in unacked[w]
    <3>1. SettleCopy(c, "dlq")  BY <1>1, <2>2 DEF RejectPoison, EndHandler
    <3> QED  BY <2>1, <3>1, EndSettling
  <2>3. CASE c \notin unacked[w]
    BY <1>1, <2>1, <2>3, EndSilently DEF RejectPoison, EndHandler, queueVars
  <2> QED  BY <2>2, <2>3
<1>2. ASSUME NEW w \in Consumers, NEW c \in Copy, Ack(w, c) PROVE CInv'
  <2>1. step' = [step EXCEPT ![w][c] = "none"]
        /\ UNCHANGED <<copies, up, inbox, effects, applied, jobs>>
    BY <1>2 DEF Ack, EndHandler, storeVars
  <2>2. c[1] \in inbox /\ c[1] \in jobs
    BY <1>2 DEF Ack, HandlersCommitted
  <2>3. CASE c \in unacked[w]
    <3>1. SettleCopy(c, "acked")  BY <1>2, <2>3 DEF Ack, EndHandler
    <3> QED  BY <2>1, <2>2, <3>1, EndSettling
  <2>4. CASE c \notin unacked[w]
    BY <1>2, <2>1, <2>4, EndSilently DEF Ack, EndHandler, queueVars
  <2> QED  BY <2>3, <2>4
<1>3. ASSUME NEW w \in Consumers, NEW c \in Copy, Fail(w, c) PROVE CInv'
  <2>1. step' = [step EXCEPT ![w][c] = "none"]
        /\ UNCHANGED <<copies, up, inbox, effects, applied, jobs>>
    BY <1>3 DEF Fail, EndHandler, storeVars
  <2>2. CASE c \in unacked[w]
    <3>1. ReturnCopies({c})  BY <1>3, <2>2 DEF Fail, EndHandler
    <3>2. step' \in [Consumers -> [Copy -> Steps]]
          /\ \A v \in Consumers, d \in Copy : step'[v][d] \in {step[v][d], "none"}
      BY <2>1, ClearStep
    <3>3. up' \in [Consumers -> {"up", "stopping", "broken", "down"}]
      BY <2>1 DEF TypeOK
    <3>4. {c} \in SUBSET Copy /\ {c} \subseteq unacked[w]  BY <2>2
    <3> HIDE DEF CInv
    <3> QED  BY <2>1, <3>1, <3>2, <3>3, <3>4, ReturnStep
  <2>3. CASE c \notin unacked[w]
    BY <1>3, <2>1, <2>3, EndSilently DEF Fail, EndHandler, queueVars
  <2> QED  BY <2>2, <2>3
<1>4. ASSUME NEW w \in Consumers, Shutdown(w) \/ ChannelLost(w) PROVE CInv'
  <2>1. /\ ReturnCopies(unacked[w])
        /\ UNCHANGED <<copies, step, inbox, effects, applied, jobs>>
    BY <1>4 DEF Shutdown, ChannelLost, storeVars
  <2>2. up' \in [Consumers -> {"up", "stopping", "broken", "down"}]
    BY <1>4 DEF Shutdown, ChannelLost, TypeOK
  <2>3. step' \in [Consumers -> [Copy -> Steps]] /\ unacked[w] \in SUBSET Copy
        /\ \A v \in Consumers, d \in Copy : step'[v][d] \in {step[v][d], "none"}
    BY <2>1 DEF TypeOK
  <2> HIDE DEF CInv
  <2> QED  BY <2>1, <2>2, <2>3, ReturnStep
<1>5. ASSUME NEW w \in Consumers, Exit(w) \/ Kill(w) PROVE CInv'
  <2>1. Die(w)  BY <1>5 DEF Exit, Kill
  <2>2. /\ ReturnCopies(unacked[w])
        /\ UNCHANGED <<copies, inbox, effects, applied, jobs>>
    BY <2>1 DEF Die, storeVars
  <2>3. up' \in [Consumers -> {"up", "stopping", "broken", "down"}]
    BY <2>1 DEF Die, TypeOK
  <2>4. Idle \in [Copy -> Steps] /\ \A d \in Copy : Idle[d] = "none"
    BY DEF Idle, Steps
  <2>5. step' = [step EXCEPT ![w] = Idle]  BY <2>1 DEF Die
  <2>6. step' \in [Consumers -> [Copy -> Steps]] /\ unacked[w] \in SUBSET Copy
    BY <2>4, <2>5 DEF TypeOK
  <2>7. \A v \in Consumers, d \in Copy : step'[v][d] \in {step[v][d], "none"}
    BY <2>4, <2>5 DEF TypeOK
  <2> HIDE DEF CInv
  <2> QED  BY <2>2, <2>3, <2>6, <2>7, ReturnStep
<1>6. ASSUME NEW w \in Consumers, Restart(w) PROVE CInv'
  <2>1. UNCHANGED <<copies, place, returns, unacked, step, inbox, effects, applied, jobs>>
    BY <1>6 DEF Restart, queueVars, storeVars
  <2>2. up' \in [Consumers -> {"up", "stopping", "broken", "down"}]
    BY <1>6 DEF Restart, TypeOK
  <2>3. /\ place' \in [Copy -> Places] /\ returns' \in [Copy -> 0 .. DeliveryLimit]
        /\ unacked' \in [Consumers -> SUBSET Copy]
        /\ step' \in [Consumers -> [Copy -> Steps]]
        /\ \A v \in Consumers, d \in Copy : step'[v][d] \in {step[v][d], "none"}
    BY <2>1 DEF TypeOK
  <2>4. UnackedIsOut' /\ AckedIsComplete'
    BY <2>1 DEF UnackedIsOut, AckedIsComplete
  <2> HIDE DEF CInv
  <2> QED  BY <2>1, <2>2, <2>3, <2>4, QueueStep
<1> HIDE DEF CInv
<1> QED
  BY <1>1, <1>2, <1>3, <1>4, <1>5, <1>6, DeliverStep, ClaimStep, CommitStep, EnqueueStep
     DEF ConsumerNext, Handle, Process

(* The invariant holds before the first message. *)
LEMMA ConsumerInvInit == Init => CInv
<1> SUFFICES ASSUME Init PROVE CInv  OBVIOUS
<1>1. \A w \in Consumers, c \in Copy : step[w][c] = "none"
  BY DEF Init, ConsumerInit, Idle
<1>2. TypeOK
  BY ConsumerAssumption DEF Init, ConsumerInit, TypeOK, Idle, Places, Steps
<1>3. ClaimsExclusive /\ HandlersCommitted /\ HandlersHaveMessage
  BY <1>1 DEF ClaimsExclusive, HandlersCommitted, HandlersHaveMessage
<1>4. UnackedIsOut /\ EffectOnce /\ AckedIsComplete /\ EffectNeedsMessage
  BY DEF Init, ConsumerInit, UnackedIsOut, EffectOnce, AckedIsComplete, EffectNeedsMessage
<1> QED  BY <1>2, <1>3, <1>4 DEF CInv

(* The invariant is inductive for the consumers and the publishes. *)
LEMMA ConsumerInvStep == CInv /\ [Next]_vars => CInv'
<1> SUFFICES ASSUME CInv, [Next]_vars PROVE CInv'  OBVIOUS
<1>1. CASE ConsumerNext  BY <1>1, ConsumerStep
<1>2. ASSUME NEW e \in Event, Publish(e) PROVE CInv'
  <2>1. copies \in [Event -> Nat]  BY DEF CInv, TypeOK
  <2>2. copies' \in [Event -> Nat] /\ \A f \in Event : copies'[f] >= copies[f]
    BY <1>2, <2>1 DEF Publish
  <2>3. UNCHANGED <<place, returns, unacked, up, step, inbox, effects, applied, jobs>>
    BY <1>2 DEF Publish, consumerVars, queueVars, storeVars
  <2> QED  BY <2>2, <2>3, PublishStep
<1>3. CASE UNCHANGED vars
  <2>1. copies' = copies
        /\ UNCHANGED <<place, returns, unacked, up, step, inbox, effects, applied, jobs>>
    BY <1>3 DEF vars, consumerVars, queueVars, storeVars
  <2>2. copies' \in [Event -> Nat] /\ \A f \in Event : copies'[f] >= copies[f]
    BY <2>1 DEF CInv, TypeOK
  <2> QED  BY <2>1, <2>2, PublishStep
<1> QED  BY <1>1, <1>2, <1>3 DEF Next

(* A message that is acknowledged or dead-lettered is in no channel's       *)
(* window, and only messages of a window are settled or returned.           *)
LEMMA SettledStep ==
  ASSUME CInv, [Next]_vars, NEW c \in Copy, place[c] \in {"acked", "dlq"}
  PROVE  place'[c] = place[c]
<1>1. TypeOK /\ UnackedIsOut  BY DEF CInv
<1>2. \A v \in Consumers : c \notin unacked[v]  BY <1>1 DEF UnackedIsOut
<1>3. ASSUME NEW w \in Consumers, NEW d \in Copy, d \in unacked[w],
             \/ \E p \in {"acked", "dlq"} : SettleCopy(d, p)
             \/ ReturnCopies({d})
      PROVE  place'[c] = place[c]
  BY <1>1, <1>2, <1>3 DEF SettleCopy, ReturnCopies, TypeOK
<1>4. ASSUME NEW w \in Consumers, ReturnCopies(unacked[w]) PROVE place'[c] = place[c]
  BY <1>1, <1>2, <1>4 DEF ReturnCopies, TypeOK
<1>5. ASSUME NEW w \in Consumers, NEW d \in Copy, Handle(w, d) PROVE place'[c] = place[c]
  <2>1. CASE Deliver(w, d)
    BY <1>1, <2>1 DEF Deliver, TypeOK
  <2>2. CASE RejectPoison(w, d) \/ Ack(w, d) \/ Fail(w, d)
    BY <1>3, <2>2 DEF RejectPoison, Ack, Fail, EndHandler, queueVars
  <2>3. CASE Claim(w, d) \/ CommitEffect(w, d) \/ EnqueueReceipt(w, d)
    BY <2>3 DEF Claim, ClaimKey, CommitEffect, EnqueueReceipt, queueVars
  <2> QED  BY <1>5, <2>1, <2>2, <2>3 DEF Handle
<1>6. ASSUME NEW w \in Consumers, Process(w) PROVE place'[c] = place[c]
  BY <1>4, <1>6 DEF Process, Shutdown, ChannelLost, Exit, Kill, Die, Restart, queueVars
<1>7. ASSUME NEW e \in Event, Publish(e) PROVE place'[c] = place[c]
  BY <1>7 DEF Publish, consumerVars, queueVars
<1>8. CASE UNCHANGED vars  BY <1>8 DEF vars, consumerVars, queueVars
<1> QED  BY <1>5, <1>6, <1>7, <1>8 DEF Next, ConsumerNext

-----------------------------------------------------------------------------
(* The shape of the consumers' state is kept by every step. *)
THEOREM ConsumerTypeCorrect == Spec => []TypeOK
<1>1. CInv => TypeOK  BY DEF CInv
<1> QED  BY <1>1, ConsumerInvInit, ConsumerInvStep, PTL DEF Spec

(* applyOrderPlacedEffect is idempotent: one effect per event, whatever the *)
(* number of copies, consumers, redeliveries and crashes.                   *)
THEOREM ExactlyOnceEffect == Spec => []EffectOnce
<1>1. CInv => EffectOnce  BY DEF CInv
<1> QED  BY <1>1, ConsumerInvInit, ConsumerInvStep, PTL DEF Spec

(* ack is the last step of handleMessage: an acknowledged message has its   *)
(* effect and its receipt job, and both stand for a readable message.       *)
THEOREM AckIsLast == Spec => [](AckedIsComplete /\ EffectNeedsMessage)
<1>1. CInv => AckedIsComplete /\ EffectNeedsMessage  BY DEF CInv
<1> QED  BY <1>1, ConsumerInvInit, ConsumerInvStep, PTL DEF Spec

(* No handler of a closed channel revives or re-settles a settled message. *)
THEOREM SettledIsFinal == Spec => SettledStays
<1>1. CInv /\ [Next]_vars
        => [\A c \in Copy : place[c] \in {"acked", "dlq"} => place'[c] = place[c]]_vars
  BY SettledStep
<1> QED  BY <1>1, ConsumerInvInit, ConsumerInvStep, PTL DEF Spec, SettledStays

-----------------------------------------------------------------------------
(* An effect is applied for the first time, to an event the queue accepted, *)
(* or no effect is.                                                         *)
LEMMA AppliesOnce ==
  ASSUME CInv, ConsumerNext
  PROVE  \/ applied' = applied
         \/ \E e \in Event : /\ applied[e] = 0 /\ copies[e] >= 1
                             /\ applied' = [applied EXCEPT ![e] = 1]
<1>1. ASSUME NEW w \in Consumers, NEW c \in Copy, CommitEffect(w, c)
      PROVE  \E e \in Event : /\ applied[e] = 0 /\ copies[e] >= 1
                              /\ applied' = [applied EXCEPT ![e] = 1]
  <2>1. c[1] \in Event  BY CopyParts
  <2>2. step[w][c] = "claimed"  BY <1>1 DEF CommitEffect
  <2>3. c[1] \notin inbox /\ Accepted(c)
    BY <2>2 DEF CInv, ClaimsExclusive, HandlersHaveMessage
  <2>4. applied[c[1]] = 0  BY <2>1, <2>3 DEF CInv, EffectOnce
  <2>5. copies[c[1]] >= 1  BY <2>3, AcceptedCounts DEF CInv
  <2>6. applied' = [applied EXCEPT ![c[1]] = 1]
    <3>1. applied' = [applied EXCEPT ![c[1]] = applied[c[1]] + 1]  BY <1>1 DEF CommitEffect
    <3>2. applied[c[1]] + 1 = 1  BY <2>4
    <3> QED  BY <3>1, <3>2
  <2> WITNESS c[1] \in Event
  <2> QED  BY <2>4, <2>5, <2>6
<1>2. ASSUME NEW w \in Consumers, NEW c \in Copy, Handle(w, c), ~CommitEffect(w, c)
      PROVE  applied' = applied
  BY <1>2 DEF Handle, Deliver, RejectPoison, Claim, ClaimKey, EnqueueReceipt, Ack, Fail, storeVars
<1>3. ASSUME NEW w \in Consumers, Process(w) PROVE applied' = applied
  BY <1>3 DEF Process, Shutdown, ChannelLost, Exit, Kill, Die, Restart, storeVars
<1> QED  BY <1>1, <1>2, <1>3 DEF ConsumerNext
=============================================================================

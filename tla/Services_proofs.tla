--------------------------- MODULE Services_proofs ---------------------------
(***************************************************************************)
(* Proofs about all services but the publisher, for any number of          *)
(* clients, workers, jobs, readers, faults and processes.  A step of one   *)
(* service leaves the variables of the others alone, so each invariant     *)
(* below speaks of one service and is kept by that service's steps.        *)
(***************************************************************************)
EXTENDS Services, DataTheorems, TLAPS

(* A step of the whole is a step of a service or leaves it alone. *)
LEMMA OneService ==
  ASSUME [Next]_vars
  PROVE  /\ E!Next \/ UNCHANGED events
         /\ R!Next \/ UNCHANGED limiter
         /\ S!Next \/ UNCHANGED sessions
         /\ T!Next \/ UNCHANGED tasks
         /\ P!Next \/ UNCHANGED workers
         /\ L!Next \/ UNCHANGED listing
         /\ B!Next \/ UNCHANGED bumps
         /\ K!Next \/ UNCHANGED cards
         /\ D!Next \/ UNCHANGED rotation
         /\ G!Next \/ UNCHANGED keyring
         /\ A!Next \/ UNCHANGED access
  BY DEF Next, vars

-----------------------------------------------------------------------------
(* Whatever is still to be announced is the last committed update or was    *)
(* still to be announced when that one committed; so is the last news, once *)
(* the last committed update is not to be announced any more.               *)
EventsInv ==
  /\ updating \subseteq {status} \union rivals
  /\ status \in updating \/ status \in unsaid \/ news \in {status} \union rivals

(* Order events: every step keeps EventsInv. *)
LEMMA EventsStep == EventsInv /\ [Next]_vars => EventsInv'
<1> SUFFICES ASSUME EventsInv, [Next]_vars PROVE EventsInv'  OBVIOUS
<1>1. CASE UNCHANGED events  BY <1>1 DEF events, EventsInv
<1>2. CASE E!Update  BY <1>2 DEF E!Update, EventsInv
<1>3. ASSUME NEW u \in updating, E!Emit(u) PROVE EventsInv'
  BY <1>3 DEF E!Emit, E!database, EventsInv
<1>4. CASE E!Restart  BY <1>4 DEF E!Restart, E!database, EventsInv
<1>5. CASE E!EmitForeign  BY <1>5 DEF E!EmitForeign, E!history, EventsInv
<1>6. ASSUME NEW c \in Client, E!Connect(c) \/ E!Open(c) \/ E!Receive(c) \/ E!Drop(c)
      PROVE  EventsInv'
  BY <1>6 DEF E!Connect, E!Open, E!Serve, E!Receive, E!Drop, E!database, E!history, EventsInv
<1> QED  BY <1>1, <1>2, <1>3, <1>4, <1>5, <1>6, OneService DEF E!Next

-----------------------------------------------------------------------------
(* A session that is used or has ended was issued, and is not issued again. *)
SessionsInv ==
  /\ stored \in BOOLEAN /\ issued \in BOOLEAN /\ ended \in BOOLEAN
  /\ DOMAIN visit = Visitor
  /\ stored => issued
  /\ \A v \in Visitor : visit[v] # "none" => issued
  /\ ended => issued /\ ~stored

(* Sessions: every step keeps SessionsInv. *)
LEMMA SessionsStep == SessionsInv /\ [Next]_vars => SessionsInv'
<1> SUFFICES ASSUME SessionsInv, [Next]_vars PROVE SessionsInv'  OBVIOUS
<1>1. CASE UNCHANGED sessions  BY <1>1 DEF sessions, SessionsInv
<1>2. CASE S!Create  BY <1>2 DEF S!Create, SessionsInv
<1>3. CASE S!Destroy  BY <1>3 DEF S!Destroy, S!Delete, SessionsInv
<1>4. CASE S!TickSession
  <2>1. UNCHANGED <<visit, issued>> /\ issued  BY <1>4 DEF S!TickSession
  <2>2. UNCHANGED <<stored, ended>> \/ (stored' = FALSE /\ ended' = TRUE)
    BY <1>4 DEF S!TickSession, S!Delete
  <2>3. CASE UNCHANGED <<stored, ended>>  BY <2>1, <2>3 DEF SessionsInv
  <2>4. CASE stored' = FALSE /\ ended' = TRUE
    <3>1. /\ stored' \in BOOLEAN /\ issued' \in BOOLEAN /\ ended' \in BOOLEAN
          /\ issued' /\ ~stored'
      BY <2>1, <2>4 DEF SessionsInv
    <3>2. DOMAIN visit' = Visitor  BY <2>1 DEF SessionsInv
    <3> QED  BY <3>1, <3>2 DEF SessionsInv
  <2> QED  BY <2>2, <2>3, <2>4
<1>5. ASSUME NEW v \in Visitor, S!Renew(v) PROVE SessionsInv'
  BY <1>5 DEF S!Renew, S!Await, SessionsInv
<1>6. ASSUME NEW v \in Visitor, S!Serve(v) \/ S!EndVisit(v) PROVE SessionsInv'
  <2>1. visit[v] # "none" /\ UNCHANGED <<stored, issued, ended>>
    BY <1>6 DEF S!Serve, S!EndVisit
  <2>2. DOMAIN visit' = DOMAIN visit  BY <1>6 DEF S!Serve, S!EndVisit, S!Await
  <2> QED  BY <2>1, <2>2 DEF SessionsInv
<1>7. ASSUME NEW v \in Visitor, S!RejectOld(v) PROVE SessionsInv'
  <2>1. issued' = issued /\ visit[v] = "check"  BY <1>7 DEF S!RejectOld
  <2>2. (ended' = TRUE /\ stored' = FALSE) \/ UNCHANGED <<stored, ended>>
    BY <1>7 DEF S!RejectOld, S!Delete
  <2>3. DOMAIN visit' = DOMAIN visit  BY <1>7 DEF S!RejectOld, S!Await
  <2>4. CASE ended' = TRUE /\ stored' = FALSE  BY <2>1, <2>3, <2>4 DEF SessionsInv
  <2>5. CASE UNCHANGED <<stored, ended>>  BY <2>1, <2>3, <2>5 DEF SessionsInv
  <2> QED  BY <2>2, <2>4, <2>5
<1> QED  BY <1>1, <1>2, <1>3, <1>4, <1>5, <1>6, <1>7, OneService DEF S!Next

-----------------------------------------------------------------------------
(* The steps of rotate.sh, of the operator and of the processes leave: the  *)
(* file right unless it is known to lag behind, and a process that started  *)
(* from the right file with the password of the role; such a process is     *)
(* refused at most while userlist.txt lags behind.                          *)
RotationInv ==
  /\ role \in Nat /\ DOMAIN pool = Process /\ DOMAIN early = Process /\ DOMAIN health = Process
  /\ ~behind => file = role
  /\ \A p \in Process :
       /\ ~early[p] => pool[p] = role
       /\ health[p] = "down" /\ userlist = role => early[p]

(* Password rotation: every step keeps RotationInv. *)
LEMMA RotationStep == RotationInv /\ [Next]_vars => RotationInv'
<1> SUFFICES ASSUME RotationInv, [Next]_vars PROVE RotationInv'  OBVIOUS
<1>1. CASE UNCHANGED rotation  BY <1>1 DEF rotation, RotationInv
<1>2. CASE D!Alter  BY <1>2 DEF D!Alter, D!Unknown, RotationInv
<1>3. CASE D!ReplaceFile \/ D!Terminate \/ D!Interrupt \/ D!SyncUserlist
  BY <1>3 DEF D!ReplaceFile, D!Terminate, D!Interrupt, D!SyncUserlist, D!Unknown, RotationInv
<1>4. ASSUME NEW p \in Process, D!Check(p) PROVE RotationInv'
  <2>1. UNCHANGED <<role, file, userlist, pool, behind, early>>  BY <1>4 DEF D!Check
  <2>2. \/ health' = [health EXCEPT ![p] = "ok"]
        \/ /\ health' = [health EXCEPT ![p] = "down"]
           /\ pool[p] # userlist \/ userlist # role
    BY <1>4 DEF D!Check, D!Admitted
  <2> QED  BY <2>1, <2>2 DEF RotationInv
<1>5. ASSUME NEW p \in Process, D!CloseIdle(p) \/ D!RestartProcess(p) PROVE RotationInv'
  BY <1>5 DEF D!CloseIdle, D!RestartProcess, D!AtStart, RotationInv
<1> QED  BY <1>1, <1>2, <1>3, <1>4, <1>5, OneService DEF D!Next
-----------------------------------------------------------------------------
(* What is stored as a card, or may still be, lacks no change but the       *)
(* escaped ones.                                                            *)
Covered(v) == v + 1 .. db \subseteq escaped

CardsInv ==
  /\ db \in Nat /\ card \in Nat \union {K!NoCard} /\ late \subseteq Nat
  /\ loaded \in [Req -> Nat]
  /\ DOMAIN pc = Req
  /\ card # K!NoCard => Covered(card)
  /\ \A v \in late : Covered(v)
  /\ \A r \in Req : pc[r] = "store" => Covered(loaded[r])

(* Leaving a handler forgets what it has loaded. *)
LEMMA LeaveStep ==
  ASSUME CardsInv, NEW r \in Req, K!Leave(r) \/ K!Answer(r)
  PROVE  /\ loaded' \in [Req -> Nat] /\ DOMAIN pc' = Req
         /\ \A q \in Req : pc'[q] = "store" => pc[q] = "store" /\ loaded'[q] = loaded[q]
  BY DEF K!Leave, K!Answer, K!Goto, CardsInv

(* A reader moves on without having loaded a card.  *)
LEMMA AwaitStep ==
  ASSUME CardsInv, NEW r \in Req, NEW l, l # "store", K!Await(r, l)
  PROVE  /\ loaded' \in [Req -> Nat] /\ DOMAIN pc' = Req
         /\ \A q \in Req : pc'[q] = "store" => pc[q] = "store" /\ loaded'[q] = loaded[q]
  BY DEF K!Await, K!Goto, CardsInv

(* While card and database stay, nobody can have loaded anything stale. *)
LEMMA CardsKept ==
  ASSUME CardsInv, UNCHANGED <<db, escaped>>,
         card' \in {card, K!NoCard} \union late,
         late' \subseteq late,
         loaded' \in [Req -> Nat], DOMAIN pc' = Req,
         \A q \in Req : pc'[q] = "store" => pc[q] = "store" /\ loaded'[q] = loaded[q]
  PROVE  CardsInv'
  BY DEF CardsInv, Covered

(* Product cards: every step keeps CardsInv. *)
LEMMA CardsStep == CardsInv /\ [Next]_vars => CardsInv'
<1> SUFFICES ASSUME CardsInv, [Next]_vars PROVE CardsInv'  OBVIOUS
<1> DEFINE Readers == /\ loaded' \in [Req -> Nat] /\ DOMAIN pc' = Req
                      /\ \A q \in Req : pc'[q] = "store" =>
                           pc[q] = "store" /\ loaded'[q] = loaded[q]
<1>1. CASE UNCHANGED cards  BY <1>1 DEF cards, CardsInv, Covered
<1>2. ASSUME NEW r \in Req, K!GetCard(r) \/ K!Recheck(r) \/ K!Poll(r) PROVE CardsInv'
  <2>1. UNCHANGED <<db, card, late, escaped>>
    BY <1>2 DEF K!GetCard, K!Recheck, K!Poll, K!Lookup
  <2>2. \/ K!Leave(r) \/ K!Answer(r)
        \/ K!Await(r, "acquire") \/ K!Await(r, "load")
    BY <1>2 DEF K!GetCard, K!Recheck, K!Poll, K!Lookup
  <2>3. Readers  BY <2>2, LeaveStep, AwaitStep
  <2> QED  BY <2>1, <2>3, CardsKept
<1>3. ASSUME NEW r \in Req, K!Acquire(r) \/ K!GiveUp(r) PROVE CardsInv'
  <2>1. UNCHANGED <<db, card, late, escaped>>  BY <1>3 DEF K!Acquire, K!GiveUp
  <2>2. \/ K!Goto(r, "recheck") /\ UNCHANGED loaded
        \/ K!Await(r, "poll") \/ K!Await(r, "load")
    BY <1>3 DEF K!Acquire, K!GiveUp
  <2>3. Readers
    <3>1. CASE K!Goto(r, "recheck") /\ UNCHANGED loaded
      BY <3>1 DEF K!Goto, CardsInv
    <3> QED  BY <2>2, <3>1, AwaitStep
  <2> QED  BY <2>1, <2>3, CardsKept
<1>4. ASSUME NEW r \in Req, K!Load(r) PROVE CardsInv'
  <2>1. UNCHANGED <<db, card, late, escaped>>  BY <1>4 DEF K!Load
  <2>2. CASE K!Leave(r)  BY <2>1, <2>2, LeaveStep, CardsKept
  <2>3. CASE K!Goto(r, "store") /\ loaded' = [loaded EXCEPT ![r] = db]
    <3>1. /\ pc' = [pc EXCEPT ![r] = "store"] /\ loaded' = [loaded EXCEPT ![r] = db]
      BY <2>3 DEF K!Goto
    <3>2. db + 1 .. db = {}  BY DEF CardsInv
    <3>3. Covered(db)  BY <3>2 DEF Covered
    <3> QED  BY <2>1, <3>1, <3>3 DEF CardsInv, Covered
  <2> QED  BY <1>4, <2>2, <2>3 DEF K!Load
<1>5. ASSUME NEW r \in Req, K!Store(r) PROVE CardsInv'
  <2>1. /\ pc[r] = "store" /\ K!Leave(r) /\ UNCHANGED <<db, escaped>>
        /\ \/ card' = loaded[r] /\ UNCHANGED late
           \/ UNCHANGED card /\ late' \in {late, late \union {loaded[r]}}
    BY <1>5 DEF K!Store
  <2>2. Readers  BY <2>1, LeaveStep
  <2>3. loaded[r] \in Nat /\ Covered(loaded[r])  BY <2>1 DEF CardsInv
  <2> QED  BY <2>1, <2>2, <2>3 DEF CardsInv, Covered
<1>6. ASSUME NEW r \in Req, K!Release(r) \/ K!Die(r) PROVE CardsInv'
  <2>1. UNCHANGED <<db, card, late, escaped>> /\ K!Answer(r)
    BY <1>6 DEF K!Release, K!Die
  <2> QED  BY <2>1, LeaveStep, CardsKept
<1>7. CASE K!CommitOrder \/ K!ChangeSilently
  <2>1. /\ db' = db + 1 /\ escaped' = escaped \union {db + 1}
        /\ UNCHANGED <<card, late, pc, loaded>>
    BY <1>7 DEF K!CommitOrder, K!ChangeSilently, K!readers
  <2>2. \A v \in Nat : Covered(v) => v + 1 .. db' \subseteq escaped'
    BY <2>1 DEF CardsInv, Covered
  <2> QED  BY <2>1, <2>2 DEF CardsInv, Covered
<1>8. CASE K!Invalidate
  <2>1. /\ UNCHANGED <<db, late, pc, loaded>>
        /\ \/ /\ card' = K!NoCard
              /\ escaped' = {n \in 1 .. db : \E v \in K!InFlight : v < n}
           \/ UNCHANGED <<card, escaped>>
    BY <1>8 DEF K!Invalidate, K!readers
  <2>2. CASE UNCHANGED <<card, escaped>>  BY <2>1, <2>2 DEF CardsInv, Covered
  <2>3. CASE /\ card' = K!NoCard
             /\ escaped' = {n \in 1 .. db : \E v \in K!InFlight : v < n}
    <3>1. \A v \in K!InFlight \intersect Nat : v + 1 .. db \subseteq escaped'
      BY <2>3 DEF CardsInv
    <3>2. /\ \A v \in late : v \in K!InFlight \intersect Nat
          /\ \A q \in Req : pc[q] = "store" => loaded[q] \in K!InFlight \intersect Nat
      BY DEF CardsInv, K!InFlight
    <3> QED  BY <2>1, <2>3, <3>1, <3>2 DEF CardsInv, Covered
  <2> QED  BY <2>1, <2>2, <2>3
<1>9. CASE K!StoreLate \/ K!ExpireCard \/ K!ExpireLock
  <2>1. /\ UNCHANGED <<db, pc, loaded, escaped>>
        /\ card' \in {card, K!NoCard} \union late /\ late' \subseteq late
    BY <1>9 DEF K!StoreLate, K!ExpireCard, K!ExpireLock, K!readers
  <2> QED  BY <2>1, CardsKept DEF CardsInv
<1> QED
  BY <1>1, <1>2, <1>3, <1>4, <1>5, <1>6, <1>7, <1>8, <1>9, OneService DEF K!Next, K!Proceed
-----------------------------------------------------------------------------
(* A load is owed to every reader about to ask the database, to a leader    *)
(* whose lock expired before it looked again, and to the card that is gone, *)
(* unless a leader with its lock is on the way to store it.                 *)
Owed == {r \in Req : pc[r] = "load" \/ (pc[r] = "recheck" /\ lock # r)}
Fixing == lock \in leading /\ pc[lock] \in {"load", "store"}
Gap == IF card = K!NoCard /\ ~Fixing THEN 1 ELSE 0
Debt == Cardinality(Owed) + Gap

(* Only a leader looks again under the lock, and none waits for it. *)
ReadersFit ==
  /\ leading \subseteq Req /\ DOMAIN pc = Req
  /\ \A r \in Req : /\ pc[r] \in {"idle", "acquire", "poll"} => r \notin leading
                    /\ pc[r] = "recheck" => r \in leading

LoadsInv == ReadersFit /\ excuses \in Int /\ Debt <= excuses

(* The debts are numbers, and at most one per reader and one for the card.  *)
LEMMA DebtTypes ==
  /\ IsFiniteSet(Owed) /\ Cardinality(Owed) \in Nat /\ Gap \in {0, 1}
  /\ Cardinality(Owed') \in Nat /\ Gap' \in {0, 1}
  /\ K!MaxExcuses \in Nat /\ Cardinality(Owed') + Gap' <= K!MaxExcuses
<1>1. Owed \subseteq Req /\ Owed' \subseteq Req  BY DEF Owed
<1>2. /\ IsFiniteSet(Owed) /\ IsFiniteSet(Owed') /\ Cardinality(Owed') <= Cardinality(Req)
      /\ Cardinality(Owed) \in Nat /\ Cardinality(Owed') \in Nat /\ Cardinality(Req) \in Nat
  BY <1>1, ServicesAssumption, FS_Subset, FS_CardinalityType
<1>3. Gap \in {0, 1} /\ Gap' \in {0, 1}  BY DEF Gap
<1>4. K!MaxExcuses = Cardinality(Req) + 1  BY DEF K!MaxExcuses, K!Cardinality, Cardinality
<1> QED  BY <1>2, <1>3, <1>4

(* At most the debt of one reader is new, or one is paid. *)
LEMMA OwedChanges ==
  ASSUME NEW r
  PROVE  /\ Owed' \subseteq Owed => Cardinality(Owed') <= Cardinality(Owed)
         /\ Owed' \subseteq Owed \union {r} => Cardinality(Owed') <= Cardinality(Owed) + 1
         /\ r \in Owed /\ Owed' \subseteq Owed \ {r} => Cardinality(Owed') <= Cardinality(Owed) - 1
<1>1. IsFiniteSet(Owed) /\ Cardinality(Owed) \in Nat /\ Cardinality(Owed') \in Nat  BY DebtTypes
<1>2. Owed' \subseteq Owed => Cardinality(Owed') <= Cardinality(Owed)  BY <1>1, FS_Subset
<1>3. /\ IsFiniteSet(Owed \union {r})
      /\ Cardinality(Owed \union {r}) \in {Cardinality(Owed), Cardinality(Owed) + 1}
  BY <1>1, FS_AddElement
<1>4. Owed' \subseteq Owed \union {r} => Cardinality(Owed') <= Cardinality(Owed \union {r})
  BY <1>3, FS_Subset
<1>5. r \in Owed => /\ IsFiniteSet(Owed \ {r})
                    /\ Cardinality(Owed \ {r}) = Cardinality(Owed) - 1
  BY <1>1, FS_RemoveElement
<1>6. r \in Owed /\ Owed' \subseteq Owed \ {r} => Cardinality(Owed') <= Cardinality(Owed \ {r})
  BY <1>5, FS_Subset
<1> QED  BY <1>1, <1>2, <1>3, <1>4, <1>5, <1>6

(* A step without an excuse adds no debt, an excuse allows one more, and a  *)
(* load pays one.                                                           *)
LEMMA DebtStep ==
  ASSUME LoadsInv, ReadersFit',
         \/ UNCHANGED excuses /\ Debt' <= Debt
         \/ K!Excuse /\ Debt' <= Debt + 1
         \/ excuses' = excuses - 1 /\ Debt' <= Debt - 1
  PROVE  LoadsInv'
<1>1. Debt \in Int /\ Debt' \in Int /\ K!MaxExcuses \in Int /\ Debt' <= K!MaxExcuses
  BY DebtTypes DEF Debt
<1>2. excuses \in Int /\ Debt <= excuses  BY DEF LoadsInv
<1>3. /\ K!Excuse => /\ excuses < K!MaxExcuses => excuses' = excuses + 1
                     /\ excuses >= K!MaxExcuses => excuses' = excuses
  BY <1>1, <1>2 DEF K!Excuse
<1>4. excuses' \in Int /\ Debt' <= excuses'  BY <1>1, <1>2, <1>3
<1> QED  BY <1>4 DEF LoadsInv

(* What the debt does when the debts of one reader and of the card change.  *)
LEMMA DebtMoves ==
  ASSUME NEW r
  PROVE  /\ Owed' \subseteq Owed => Debt' <= Debt + 1
         /\ Owed' \subseteq Owed /\ Gap' <= Gap => Debt' <= Debt
         /\ Owed' \subseteq Owed \union {r} /\ Gap' <= Gap => Debt' <= Debt + 1
         /\ Owed' \subseteq Owed \union {r} /\ Gap = 1 /\ Gap' = 0 => Debt' <= Debt
         /\ r \in Owed /\ Owed' \subseteq Owed \ {r} => Debt' <= Debt
         /\ r \in Owed /\ Owed' \subseteq Owed \ {r} /\ Gap' <= Gap => Debt' <= Debt - 1
<1> DEFINE o == Cardinality(Owed)
           p == Cardinality(Owed')
           g == Gap
           h == Gap'
<1>1. o \in Nat /\ p \in Nat /\ g \in {0, 1} /\ h \in {0, 1}  BY DebtTypes
<1>2. Debt = o + g /\ Debt' = p + h  BY DEF Debt
<1>3. /\ Owed' \subseteq Owed => p <= o
      /\ Owed' \subseteq Owed \union {r} => p <= o + 1
      /\ r \in Owed /\ Owed' \subseteq Owed \ {r} => p <= o - 1
  BY OwedChanges
<1>4. (Gap' <= Gap) = (h <= g) /\ (Gap = 1) = (g = 1) /\ (Gap' = 0) = (h = 0)  OBVIOUS
<1> HIDE DEF o, p, g, h
<1> QED  BY <1>1, <1>2, <1>3, <1>4

(* A reader goes to l.  The debts of the others stay, and what a leader     *)
(* other than r does for the card. *)
LEMMA ReaderMoves ==
  ASSUME LoadsInv, NEW r \in Req, NEW l, pc' = [pc EXCEPT ![r] = l],
         leading' \in {leading, leading \union {r}, leading \ {r}},
         lock' = lock \/ {lock, lock'} \subseteq {r, NoReq},
         l \in {"idle", "acquire", "poll"} => r \notin leading',
         l = "recheck" => r \in leading'
  PROVE  /\ ReadersFit'
         /\ l # "load" /\ (l = "recheck" => lock' = r) => Owed' = Owed \ {r}
         /\ Owed' \subseteq Owed \union {r}
         /\ card' # K!NoCard => Gap' = 0
         /\ card' = card /\ (~Fixing \/ (lock # r /\ lock' = lock)) => Gap' <= Gap
         /\ card' = card /\ Fixing' => Gap' <= Gap
<1>1. ReadersFit' /\ NoReq \notin Req
  BY ServicesAssumption DEF LoadsInv, ReadersFit
<1>2. \A q \in Req \ {r} : /\ pc'[q] = pc[q]
                           /\ lock' = q <=> lock = q
  BY <1>1 DEF LoadsInv, ReadersFit
<1>3. pc'[r] = l  BY DEF LoadsInv, ReadersFit
<1>4. /\ l # "load" /\ (l = "recheck" => lock' = r) => Owed' = Owed \ {r}
      /\ Owed' \subseteq Owed \union {r}
  BY <1>2, <1>3 DEF Owed
<1>5. lock # r /\ lock' = lock => (Fixing' <=> Fixing)
  BY <1>1, <1>2 DEF Fixing, LoadsInv, ReadersFit
<1>6. /\ card' # K!NoCard => Gap' = 0
      /\ card' = card /\ (Fixing => Fixing') => Gap' <= Gap
  BY DEF Gap, K!NoCard
<1> QED  BY <1>1, <1>4, <1>5, <1>6

(* Leaving the handler, with or without a lock to release. *)
LEMMA LeaveMoves ==
  ASSUME LoadsInv, NEW r \in Req, K!Leave(r) \/ K!Answer(r),
         lock' = lock \/ {lock, lock'} \subseteq {r, NoReq}
  PROVE  /\ ReadersFit' /\ Owed' = Owed \ {r}
         /\ card' # K!NoCard => Gap' = 0
         /\ card' = card /\ (~Fixing \/ (lock # r /\ lock' = lock)) => Gap' <= Gap
<1>1. PICK l \in {"idle", "release"} :
        /\ pc' = [pc EXCEPT ![r] = l] /\ leading' \in {leading, leading \ {r}}
        /\ l = "idle" => r \notin leading'
  BY DEF K!Leave, K!Answer, K!Goto
<1>2. l \notin {"acquire", "poll", "load", "recheck"}  OBVIOUS
<1>3. /\ leading' \in {leading, leading \union {r}, leading \ {r}}
      /\ l \in {"idle", "acquire", "poll"} => r \notin leading'
      /\ l = "recheck" => r \in leading'
  BY <1>1, <1>2
<1> QED  BY <1>1, <1>2, <1>3, ReaderMoves

(* Product cards: whatever a reader does before it loads keeps LoadsInv. *)
LEMMA SeekStep ==
  ASSUME CardsInv, LoadsInv, NEW r \in Req,
         K!GetCard(r) \/ K!Poll(r) \/ K!Acquire(r) \/ K!GiveUp(r) \/ K!Recheck(r)
  PROVE  LoadsInv'
<1>1. card' = card /\ NoReq \notin Req /\ (lock = NoReq => ~Fixing)
  BY ServicesAssumption
     DEF K!GetCard, K!Poll, K!Acquire, K!GiveUp, K!Recheck, K!Lookup, Fixing, LoadsInv, ReadersFit
<1>2. CASE K!GetCard(r) \/ K!Poll(r)
  <2>1. /\ r \notin leading /\ r \notin Owed /\ lock' = lock /\ UNCHANGED excuses
        /\ K!Answer(r) \/ K!Await(r, "acquire")
    BY <1>2 DEF K!GetCard, K!Poll, K!Lookup, K!NoExcuse, Owed, LoadsInv, ReadersFit
  <2>2. lock = r => ~Fixing  BY <2>1 DEF Fixing
  <2>3. CASE K!Answer(r)
    <3>1. ReadersFit' /\ Owed' \subseteq Owed /\ Gap' <= Gap
      BY <1>1, <2>1, <2>2, <2>3, LeaveMoves
    <3> QED  BY <2>1, <3>1, DebtMoves, DebtStep
  <2>4. CASE K!Await(r, "acquire")
    <3>1. pc' = [pc EXCEPT ![r] = "acquire"] /\ leading' = leading
      BY <2>4 DEF K!Await, K!Goto
    <3>2. ReadersFit' /\ Owed' \subseteq Owed /\ Gap' <= Gap
      BY <1>1, <2>1, <2>2, <3>1, ReaderMoves, ZenonT(30)
    <3> QED  BY <2>1, <3>2, DebtMoves, DebtStep
  <2> QED  BY <2>1, <2>3, <2>4
<1>3. CASE K!Acquire(r) \/ K!GiveUp(r)
  <2>1. r \notin leading /\ r \notin Owed
    BY <1>3 DEF K!Acquire, K!GiveUp, Owed, LoadsInv, ReadersFit
  <2>2. lock = r => ~Fixing  BY <2>1 DEF Fixing
  <2>3. CASE /\ lock = NoReq /\ lock' = r /\ K!Goto(r, "recheck")
             /\ leading' = leading \union {r} /\ UNCHANGED excuses
    <3>1. pc' = [pc EXCEPT ![r] = "recheck"]  BY <2>3 DEF K!Goto
    <3>2. /\ leading' \in {leading, leading \union {r}, leading \ {r}} /\ r \in leading'
          /\ {lock, lock'} \subseteq {r, NoReq} /\ ~Fixing
      BY <1>1, <2>3
    <3>3. /\ "recheck" # "load"
          /\ "recheck" \in {"idle", "acquire", "poll"} => r \notin leading'
      OBVIOUS
    <3>4. ReadersFit' /\ Owed' \subseteq Owed /\ Gap' <= Gap
      BY <1>1, <2>3, <3>1, <3>2, <3>3, ReaderMoves
    <3> QED  BY <2>3, <3>4, DebtMoves, DebtStep
  <2>4. CASE K!Await(r, "poll") /\ UNCHANGED <<lock, excuses>>
    <3>1. pc' = [pc EXCEPT ![r] = "poll"] /\ leading' = leading
      BY <2>4 DEF K!Await, K!Goto
    <3>2. ReadersFit' /\ Owed' \subseteq Owed /\ Gap' <= Gap
      BY <1>1, <2>1, <2>2, <2>4, <3>1, ReaderMoves
    <3> QED  BY <2>4, <3>2, DebtMoves, DebtStep
  <2>5. CASE /\ K!Await(r, "load") /\ K!Excuse
             /\ lock' \in {lock, IF lock = NoReq THEN r ELSE lock}
    <3>1. pc' = [pc EXCEPT ![r] = "load"] /\ leading' = leading
      BY <2>5 DEF K!Await, K!Goto
    <3>2. ReadersFit' /\ Owed' \subseteq Owed \union {r} /\ Gap' <= Gap
      BY <1>1, <2>1, <2>2, <2>5, <3>1, ReaderMoves
    <3> QED  BY <2>5, <3>2, DebtMoves, DebtStep
  <2> QED  BY <1>3, <2>3, <2>4, <2>5 DEF K!Acquire, K!GiveUp, K!NoExcuse
<1>4. CASE K!Recheck(r)
  <2>1. /\ pc[r] = "recheck" /\ r \in leading /\ lock' = lock
    BY <1>4 DEF K!Recheck, K!Lookup, LoadsInv, ReadersFit
  <2>2. ~Fixing \/ lock # r  BY <2>1 DEF Fixing
  <2>3. CASE K!Leave(r)
    <3>1. pc' = [pc EXCEPT ![r] = "release"]  BY <2>1, <2>3 DEF K!Leave, K!Goto
    <3>2. UNCHANGED excuses
      BY <1>4, <3>1 DEF K!Recheck, K!NoExcuse, LoadsInv, ReadersFit
    <3>3. ReadersFit' /\ Owed' \subseteq Owed /\ Gap' <= Gap
      BY <1>1, <2>1, <2>2, <2>3, LeaveMoves
    <3> QED  BY <3>2, <3>3, DebtMoves, DebtStep
  <2>4. CASE K!Await(r, "load")
    <3>1. pc' = [pc EXCEPT ![r] = "load"] /\ leading' = leading
      BY <2>4 DEF K!Await, K!Goto
    <3>2. pc'[r] = "load"  BY <3>1 DEF LoadsInv, ReadersFit
    <3>3. ReadersFit' /\ Owed' \subseteq Owed \union {r} /\ Gap' <= Gap
      BY <1>1, <2>1, <2>2, <3>1, ReaderMoves
    <3>4. CASE card # K!NoCard
      <4>1. K!Excuse  BY <1>4, <3>2, <3>4 DEF K!Recheck
      <4> QED  BY <3>3, <4>1, DebtMoves, DebtStep
    <3>5. CASE card = K!NoCard
      <4>1. UNCHANGED excuses  BY <1>4, <3>5 DEF K!Recheck, K!NoExcuse
      <4>2. CASE lock = r
        <5>1. ~Fixing /\ Fixing'  BY <2>1, <2>2, <3>1, <3>2, <4>2 DEF Fixing
        <5>2. Gap = 1 /\ Gap' = 0  BY <3>5, <5>1 DEF Gap
        <5> QED  BY <3>3, <4>1, <5>2, DebtMoves, DebtStep
      <4>3. CASE lock # r
        <5>1. r \in Owed  BY <2>1, <4>3 DEF Owed
        <5> QED  BY <3>3, <4>1, <5>1, DebtMoves, DebtStep
      <4> QED  BY <4>2, <4>3
    <3> QED  BY <3>4, <3>5
  <2> QED  BY <1>4, <2>3, <2>4 DEF K!Recheck, K!Lookup
<1> QED  BY <1>2, <1>3, <1>4

(* Product cards: a load is paid for, and what follows it keeps LoadsInv. *)
LEMMA LoadStep ==
  ASSUME CardsInv, LoadsInv, NEW r \in Req,
         K!Load(r) \/ K!Store(r) \/ K!Release(r) \/ K!Die(r)
  PROVE  LoadsInv'
<1>1. CASE K!Load(r)
  <2>1. /\ pc[r] = "load" /\ UNCHANGED <<card, lock>>
    BY <1>1 DEF K!Load
  <2>2. r \in Owed  BY <2>1 DEF Owed
  <2>3. CASE /\ pc' = [pc EXCEPT ![r] = "store"] /\ UNCHANGED leading
             /\ excuses' = excuses - 1
    <3>1. pc'[r] = "store"  BY <2>3 DEF LoadsInv, ReadersFit
    <3>2. lock = r => (Fixing => Fixing')  BY <2>1, <2>3, <3>1 DEF Fixing
    <3>3. /\ "store" \notin {"idle", "acquire", "poll", "load", "recheck"}
          /\ leading' \in {leading, leading \union {r}, leading \ {r}}
          /\ card' = card /\ lock' = lock
      BY <2>1, <2>3
    <3>4. ReadersFit' /\ Owed' \subseteq Owed \ {r} /\ Gap' <= Gap
      <4>1. /\ ReadersFit' /\ Owed' = Owed \ {r}
            /\ card' = card /\ (~Fixing \/ (lock # r /\ lock' = lock)) => Gap' <= Gap
            /\ card' = card /\ Fixing' => Gap' <= Gap
        BY <2>3, <3>3, ReaderMoves
      <4> QED  BY <3>2, <3>3, <4>1
    <3> QED  BY <2>2, <2>3, <3>4, DebtMoves, DebtStep
  <2>4. CASE K!Leave(r) /\ UNCHANGED excuses
    <3>1. ReadersFit' /\ Owed' \subseteq Owed \ {r}  BY <2>1, <2>4, LeaveMoves
    <3> QED  BY <2>2, <2>4, <3>1, DebtMoves, DebtStep
  <2> QED  BY <1>1, <2>3, <2>4 DEF K!Load, K!Goto, K!NoExcuse
<1>2. CASE K!Store(r)
  <2>1. pc[r] = "store" /\ K!Leave(r) /\ UNCHANGED lock  BY <1>2 DEF K!Store
  <2>2. /\ ReadersFit' /\ Owed' \subseteq Owed
        /\ card' # K!NoCard => Gap' = 0
    BY <2>1, LeaveMoves
  <2>3. CASE card' = loaded[r] /\ UNCHANGED excuses
    <3>1. card' # K!NoCard  BY <2>3 DEF CardsInv, K!NoCard
    <3>2. Gap' <= Gap  BY <2>2, <3>1, DebtTypes
    <3> QED  BY <2>2, <2>3, <3>2, DebtMoves, DebtStep
  <2>4. CASE K!Excuse  BY <2>2, <2>4, DebtMoves, DebtStep
  <2> QED  BY <1>2, <2>3, <2>4 DEF K!Store, K!NoExcuse
<1>3. CASE K!Release(r)
  <2>1. /\ pc[r] = "release" /\ K!Answer(r) /\ UNCHANGED <<card, excuses>>
        /\ lock' = lock \/ (lock = r /\ lock' = NoReq)
    BY <1>3 DEF K!Release
  <2>2. ~Fixing \/ lock # r  BY <2>1 DEF Fixing
  <2>3. ReadersFit' /\ Owed' \subseteq Owed /\ Gap' <= Gap  BY <2>1, <2>2, LeaveMoves
  <2> QED  BY <2>1, <2>3, DebtMoves, DebtStep
<1>4. CASE K!Die(r)
  <2>1. K!Answer(r) /\ UNCHANGED lock /\ K!Excuse  BY <1>4 DEF K!Die
  <2>2. ReadersFit' /\ Owed' \subseteq Owed  BY <2>1, LeaveMoves
  <2> QED  BY <2>1, <2>2, DebtMoves, DebtStep
<1> QED  BY <1>1, <1>2, <1>3, <1>4

(* Product cards: orders, invalidations and expiry keep LoadsInv. *)
LEMMA ElapseStep ==
  ASSUME CardsInv, LoadsInv, UNCHANGED <<pc, leading>>,
         \/ K!CommitOrder \/ K!ChangeSilently \/ K!Invalidate
         \/ K!StoreLate \/ K!ExpireCard \/ K!ExpireLock
  PROVE  LoadsInv'
<1>1. ReadersFit' /\ NoReq \notin Req
  BY ServicesAssumption DEF LoadsInv, ReadersFit
<1>2. ASSUME UNCHANGED lock PROVE Owed' = Owed /\ (Fixing' <=> Fixing)
  BY <1>2 DEF Owed, Fixing
<1>3. CASE K!CommitOrder \/ K!ChangeSilently
  <2>1. UNCHANGED <<card, lock, excuses>>  BY <1>3 DEF K!CommitOrder, K!ChangeSilently
  <2>2. Owed' \subseteq Owed /\ Gap' <= Gap  BY <2>1, <1>2, DebtTypes DEF Gap
  <2> QED  BY <1>1, <2>1, <2>2, DebtMoves, DebtStep
<1>4. CASE K!Invalidate \/ K!ExpireCard
  <2>1. /\ UNCHANGED lock
        /\ K!Excuse \/ (UNCHANGED <<card, excuses>>)
    BY <1>4 DEF K!Invalidate, K!ExpireCard, K!NoExcuse
  <2>2. Owed' \subseteq Owed  BY <2>1, <1>2
  <2>3. CASE UNCHANGED <<card, excuses>>
    <3>1. Gap' <= Gap  BY <2>1, <2>3, <1>2, DebtTypes DEF Gap
    <3> QED  BY <1>1, <2>2, <2>3, <3>1, DebtMoves, DebtStep
  <2> QED  BY <1>1, <2>1, <2>2, <2>3, DebtMoves, DebtStep
<1>5. CASE K!StoreLate
  <2>1. UNCHANGED <<lock, excuses>> /\ card' \in late  BY <1>5 DEF K!StoreLate
  <2>2. card' # K!NoCard  BY <2>1 DEF CardsInv, K!NoCard
  <2>3. Owed' \subseteq Owed /\ Gap' <= Gap  BY <2>1, <2>2, <1>2, DebtTypes DEF Gap
  <2> QED  BY <1>1, <2>1, <2>3, DebtMoves, DebtStep
<1>6. CASE K!ExpireLock
  <2>1. /\ UNCHANGED card /\ lock' = NoReq
        /\ IF lock \in leading /\ pc[lock] # "release" THEN K!Excuse ELSE UNCHANGED excuses
    BY <1>6 DEF K!ExpireLock, K!NoExcuse
  <2>2. ~Fixing'  BY <2>1, <1>1 DEF Fixing, ReadersFit
  <2>3. CASE lock \in leading /\ pc[lock] = "recheck"
    <3>1. Owed' \subseteq Owed \union {lock}  BY <2>1, <1>1 DEF Owed
    <3>2. ~Fixing  BY <2>3 DEF Fixing
    <3>3. Gap' <= Gap  BY <2>1, <2>2, <3>2, DebtTypes DEF Gap
    <3> QED  BY <1>1, <2>1, <2>3, <3>1, <3>3, DebtMoves, DebtStep
  <2>4. CASE ~(lock \in leading /\ pc[lock] = "recheck")
    <3>1. Owed' \subseteq Owed
      BY <2>1, <2>4, <1>1 DEF Owed, LoadsInv, ReadersFit
    <3>2. CASE lock \in leading /\ pc[lock] # "release"
      BY <1>1, <2>1, <3>1, <3>2, DebtMoves, DebtStep
    <3>3. CASE ~(lock \in leading /\ pc[lock] # "release")
      <4>1. ~Fixing  BY <3>3 DEF Fixing
      <4>2. Gap' <= Gap  BY <2>1, <2>2, <4>1, DebtTypes DEF Gap
      <4> QED  BY <1>1, <2>1, <3>1, <3>3, <4>2, DebtMoves, DebtStep
    <3> QED  BY <3>2, <3>3
  <2> QED  BY <2>3, <2>4
<1> QED  BY <1>3, <1>4, <1>5, <1>6

(* Product cards: every step keeps LoadsInv. *)
LEMMA LoadsStep == CardsInv /\ LoadsInv /\ [Next]_vars => LoadsInv'
<1> SUFFICES ASSUME CardsInv, LoadsInv, [Next]_vars PROVE LoadsInv'  OBVIOUS
<1>1. CASE UNCHANGED cards
  BY <1>1 DEF cards, LoadsInv, ReadersFit, Debt, Gap, Fixing, Owed
<1>2. CASE \/ K!CommitOrder \/ K!ChangeSilently \/ K!Invalidate
           \/ K!StoreLate \/ K!ExpireCard \/ K!ExpireLock
  <2>1. UNCHANGED <<pc, leading>>
    BY <1>2 DEF K!CommitOrder, K!ChangeSilently, K!Invalidate, K!StoreLate, K!ExpireCard,
                K!ExpireLock, K!readers
  <2> QED  BY <1>2, <2>1, ElapseStep
<1> QED
  BY <1>1, <1>2, SeekStep, LoadStep, OneService DEF K!Next, K!Proceed

-----------------------------------------------------------------------------
(* A worker at work holds a job that is still new and that no other holds;  *)
(* a job is counted once it is done.                                        *)
WorkersInv ==
  /\ todo \subseteq P!PostJob
  /\ DOMAIN claim = Hand /\ DOMAIN loop = Hand
  /\ processed = [j \in P!PostJob |-> IF j \in todo THEN 0 ELSE 1]
  /\ \A h \in Hand :
       /\ loop[h] = "work" => claim[h] \in todo
       /\ loop[h] # "work" => claim[h] = P!NoJob
       /\ loop[h] = "stopped" => todo = {}
  /\ \A h, g \in Hand : h # g /\ loop[h] = "work" => claim[h] # claim[g]

(* SELECT ... LIMIT 1 finds a job where one is free. *)
LEMMA FirstOf ==
  ASSUME NEW F \in SUBSET Nat, F # {}
  PROVE  (CHOOSE j \in F : \A k \in F : j <= k) \in F
<1>1. PICK x \in F : \A y \in F : x <= y  BY LeastNumber
<1>2. \A y \in F : x <= y  BY <1>1
<1> QED  BY <1>2

(* Post-processing: every step keeps WorkersInv. *)
LEMMA WorkersStep == WorkersInv /\ [Next]_vars => WorkersInv'
<1> SUFFICES ASSUME WorkersInv, [Next]_vars PROVE WorkersInv'  OBVIOUS
<1>0. P!PostJob \subseteq Nat \ {0} /\ P!NoJob = 0
  BY ServicesAssumption DEF P!PostJob, P!NoJob
<1>1. CASE UNCHANGED workers  BY <1>1 DEF workers, WorkersInv
<1>2. ASSUME NEW h \in Hand, P!ClaimOne(h) PROVE WorkersInv'
  <2> DEFINE job1 == CHOOSE j \in P!Free : \A k \in P!Free : j <= k
  <2>1. /\ loop[h] = "claim" /\ P!Free # {}
        /\ claim' = [claim EXCEPT ![h] = job1]
        /\ loop' = [loop EXCEPT ![h] = "work"]
        /\ UNCHANGED <<todo, processed>>
    BY <1>2 DEF P!ClaimOne, P!To
  <2>2. P!Free \in SUBSET Nat  BY <1>0 DEF P!Free, WorkersInv
  <2>3. job1 \in P!Free  BY <2>1, <2>2, FirstOf
  <2> HIDE DEF job1
  <2>4. job1 \in todo /\ \A g \in Hand : claim[g] # job1  BY <2>3 DEF P!Free
  <2>5. job1 # P!NoJob  BY <1>0, <2>4 DEF WorkersInv
  <2> QED  BY <2>1, <2>4, <2>5 DEF WorkersInv
<1>3. ASSUME NEW h \in Hand, P!FindNone(h) PROVE WorkersInv'
  BY <1>3 DEF P!FindNone, P!To, WorkersInv
<1>4. ASSUME NEW h \in Hand, P!Finish(h) PROVE WorkersInv'
  <2>1. /\ loop[h] = "work" /\ claim[h] \in todo
        /\ todo' = todo \ {claim[h]}
        /\ processed' = [processed EXCEPT ![claim[h]] = @ + 1]
        /\ claim' = [claim EXCEPT ![h] = P!NoJob]
        /\ loop' = [loop EXCEPT ![h] = "claim"]
    BY <1>4 DEF P!Finish, P!To, WorkersInv
  <2>2. processed' = [j \in P!PostJob |-> IF j \in todo' THEN 0 ELSE 1]
    <3>1. processed[claim[h]] + 1 = 1  BY <2>1 DEF WorkersInv
    <3> QED  BY <2>1, <3>1 DEF WorkersInv
  <2>3. \A g \in Hand : g # h /\ loop[g] = "work" => claim[g] \in todo'
    BY <2>1 DEF WorkersInv
  <2>4. \A g \in Hand : loop[g] # "stopped"  BY <2>1 DEF WorkersInv
  <2>5. \A g \in Hand : /\ claim'[g] = IF g = h THEN P!NoJob ELSE claim[g]
                        /\ loop'[g] = IF g = h THEN "claim" ELSE loop[g]
    BY <2>1 DEF WorkersInv
  <2>6. \A g \in Hand : loop[g] = "work" => claim[g] # P!NoJob  BY <1>0 DEF WorkersInv
  <2>7. todo' \subseteq P!PostJob /\ DOMAIN claim' = Hand /\ DOMAIN loop' = Hand
    BY <2>1 DEF WorkersInv
  <2>8. \A g, f \in Hand : g # f /\ loop'[g] = "work" => claim'[g] # claim'[f]
    BY <2>5, <2>6 DEF WorkersInv
  <2>9. \A g \in Hand : /\ loop'[g] = "work" => claim'[g] \in todo'
                        /\ loop'[g] # "work" => claim'[g] = P!NoJob
                        /\ loop'[g] = "stopped" => todo' = {}
    BY <2>3, <2>4, <2>5 DEF WorkersInv
  <2> QED  BY <2>2, <2>7, <2>8, <2>9 DEF WorkersInv
<1>5. ASSUME NEW h \in Hand, P!Abort(h) PROVE WorkersInv'
  <2>1. /\ claim' = [claim EXCEPT ![h] = P!NoJob]
        /\ loop' = [loop EXCEPT ![h] = "failed"]
        /\ UNCHANGED <<todo, processed>>
    BY <1>5 DEF P!Abort, P!To
  <2>2. \A g \in Hand : loop[g] = "work" => claim[g] # P!NoJob  BY <1>0 DEF WorkersInv
  <2> QED  BY <2>1, <2>2 DEF WorkersInv
<1>6. ASSUME NEW h \in Hand, P!CountLeft(h) PROVE WorkersInv'
  <2>1. PICK l \in {"stopped", "claim"} :
          /\ loop[h] = "count" /\ loop' = [loop EXCEPT ![h] = l]
          /\ l = "stopped" => todo = {}
          /\ UNCHANGED <<todo, processed, claim>>
    BY <1>6 DEF P!CountLeft, P!To
  <2> QED  BY <2>1 DEF WorkersInv
<1> QED  BY <1>1, <1>2, <1>3, <1>4, <1>5, <1>6, OneService DEF P!Next

-----------------------------------------------------------------------------
(* A receipt has been sent, may be sent by a run under way, or by one that  *)
(* a waiting job will get: each of the three needs a cause.                 *)
Running == {w \in Worker : at[w] = "handling"}
RunsAhead == IF job \in {"waiting", "delayed"} THEN 1 ELSE 0

TasksInv ==
  /\ receipts \in Nat /\ causes \in Nat /\ DOMAIN at = Worker
  /\ receipts + Cardinality(Running) + RunsAhead <= causes

(* Runs under way are counted. *)
LEMMA RunsCounted ==
  ASSUME TasksInv
  PROVE  /\ IsFiniteSet(Running) /\ Cardinality(Running) \in Nat
         /\ RunsAhead \in {0, 1}
  BY ServicesAssumption, FS_Subset, FS_CardinalityType DEF Running, RunsAhead

(* One worker begins or ends a run. *)
LEMMA RunBegins ==
  ASSUME TasksInv, NEW w \in Worker, at[w] # "handling", at' = [at EXCEPT ![w] = "handling"]
  PROVE  Cardinality(Running') = Cardinality(Running) + 1
<1>1. Running' = Running \union {w} /\ w \notin Running  BY DEF Running, TasksInv
<1> QED  BY <1>1, RunsCounted, FS_AddElement

LEMMA RunEnds ==
  ASSUME TasksInv, NEW w \in Worker, at[w] = "handling",
         NEW s, s # "handling", at' = [at EXCEPT ![w] = s]
  PROVE  Cardinality(Running') = Cardinality(Running) - 1
<1>1. Running' = Running \ {w} /\ w \in Running  BY DEF Running, TasksInv
<1> QED  BY <1>1, RunsCounted, FS_RemoveElement

(* Receipt queue: every step keeps TasksInv. *)
LEMMA TasksStep == TasksInv /\ [Next]_vars => TasksInv'
<1> SUFFICES ASSUME TasksInv, [Next]_vars PROVE TasksInv'  OBVIOUS
<1>0. /\ receipts \in Nat /\ causes \in Nat /\ DOMAIN at = Worker
      /\ Cardinality(Running) \in Nat /\ RunsAhead \in {0, 1}
      /\ receipts + Cardinality(Running) + RunsAhead <= causes
  BY RunsCounted DEF TasksInv
<1>1. CASE UNCHANGED tasks
  BY <1>1 DEF tasks, TasksInv, Running, RunsAhead
<1>2. ASSUME UNCHANGED <<at, receipts>>, causes' \in Nat, causes + RunsAhead' <= causes' + RunsAhead
      PROVE  TasksInv'
  <2>1. Cardinality(Running') = Cardinality(Running)  BY <1>2 DEF Running
  <2>2. RunsAhead' \in {0, 1}  BY DEF RunsAhead
  <2>3. receipts + Cardinality(Running) + RunsAhead' <= causes'
    <3> DEFINE x == causes'
               y == RunsAhead'
               n == Cardinality(Running)
    <3>1. x \in Nat /\ causes + y <= x + RunsAhead  BY <1>2
    <3>2. y \in Nat  BY <2>2
    <3>3. n \in Nat /\ RunsAhead \in Nat /\ receipts + n + RunsAhead <= causes  BY <1>0
    <3>4. receipts \in Nat /\ causes \in Nat  BY <1>0
    <3> HIDE DEF x, y, n
    <3>5. receipts + n + y <= x  BY ONLY <3>1, <3>2, <3>3, <3>4
    <3> QED  BY <3>5 DEF x, y, n
  <2> QED  BY <1>0, <1>2, <2>1, <2>3 DEF TasksInv
<1>3. CASE T!EnqueueReceipt \/ T!BackoffOver \/ T!Stall \/ T!Forget
  <2>1. UNCHANGED <<at, receipts>>
    BY <1>3 DEF T!EnqueueReceipt, T!BackoffOver, T!Stall, T!Forget
  <2>2. causes' \in Nat /\ causes + RunsAhead' <= causes' + RunsAhead
    BY <1>0, <1>3 DEF T!EnqueueReceipt, T!BackoffOver, T!Stall, T!Forget, RunsAhead
  <2> QED  BY <1>2, <2>1, <2>2
<1>4. ASSUME NEW w \in Worker, T!Take(w) PROVE TasksInv'
  <2>1. /\ UNCHANGED <<receipts, causes>> /\ at[w] = "idle"
        /\ at' = [at EXCEPT ![w] = "handling"]
        /\ RunsAhead = 1 /\ RunsAhead' = 0
    BY <1>4 DEF T!Take, RunsAhead
  <2>2. Cardinality(Running') = Cardinality(Running) + 1  BY <2>1, RunBegins
  <2> QED  BY <1>0, <2>1, <2>2 DEF TasksInv
<1>5. ASSUME NEW w \in Worker, T!SendReceipt(w) PROVE TasksInv'
  <2>1. /\ UNCHANGED causes /\ receipts' = receipts + 1 /\ at[w] = "handling"
        /\ at' = [at EXCEPT ![w] = "sent"]
        /\ RunsAhead' = RunsAhead
    BY <1>5 DEF T!SendReceipt, RunsAhead
  <2>2. Cardinality(Running') = Cardinality(Running) - 1  BY <2>1, RunEnds
  <2> QED  BY <1>0, <2>1, <2>2 DEF TasksInv
<1>6. ASSUME NEW w \in Worker, T!FailAttempt(w) PROVE TasksInv'
  <2>1. /\ UNCHANGED <<receipts, causes>> /\ at[w] = "handling"
        /\ at' = [at EXCEPT ![w] = "idle"]
    BY <1>6 DEF T!FailAttempt
  <2>2. RunsAhead' \in {0, 1}  BY DEF RunsAhead
  <2>3. RunsAhead' <= RunsAhead + 1  BY <1>0, <2>2
  <2>4. Cardinality(Running') = Cardinality(Running) - 1  BY <2>1, RunEnds
  <2> QED  BY <1>0, <2>1, <2>2, <2>3, <2>4 DEF TasksInv
<1>7. ASSUME NEW w \in Worker, T!Complete(w) \/ T!Kill(w) PROVE TasksInv'
  <2>1. /\ UNCHANGED <<receipts, causes>>
        /\ at' = [at EXCEPT ![w] = "idle"]
        /\ RunsAhead' \in {0, RunsAhead}
    BY <1>7 DEF T!Complete, T!Kill, RunsAhead
  <2>2. CASE at[w] = "handling"
    <3>1. Cardinality(Running') = Cardinality(Running) - 1  BY <2>1, <2>2, RunEnds
    <3> QED  BY <1>0, <2>1, <3>1 DEF TasksInv
  <2>3. CASE at[w] # "handling"
    <3>1. Running' = Running  BY <1>0, <2>1, <2>3 DEF Running
    <3> QED  BY <1>0, <2>1, <3>1 DEF TasksInv
  <2> QED  BY <2>2, <2>3
<1> QED  BY <1>1, <1>3, <1>4, <1>5, <1>6, <1>7, OneService DEF T!Next, T!Run

-----------------------------------------------------------------------------
(* A transaction that still sees the newest version has read the balance of *)
(* that version, and one that has locked the row does see it; a version is  *)
(* a commit, and an attempt is over only after one more commit.             *)
Amount == [b \in Bump |-> b]

BumpsInv ==
  /\ snapshot \in [Bump -> Nat] /\ read \in [Bump -> Int]
  /\ attempt \in [Bump -> Nat] /\ DOMAIN turn = Bump
  /\ version = Cardinality(B!Applied)
  /\ balance = SumFunctionOnSet(Amount, B!Applied)
  /\ \A b \in Bump :
       /\ turn[b] = "begin" => attempt[b] - 1 <= version
       /\ turn[b] = "think" =>
            /\ attempt[b] - 1 <= snapshot[b] /\ snapshot[b] <= version
            /\ snapshot[b] = version => read[b] = balance
       /\ turn[b] = "commit" => holder = {b} /\ read[b] = balance
       /\ turn[b] = "gaveUp" => MaxAttempts <= version

(* Bumps applied are finitely many numbers. *)
LEMMA AppliedFinite ==
  ASSUME BumpsInv
  PROVE  /\ IsFiniteSet(B!Applied) /\ B!Applied \in SUBSET Bump
         /\ version \in Nat /\ balance \in Int
         /\ \A b \in Bump : Amount[b] = b /\ b \in Int
<1>1. IsFiniteSet(B!Applied) /\ B!Applied \in SUBSET Bump
  BY ServicesAssumption, FS_Subset DEF B!Applied
<1>2. \A b \in Bump : Amount[b] = b /\ b \in Int  BY ServicesAssumption DEF Amount
<1>3. SumFunctionOnSet(Amount, B!Applied) \in Int  BY <1>1, <1>2, SumType
<1> QED  BY <1>1, <1>2, <1>3, FS_CardinalityType DEF BumpsInv

(* Retried transactions: every step keeps BumpsInv. *)
LEMMA BumpsStep == BumpsInv /\ [Next]_vars => BumpsInv'
<1> SUFFICES ASSUME BumpsInv, [Next]_vars PROVE BumpsInv'  OBVIOUS
<1>0. /\ IsFiniteSet(B!Applied) /\ B!Applied \in SUBSET Bump
      /\ version \in Nat /\ balance \in Int /\ MaxAttempts \in Nat
      /\ \A b \in Bump : Amount[b] = b /\ b \in Int
  BY AppliedFinite, ServicesAssumption
<1>1. CASE UNCHANGED bumps  BY <1>1 DEF bumps, BumpsInv, B!Applied
<1>2. ASSUME NEW b \in Bump, B!Select(b) PROVE BumpsInv'
  <2>1. /\ turn[b] = "begin" /\ turn' = [turn EXCEPT ![b] = "think"]
        /\ snapshot' = [snapshot EXCEPT ![b] = version]
        /\ read' = [read EXCEPT ![b] = balance]
        /\ UNCHANGED <<balance, version, holder, attempt>>
    BY <1>2 DEF B!Select, B!To
  <2>2. B!Applied' = B!Applied  BY <2>1 DEF B!Applied, BumpsInv
  <2> QED  BY <1>0, <2>1, <2>2 DEF BumpsInv
<1>3. ASSUME NEW b \in Bump, B!Update(b) PROVE BumpsInv'
  <2>1. /\ turn[b] = "think" /\ turn' = [turn EXCEPT ![b] = "commit"]
        /\ holder = {} /\ holder' = {b} /\ version = snapshot[b]
        /\ UNCHANGED <<balance, version, snapshot, read, attempt>>
    BY <1>3 DEF B!Update, B!To
  <2>2. B!Applied' = B!Applied  BY <2>1 DEF B!Applied, BumpsInv
  <2>3. \A c \in Bump : turn[c] # "commit"  BY <2>1 DEF BumpsInv
  <2> QED  BY <1>0, <2>1, <2>2, <2>3 DEF BumpsInv
<1>4. ASSUME NEW b \in Bump, B!SerializationFailure(b) PROVE BumpsInv'
  <2>1. /\ turn[b] = "think" /\ version # snapshot[b]
        /\ UNCHANGED <<balance, version, snapshot, read, holder>>
        /\ \/ /\ attempt' = [attempt EXCEPT ![b] = @ + 1]
              /\ turn' = [turn EXCEPT ![b] = "begin"]
           \/ /\ attempt[b] >= MaxAttempts
              /\ turn' = [turn EXCEPT ![b] = "gaveUp"]
              /\ UNCHANGED attempt
    BY <1>4 DEF B!SerializationFailure, B!To
  <2>2. B!Applied' = B!Applied  BY <2>1 DEF B!Applied, BumpsInv
  <2>3. attempt[b] \in Nat /\ snapshot[b] \in Nat /\ attempt[b] <= version
    BY <1>0, <2>1 DEF BumpsInv
  <2> QED  BY <1>0, <2>1, <2>2, <2>3 DEF BumpsInv
<1>5. ASSUME NEW b \in Bump, B!Commit(b) PROVE BumpsInv'
  <2>1. /\ turn[b] = "commit" /\ balance' = read[b] + b /\ version' = version + 1
        /\ \E s \in {"done", "unanswered"} : turn' = [turn EXCEPT ![b] = s]
        /\ UNCHANGED <<snapshot, read, attempt>>
    BY <1>5 DEF B!Commit, B!To
  <2>2. read[b] = balance /\ \A c \in Bump : turn[c] = "commit" => c = b
    BY <2>1 DEF BumpsInv
  <2>3. B!Applied' = B!Applied \union {b} /\ b \notin B!Applied
    BY <2>1 DEF B!Applied, BumpsInv
  <2>4. Cardinality(B!Applied \union {b}) = Cardinality(B!Applied) + 1
    BY <1>0, <2>3, FS_AddElement
  <2>5. SumFunctionOnSet(Amount, B!Applied \union {b})
          = SumFunctionOnSet(Amount, B!Applied) + Amount[b]
    <3>1. \A x \in B!Applied \union {b} : Amount[x] \in Int  BY <1>0
    <3> QED  BY <1>0, <2>3, <3>1, SumAdds
  <2>6. Cardinality(B!Applied)' = version' /\ SumFunctionOnSet(Amount, B!Applied)' = balance'
    BY <1>0, <2>1, <2>2, <2>3, <2>4, <2>5 DEF BumpsInv, Amount
  <2>7. /\ DOMAIN turn' = Bump
        /\ \A c \in Bump : /\ turn'[c] \in {"begin", "think", "gaveUp"} => turn'[c] = turn[c]
                           /\ turn'[c] # "commit"
    BY <2>1, <2>2 DEF BumpsInv
  <2> QED  BY <1>0, <2>1, <2>6, <2>7 DEF BumpsInv
<1>6. ASSUME NEW b \in Bump, B!Break(b) PROVE BumpsInv'
  <2>1. /\ turn[b] \in {"begin", "think", "commit"} /\ holder' = holder \ {b}
        /\ turn' = [turn EXCEPT ![b] = "broken"]
        /\ UNCHANGED <<balance, version, snapshot, read, attempt>>
    BY <1>6 DEF B!Break, B!To
  <2>2. B!Applied' = B!Applied  BY <2>1 DEF B!Applied, BumpsInv
  <2>3. \A c \in Bump : c # b /\ turn[c] = "commit" => holder' = {c}
    BY <2>1 DEF BumpsInv
  <2> QED  BY <1>0, <2>1, <2>2, <2>3 DEF BumpsInv
<1> QED  BY <1>1, <1>2, <1>3, <1>4, <1>5, <1>6, OneService DEF B!Next

-----------------------------------------------------------------------------
(* Nothing is let through beyond what is recorded or goes unchecked, from   *)
(* whatever moment of the window one counts.  The key outlives its entries, *)
(* and a client is sent away until one of them is out of the window.        *)
LimiterTypeOK ==
  /\ clock \in Int /\ keyEnds \in Int /\ failOpen \in BOOLEAN /\ advice \in Int
  /\ zset \in Seq(Int) /\ granted \in Seq(Int) /\ unchecked \in Seq(Int)

ScoresFit == \A k \in DOMAIN zset : zset[k] <= clock /\ zset[k] + Window <= keyEnds
GrantsFit == \A k \in DOMAIN granted : granted[k] > clock - Window
GrantsCounted ==
  \A a \in Int : clock - Window <= a =>
    Count(granted, a) <= Count(zset, a) + Count(unchecked, a)
AdviceFits == advice # 0 => Count(zset, advice - Window) < Limit

LimiterInv ==
  /\ LimiterTypeOK
  /\ ScoresFit
  /\ Count(zset, clock - Window) <= Limit
  /\ GrantsFit
  /\ GrantsCounted
  /\ ~failOpen => unchecked = <<>>
  /\ AdviceFits

LEMMA LimiterSelects ==
  ASSUME NEW s, NEW a
  PROVE  R!Since(s, a) = Selected(s, Beyond(s, a))
  BY DEF R!Since, R!Selected, R!Ascending, Selected, Ascending, Beyond, Cardinality, R!Cardinality

(* Dropping the outdated scores. *)
LEMMA SinceKeeps ==
  ASSUME NEW s \in Seq(Int), NEW a \in Int
  PROVE  /\ R!Since(s, a) \in Seq(Int) /\ Len(R!Since(s, a)) = Count(s, a)
         /\ \A j \in DOMAIN R!Since(s, a) : \E k \in DOMAIN s : s[k] > a /\ R!Since(s, a)[j] = s[k]
         /\ \A b \in Int : a <= b => Count(R!Since(s, a), b) = Count(s, b)
  BY LimiterSelects, CountSelected

(* Retry-After covers the time until the oldest score is out of the window. *)
LEMMA SecondsCover ==
  ASSUME NEW n \in Int
  PROVE  R!Seconds(n) * PerSecond \in Int /\ R!Seconds(n) * PerSecond >= n
<1> DEFINE p == PerSecond
           m == n + p - 1
           q == m \div p
<1>1. p \in Int /\ p > 0  BY AccessAssumption
<1>2. m \in Int /\ n = m - p + 1  BY <1>1
<1> HIDE DEF m, p
<1>3. q \in Int /\ m < p * q + p  BY <1>1, <1>2
<1> HIDE DEF q
<1>4. p * q \in Int /\ p * q >= n  BY <1>1, <1>2, <1>3
<1>5. q < 1 => p * q <= 0  BY <1>1, <1>3
<1>6. R!Seconds(n) = IF q < 1 THEN 1 ELSE q
  BY DEF R!Seconds, R!CeilingOf, q, m, p
<1>7. R!Seconds(n) * p \in Int /\ R!Seconds(n) * p >= n
  <2>1. CASE q < 1  BY <1>1, <1>4, <1>5, <1>6, <2>1
  <2>2. CASE ~(q < 1)  BY <1>1, <1>3, <1>4, <1>6, <2>2
  <2> QED  BY <2>1, <2>2
<1> QED  BY <1>7 DEF p

(* The oldest score is not beyond itself. *)
LEMMA CountBeyondFirst ==
  ASSUME NEW s \in Seq(Int), s # <<>>, NEW a \in Int, s[1] <= a
  PROVE  Count(s, a) < Len(s)
<1> DEFINE Places == DOMAIN s
<1>1. Places = 1 .. Len(s) /\ Len(s) \in Nat /\ 1 \in Places  OBVIOUS
<1>2. IsFiniteSet(Places) /\ Cardinality(Places) = Len(s)  BY <1>1, FS_Interval
<1> HIDE DEF Places
<1>3. IsFiniteSet(Places \ {1}) /\ Cardinality(Places \ {1}) = Len(s) - 1
  BY <1>1, <1>2, FS_RemoveElement, ZenonT(30)
<1>4. Beyond(s, a) \subseteq Places \ {1}
  <2>1. s[1] \in Int  BY <1>1
  <2>2. ~(s[1] > a)  BY <2>1
  <2> QED  BY <2>2 DEF Beyond, Places
<1>5. Count(s, a) <= Len(s) - 1 /\ Count(s, a) \in Nat
  BY <1>3, <1>4, FS_Subset, CountType, ZenonT(30) DEF Count
<1> QED  BY <1>1, <1>5

LEMMA NothingCounts == ASSUME NEW a \in Int PROVE Count(<<>>, a) = 0
<1>1. <<>> \in Seq(Int) /\ DOMAIN <<>> = {}  OBVIOUS
<1> QED  BY <1>1, CountType

(* The numbers of the limiter. *)
LEMMA LimiterNumbers ==
  ASSUME LimiterInv
  PROVE  /\ clock \in Int /\ Window \in Int /\ Window > 0 /\ Limit \in Int /\ Limit > 0
         /\ clock - Window \in Int /\ clock - Window < clock
         /\ \A k \in DOMAIN zset : zset[k] \in Int /\ zset[k] <= clock
         /\ \A a \in Int : /\ Count(zset, a) \in Nat /\ Count(granted, a) \in Nat
                           /\ Count(unchecked, a) \in Nat
<1>1. Window \in Nat \ {0} /\ Limit \in Nat \ {0}  BY ServicesAssumption
<1>2. /\ clock \in Int /\ zset \in Seq(Int) /\ granted \in Seq(Int) /\ unchecked \in Seq(Int)
  BY DEF LimiterInv, LimiterTypeOK
<1>3. \A k \in DOMAIN zset : zset[k] \in Int  BY <1>2
<1>4. \A k \in DOMAIN zset : zset[k] <= clock  BY DEF LimiterInv, ScoresFit
<1>5. \A a \in Int : /\ Count(zset, a) \in Nat /\ Count(granted, a) \in Nat
                     /\ Count(unchecked, a) \in Nat
  BY <1>2, CountType
<1>6. clock - Window \in Int /\ clock - Window < clock  BY <1>1, <1>2
<1> QED  BY <1>1, <1>2, <1>3, <1>4, <1>5, <1>6

(* The script below the limit: one more is counted, within the limit.       *)
LEMMA RecordCounts ==
  ASSUME LimiterInv, R!Record
  PROVE  /\ zset' \in Seq(Int) /\ keyEnds' \in Int
         /\ \A k \in DOMAIN zset' : zset'[k] <= clock /\ zset'[k] + Window <= keyEnds'
         /\ Count(zset', clock - Window) <= Limit
         /\ \A a \in Int : clock - Window <= a =>
              Count(zset', a) = Count(zset, a) + (IF clock > a THEN 1 ELSE 0)
<1> DEFINE start == clock - Window
           W == R!Since(zset, start)
<1>1. /\ clock \in Int /\ Window \in Int /\ Window > 0 /\ Limit \in Int
      /\ start \in Int /\ start < clock
      /\ \A k \in DOMAIN zset : zset[k] <= clock /\ zset[k] \in Int
  BY LimiterNumbers
<1>2. Len(W) < Limit /\ zset' = Append(W, clock) /\ keyEnds' = clock + Window
  BY DEF R!Record, R!Within
<1>3. zset \in Seq(Int)  BY DEF LimiterInv, LimiterTypeOK
<1> HIDE DEF start
<1>4. /\ W \in Seq(Int) /\ Len(W) = Count(zset, start)
      /\ \A j \in DOMAIN W : \E k \in DOMAIN zset : zset[k] > start /\ W[j] = zset[k]
      /\ \A b \in Int : start <= b => Count(W, b) = Count(zset, b)
  BY <1>1, <1>3, SinceKeeps
<1> HIDE DEF W
<1>5. zset' \in Seq(Int) /\ keyEnds' \in Int  BY <1>1, <1>2, <1>4
<1>6. \A k \in DOMAIN zset' : zset'[k] <= clock /\ zset'[k] + Window <= keyEnds'
  <2> SUFFICES ASSUME NEW k \in DOMAIN zset'
               PROVE  zset'[k] <= clock /\ zset'[k] + Window <= keyEnds'
    OBVIOUS
  <2>1. (k \in DOMAIN W /\ zset'[k] = W[k]) \/ zset'[k] = clock  BY <1>1, <1>2, <1>4
  <2>2. zset'[k] <= clock /\ zset'[k] \in Int  BY <1>1, <1>4, <2>1
  <2> QED  BY <1>1, <1>2, <2>2
<1>7. \A a \in Int : start <= a =>
        Count(zset', a) = Count(zset, a) + (IF clock > a THEN 1 ELSE 0)
  BY <1>1, <1>2, <1>4, CountAppend
<1>8. Count(zset', start) <= Limit
  <2>1. Count(zset', start) = Count(zset, start) + 1  BY <1>1, <1>7
  <2>2. Len(W) \in Int  BY <1>4
  <2> QED  BY <1>1, <1>2, <1>4, <2>1, <2>2
<1> QED  BY <1>5, <1>6, <1>7, <1>8 DEF start

LEMMA Appended ==
  ASSUME NEW s \in Seq(Int), NEW t \in Int
  PROVE  /\ Append(s, t) \in Seq(Int)
         /\ \A k \in DOMAIN Append(s, t) :
              Append(s, t)[k] = t \/ (k \in DOMAIN s /\ Append(s, t)[k] = s[k])
  OBVIOUS

(* One more is let through, and counted or unchecked. *)
LEMMA GrantCounts ==
  ASSUME LimiterInv, granted' = Append(granted, clock), UNCHANGED clock,
         \/ R!Record /\ UNCHANGED unchecked
         \/ /\ unchecked' = Append(unchecked, clock)
            /\ \A a \in Int : clock - Window <= a =>
                 Count(zset, a) <= Count(zset', a) /\ Count(zset', a) \in Nat
  PROVE  /\ granted' \in Seq(Int) /\ unchecked' \in Seq(Int)
         /\ GrantsFit' /\ GrantsCounted'
<1>1. /\ clock \in Int /\ clock - Window < clock
      /\ granted \in Seq(Int) /\ unchecked \in Seq(Int)
      /\ \A k \in DOMAIN granted : granted[k] > clock - Window
  BY LimiterNumbers DEF LimiterInv, LimiterTypeOK, GrantsFit
<1>2. granted' \in Seq(Int) /\ unchecked' \in Seq(Int)
  <2>1. unchecked' \in {unchecked, Append(unchecked, clock)}  OBVIOUS
  <2> QED  BY <1>1, <2>1, Appended
<1>3. \A k \in DOMAIN granted' :
        granted'[k] = clock \/ (k \in DOMAIN granted /\ granted'[k] = granted[k])
  BY <1>1, Appended
<1>4. \A k \in DOMAIN granted' : granted'[k] > clock - Window  BY <1>1, <1>3
<1>5. ASSUME NEW a \in Int, clock - Window <= a
      PROVE  Count(granted', a) <= Count(zset', a) + Count(unchecked', a)
  <2> DEFINE one == IF clock > a THEN 1 ELSE 0
             g == Count(granted, a)
             h == Count(granted', a)
             y == Count(zset, a)
             z == Count(zset', a)
             u == Count(unchecked, a)
             v == Count(unchecked', a)
  <2>1. g \in Nat /\ y \in Nat /\ u \in Nat /\ one \in Nat  BY LimiterNumbers
  <2>2. g <= y + u  BY <1>5 DEF LimiterInv, GrantsCounted
  <2>3. h = g + one  BY <1>1, CountAppend
  <2>4. CASE R!Record /\ UNCHANGED unchecked
    <3>1. z = y + one /\ v = u  BY <1>5, <2>4, RecordCounts
    <3> HIDE DEF one, g, h, y, z, u, v
    <3>2. h <= z + v  BY <2>1, <2>2, <2>3, <3>1
    <3> QED  BY <3>2 DEF h, z, v
  <2>5. CASE /\ unchecked' = Append(unchecked, clock)
             /\ \A b \in Int : clock - Window <= b =>
                  Count(zset, b) <= Count(zset', b) /\ Count(zset', b) \in Nat
    <3>1. z >= y /\ z \in Nat /\ v = u + one  BY <1>1, <1>5, <2>5, CountAppend
    <3> HIDE DEF one, g, h, y, z, u, v
    <3>2. h <= z + v  BY <2>1, <2>2, <2>3, <3>1
    <3> QED  BY <3>2 DEF h, z, v
  <2> QED  BY <2>4, <2>5
<1>6. \A a \in Int : clock - Window <= a =>
        Count(granted', a) <= Count(zset', a) + Count(unchecked', a)
  BY <1>5
<1> QED  BY <1>2, <1>4, <1>6 DEF GrantsFit, GrantsCounted

(* The scores after a command that failed, executed or not. *)
LEMMA MaybeRecorded ==
  ASSUME LimiterInv, UNCHANGED clock,
         \/ R!Record /\ advice' = 0
         \/ UNCHANGED <<zset, keyEnds>> /\ advice' \in {0, advice}
  PROVE  /\ zset' \in Seq(Int) /\ keyEnds' \in Int /\ advice' \in Int
         /\ ScoresFit' /\ Count(zset', clock - Window) <= Limit /\ AdviceFits'
         /\ \A a \in Int : clock - Window <= a =>
              Count(zset, a) <= Count(zset', a) /\ Count(zset', a) \in Nat
<1>1. CASE R!Record /\ advice' = 0
  <2>1. ASSUME NEW a \in Int, clock - Window <= a
        PROVE  Count(zset, a) <= Count(zset', a) /\ Count(zset', a) \in Nat
    <3>1. Count(zset', a) = Count(zset, a) + (IF clock > a THEN 1 ELSE 0)
      BY <1>1, <2>1, RecordCounts
    <3>2. Count(zset, a) \in Nat  BY LimiterNumbers
    <3> QED  BY <3>1, <3>2
  <2>2. ScoresFit' /\ AdviceFits'  BY <1>1, RecordCounts DEF ScoresFit, AdviceFits
  <2> QED  BY <1>1, <2>1, <2>2, RecordCounts
<1>2. CASE UNCHANGED <<zset, keyEnds>> /\ advice' \in {0, advice}
  <2>1. ASSUME NEW a \in Int
        PROVE  Count(zset, a) <= Count(zset', a) /\ Count(zset', a) \in Nat
    <3>1. Count(zset, a) \in Nat /\ zset' = zset  BY <1>2, LimiterNumbers
    <3> QED  BY <3>1
  <2>2. ScoresFit' /\ AdviceFits'  BY <1>2 DEF LimiterInv, ScoresFit, AdviceFits
  <2>3. zset \in Seq(Int) /\ keyEnds \in Int /\ advice \in Int /\ 0 \in Int
    BY DEF LimiterInv, LimiterTypeOK
  <2>4. zset' \in Seq(Int) /\ keyEnds' \in Int /\ advice' \in Int  BY <1>2, <2>3
  <2>5. Count(zset', clock - Window) <= Limit  BY <1>2 DEF LimiterInv
  <2> QED  BY <2>1, <2>2, <2>4, <2>5
<1> QED  BY <1>1, <1>2

(* A refusal drops what is outdated, and its advice holds. *)
LEMMA RefuseStep == ASSUME LimiterInv, R!Refuse PROVE LimiterInv'
<1> DEFINE start == clock - Window
           W == R!Since(zset, start)
           rest == Head(W) + Window - clock
           wait == R!Seconds(rest) * PerSecond
<1>1. /\ Len(W) >= Limit /\ zset' = W
      /\ UNCHANGED <<keyEnds, clock, failOpen, granted, unchecked>>
      /\ advice' = clock + wait
  BY DEF R!Refuse, R!TurnAway, R!Within
<1>2. /\ clock \in Int /\ Window \in Int /\ Limit \in Int /\ Limit > 0 /\ start \in Int
      /\ zset \in Seq(Int)
  BY LimiterNumbers DEF LimiterInv, LimiterTypeOK
<1>3. /\ W \in Seq(Int) /\ Len(W) = Count(zset, start)
      /\ \A j \in DOMAIN W : \E k \in DOMAIN zset : zset[k] > start /\ W[j] = zset[k]
      /\ \A b \in Int : start <= b => Count(W, b) = Count(zset, b)
  BY <1>2, SinceKeeps
<1>4. Count(zset, start) <= Limit  BY DEF LimiterInv
<1> HIDE DEF W
<1>5. Len(W) = Limit
  <2>1. Len(W) \in Int  BY <1>3
  <2> QED  BY <1>1, <1>2, <1>3, <1>4, <2>1
<1>6. W # <<>> /\ Head(W) = W[1] /\ W[1] \in Int  BY <1>2, <1>3, <1>5
<1>7. rest \in Int /\ clock + rest = W[1] + Window  BY <1>2, <1>6
<1> HIDE DEF rest
<1>8. wait \in Int /\ wait >= rest  BY <1>7, SecondsCover
<1> HIDE DEF wait
<1>9. advice' \in Int /\ advice' - Window \in Int /\ W[1] <= advice' - Window
  BY <1>1, <1>2, <1>6, <1>7, <1>8
<1>10. Count(W, advice' - Window) < Limit  BY <1>3, <1>5, <1>6, <1>9, CountBeyondFirst
<1>11. LimiterTypeOK'  BY <1>1, <1>3, <1>9 DEF LimiterInv, LimiterTypeOK
<1>12. ScoresFit'
  <2>1. \A j \in DOMAIN W : W[j] <= clock /\ W[j] + Window <= keyEnds
    BY <1>3 DEF LimiterInv, ScoresFit
  <2> QED  BY <1>1, <2>1 DEF ScoresFit
<1>13. \A a \in Int : start <= a => Count(W, a) = Count(zset, a)  BY <1>3
<1>14. Count(W, start) <= Limit  BY <1>2, <1>4, <1>13
<1>15. GrantsCounted'  BY <1>1, <1>13 DEF LimiterInv, GrantsCounted
<1>16. AdviceFits'  BY <1>1, <1>10 DEF AdviceFits
<1>17. GrantsFit'  BY <1>1 DEF LimiterInv, GrantsFit
<1> QED  BY <1>1, <1>11, <1>12, <1>14, <1>15, <1>16, <1>17 DEF LimiterInv

(* Time passes: what leaves the window is no longer counted on either side. *)
LEMMA ClockStep == ASSUME LimiterInv, R!TickLimiter PROVE LimiterInv'
<1> DEFINE start == clock - Window
           later == clock' - Window
<1>1. /\ clock' = clock + 1 /\ UNCHANGED <<failOpen, advice>>
      /\ granted' = R!Since(granted, later) /\ unchecked' = R!Since(unchecked, later)
      /\ \/ clock' >= keyEnds /\ zset' = <<>> /\ keyEnds' = 0
         \/ UNCHANGED <<zset, keyEnds>>
  BY DEF R!TickLimiter
<1>2. /\ clock \in Int /\ Window \in Int /\ Limit \in Int /\ Limit > 0 /\ start \in Int
      /\ clock' \in Int /\ later \in Int /\ start <= later
  <2>1. clock \in Int /\ Window \in Int /\ Limit \in Int /\ Limit > 0  BY LimiterNumbers
  <2> QED  BY <1>1, <2>1
<1>3. /\ keyEnds \in Int /\ advice \in Int
      /\ zset \in Seq(Int) /\ granted \in Seq(Int) /\ unchecked \in Seq(Int)
  BY DEF LimiterInv, LimiterTypeOK
<1> HIDE DEF start, later
<1>4. \A a \in Int : later <= a => start <= a  BY <1>2
<1>5. /\ granted' \in Seq(Int)
      /\ \A j \in DOMAIN granted' : \E k \in DOMAIN granted :
           granted[k] > later /\ granted'[j] = granted[k]
      /\ \A a \in Int : later <= a => Count(granted', a) = Count(granted, a)
  <2> DEFINE g == R!Since(granted, later)
  <2>1. /\ g \in Seq(Int)
        /\ \A j \in DOMAIN g : \E k \in DOMAIN granted : granted[k] > later /\ g[j] = granted[k]
        /\ \A a \in Int : later <= a => Count(g, a) = Count(granted, a)
    BY <1>2, <1>3, SinceKeeps
  <2>2. granted' = g  BY <1>1
  <2> HIDE DEF g
  <2> QED  BY <2>1, <2>2
<1>6. /\ unchecked' \in Seq(Int) /\ Len(unchecked') = Count(unchecked, later)
      /\ \A a \in Int : later <= a => Count(unchecked', a) = Count(unchecked, a)
  BY <1>1, <1>2, <1>3, SinceKeeps
<1>7. ~failOpen' => unchecked' = <<>>
  <2>1. ~failOpen => Len(unchecked') = 0  BY <1>2, <1>6, NothingCounts DEF LimiterInv
  <2> QED  BY <1>1, <1>6, <2>1
<1>8. /\ zset' \in Seq(Int) /\ keyEnds' \in Int /\ ScoresFit' /\ AdviceFits'
      /\ \A a \in Int : later <= a => Count(zset', a) = Count(zset, a)
  <2>1. CASE UNCHANGED <<zset, keyEnds>>
    <3>1. \A k \in DOMAIN zset : zset[k] <= clock' /\ zset[k] + Window <= keyEnds
      <4>1. \A k \in DOMAIN zset : zset[k] \in Int /\ zset[k] <= clock  BY LimiterNumbers
      <4>2. \A k \in DOMAIN zset : zset[k] + Window <= keyEnds  BY DEF LimiterInv, ScoresFit
      <4>3. \A k \in DOMAIN zset : zset[k] <= clock'  BY <1>1, <1>2, <4>1
      <4> QED  BY <4>2, <4>3
    <3>2. AdviceFits'  BY <1>1, <2>1 DEF LimiterInv, AdviceFits
    <3> QED  BY <1>3, <2>1, <3>1, <3>2 DEF ScoresFit
  <2>2. CASE clock' >= keyEnds /\ zset' = <<>> /\ keyEnds' = 0
    <3>1. ASSUME NEW k \in DOMAIN zset PROVE zset[k] \in Int /\ zset[k] <= later
      <4>1. zset[k] \in Int /\ zset[k] + Window <= keyEnds
        BY LimiterNumbers DEF LimiterInv, ScoresFit
      <4> QED  BY <1>2, <1>3, <2>2, <4>1 DEF later
    <3>2. ASSUME NEW a \in Int, later <= a PROVE Count(zset, a) = 0
      <4>1. \A k \in DOMAIN zset : zset[k] <= a  BY <1>2, <3>1, <3>2
      <4> QED  BY <1>3, <4>1, CountType
    <3>3. \A a \in Int : Count(zset', a) = 0  BY <2>2, NothingCounts
    <3>4. zset' \in Seq(Int) /\ DOMAIN zset' = {}  BY <2>2
    <3>5. advice' - Window \in Int  BY <1>1, <1>2, <1>3
    <3>6. ScoresFit' /\ AdviceFits'  BY <1>2, <3>3, <3>4, <3>5 DEF ScoresFit, AdviceFits
    <3> QED  BY <2>2, <3>2, <3>3, <3>4, <3>6
  <2> QED  BY <1>1, <2>1, <2>2
<1>9. Count(zset', later) <= Limit
  <2>1. Count(zset, later) <= Count(zset, start)  BY <1>2, <1>3, CountType
  <2>2. Count(zset, start) <= Limit  BY DEF LimiterInv, start
  <2>3. Count(zset, later) \in Int /\ Count(zset, start) \in Int  BY <1>2, LimiterNumbers
  <2>4. Count(zset', later) = Count(zset, later)  BY <1>2, <1>8
  <2> QED  BY <1>2, <2>1, <2>2, <2>3, <2>4
<1>10. GrantsCounted'
  <2>1. ASSUME NEW a \in Int, later <= a
        PROVE  Count(granted', a) <= Count(zset', a) + Count(unchecked', a)
    <3>1. start <= a  BY <1>4, <2>1
    <3>2. Count(granted, a) <= Count(zset, a) + Count(unchecked, a)
      BY <3>1 DEF LimiterInv, GrantsCounted, start
    <3> QED  BY <1>5, <1>6, <1>8, <2>1, <3>2
  <2> QED  BY <2>1 DEF GrantsCounted, later
<1>11. GrantsFit'  BY <1>5 DEF GrantsFit, later
<1>12. LimiterTypeOK'  BY <1>1, <1>2, <1>5, <1>6, <1>8 DEF LimiterInv, LimiterTypeOK
<1> QED  BY <1>7, <1>8, <1>9, <1>10, <1>11, <1>12 DEF LimiterInv, later

(* Rate limiter: every step keeps LimiterInv. *)
LEMMA LimiterStep == LimiterInv /\ [Next]_vars => LimiterInv'
<1> SUFFICES ASSUME LimiterInv, [Next]_vars PROVE LimiterInv'  OBVIOUS
<1>1. CASE UNCHANGED limiter
  BY <1>1 DEF limiter, LimiterInv, LimiterTypeOK, ScoresFit, GrantsFit, GrantsCounted, AdviceFits
<1>2. CASE R!Grant
  <2>1. /\ R!Record /\ UNCHANGED <<clock, failOpen, unchecked>>
        /\ granted' = Append(granted, clock) /\ advice' = 0
    BY <1>2 DEF R!Grant
  <2>2. /\ granted' \in Seq(Int) /\ unchecked' \in Seq(Int) /\ GrantsFit' /\ GrantsCounted'
    BY <2>1, GrantCounts
  <2>3. /\ zset' \in Seq(Int) /\ keyEnds' \in Int /\ advice' \in Int
        /\ ScoresFit' /\ Count(zset', clock - Window) <= Limit /\ AdviceFits'
    BY <2>1, MaybeRecorded
  <2>4. LimiterTypeOK'  BY <2>1, <2>2, <2>3 DEF LimiterInv, LimiterTypeOK
  <2> QED  BY <2>1, <2>2, <2>3, <2>4 DEF LimiterInv
<1>3. CASE R!Refuse  BY <1>3, RefuseStep
<1>4. CASE R!FailOpen \/ R!FailClosed
  <2>1. /\ UNCHANGED <<clock, failOpen>>
        /\ \/ R!Record /\ advice' = 0
           \/ UNCHANGED <<zset, keyEnds>> /\ advice' \in {0, advice}
        /\ \/ failOpen /\ granted' = Append(granted, clock) /\ unchecked' = Append(unchecked, clock)
           \/ UNCHANGED <<granted, unchecked>>
    BY <1>4 DEF R!FailOpen, R!FailClosed, R!Failing
  <2>2. /\ zset' \in Seq(Int) /\ keyEnds' \in Int /\ advice' \in Int
        /\ ScoresFit' /\ Count(zset', clock - Window) <= Limit /\ AdviceFits'
        /\ \A a \in Int : clock - Window <= a =>
             Count(zset, a) <= Count(zset', a) /\ Count(zset', a) \in Nat
    BY <2>1, MaybeRecorded
  <2>3. CASE UNCHANGED <<granted, unchecked>>
    <3>1. LimiterTypeOK'  BY <2>1, <2>2, <2>3 DEF LimiterInv, LimiterTypeOK
    <3>2. GrantsFit'  BY <2>1, <2>3 DEF LimiterInv, GrantsFit
    <3>3. GrantsCounted'
      <4>1. ASSUME NEW a \in Int, clock - Window <= a
            PROVE  Count(granted, a) <= Count(zset', a) + Count(unchecked, a)
        <5>1. /\ Count(granted, a) \in Nat /\ Count(zset, a) \in Nat /\ Count(unchecked, a) \in Nat
          BY LimiterNumbers
        <5>2. Count(granted, a) <= Count(zset, a) + Count(unchecked, a)
          BY <4>1 DEF LimiterInv, GrantsCounted
        <5> QED  BY <2>2, <4>1, <5>1, <5>2
      <4> QED  BY <2>1, <2>3, <4>1 DEF GrantsCounted
    <3> QED  BY <2>1, <2>2, <2>3, <3>1, <3>2, <3>3 DEF LimiterInv
  <2>4. CASE /\ failOpen /\ granted' = Append(granted, clock)
             /\ unchecked' = Append(unchecked, clock)
    <3>1. /\ granted' \in Seq(Int) /\ unchecked' \in Seq(Int) /\ GrantsFit' /\ GrantsCounted'
      BY <2>1, <2>2, <2>4, GrantCounts
    <3>2. LimiterTypeOK'  BY <2>1, <2>2, <3>1 DEF LimiterInv, LimiterTypeOK
    <3> QED  BY <2>1, <2>2, <2>4, <3>1, <3>2 DEF LimiterInv
  <2> QED  BY <2>1, <2>3, <2>4
<1>5. CASE R!Lose
  <2>1. /\ zset' = <<>> /\ granted' = <<>> /\ unchecked' = <<>> /\ keyEnds' = 0 /\ advice' = 0
        /\ UNCHANGED <<clock, failOpen>>
    BY <1>5 DEF R!Lose
  <2>2. <<>> \in Seq(Int) /\ DOMAIN <<>> = {}  OBVIOUS
  <2>3. clock - Window \in Int /\ Limit \in Int /\ Limit > 0  BY LimiterNumbers
  <2>4. \A a \in Int : Count(<<>>, a) = 0  BY NothingCounts
  <2>5. LimiterTypeOK' /\ ScoresFit' /\ GrantsFit' /\ AdviceFits'
    BY <2>1, <2>2 DEF LimiterInv, LimiterTypeOK, ScoresFit, GrantsFit, AdviceFits
  <2>6. GrantsCounted'  BY <2>1, <2>4 DEF GrantsCounted
  <2>7. Count(zset', clock' - Window) <= Limit  BY <2>1, <2>3, <2>4
  <2> QED  BY <2>1, <2>5, <2>6, <2>7 DEF LimiterInv
<1>6. CASE R!TickLimiter  BY <1>6, ClockStep
<1> QED  BY <1>1, <1>2, <1>3, <1>4, <1>5, <1>6, OneService DEF R!Next

-----------------------------------------------------------------------------
(* Ids rise along the history and along each stream.  What a client has     *)
(* seen lies before what is on its way to it, and before the id it will     *)
(* reconnect with lies nothing it has not seen but what was gone or hidden. *)
Event == Nat \X Nat
Rising(s) == \A j, k \in DOMAIN s : j < k => s[j][1] < s[k][1]
Before(s, n) == \A k \in DOMAIN s : s[k][1] < n

EventsTypeOK ==
  /\ nextId \in Nat \ {0} /\ changes \in Nat /\ updating \subseteq Nat \ {0}
  /\ log \in Seq(Event) /\ emitted \subseteq Nat
  /\ lastId \in [Client -> Nat] /\ asked \in [Client -> Nat]
  /\ wire \in [Client -> Seq(Event)] /\ seen \in [Client -> SUBSET Nat]
  /\ DOMAIN conn = Client /\ DOMAIN missed = Client /\ DOMAIN hidden = Client

HistoryFits ==
  /\ Rising(log) /\ Before(log, nextId)
  /\ \A i \in emitted : i < nextId
  /\ \A k \in DOMAIN log : log[k][1] \in emitted => log[k][2] # 0

StreamFits(c) ==
  /\ conn[c] # "open" => wire[c] = <<>>
  /\ conn[c] = "opening" => asked[c] = lastId[c]
  /\ Rising(wire[c]) /\ Before(wire[c], nextId)
  /\ c \in foreign => seen[c] = {}
  /\ c \notin foreign => /\ lastId[c] < nextId
                         /\ \A i \in seen[c] : i <= lastId[c]
                         /\ \A i \in emitted : i <= lastId[c] => i \in seen[c] \union missed[c] \union hidden[c]
  /\ \A i \in seen[c] : \A k \in DOMAIN wire[c] : i < wire[c][k][1]
  /\ conn[c] = "open" => emitted \subseteq seen[c] \union E!Waiting(c) \union missed[c] \union hidden[c]

StreamsInv == EventsTypeOK /\ HistoryFits /\ \A c \in Client : StreamFits(c)

(* An event with the next id goes to the end. *)
LEMMA AppendRises ==
  ASSUME NEW s \in Seq(Event), NEW n \in Nat, NEW u \in Nat, Rising(s), Before(s, n)
  PROVE  /\ Append(s, <<n, u>>) \in Seq(Event)
         /\ Rising(Append(s, <<n, u>>)) /\ Before(Append(s, <<n, u>>), n + 1)
         /\ Len(Append(s, <<n, u>>)) = Len(s) + 1
         /\ \A k \in DOMAIN Append(s, <<n, u>>) :
              Append(s, <<n, u>>)[k] = <<n, u>>
                \/ (k \in DOMAIN s /\ Append(s, <<n, u>>)[k] = s[k])
         /\ {Append(s, <<n, u>>)[k][1] : k \in DOMAIN Append(s, <<n, u>>)}
              = {s[k][1] : k \in DOMAIN s} \union {n}
<1> DEFINE e == <<n, u>>
           v == Append(s, e)
<1>1. e \in Event /\ e[1] = n  BY DEF Event
<1> HIDE DEF e
<1>2. /\ v \in Seq(Event) /\ Len(v) = Len(s) + 1 /\ Len(s) \in Nat
      /\ DOMAIN v = 1 .. Len(s) + 1 /\ DOMAIN s = 1 .. Len(s)
      /\ v[Len(s) + 1] = e /\ \A k \in DOMAIN s : v[k] = s[k]
  BY <1>1
<1> HIDE DEF v
<1>3. \A k \in DOMAIN v : k = Len(s) + 1 \/ k \in DOMAIN s  BY <1>2
<1>4. \A k \in DOMAIN s : s[k][1] \in Nat /\ s[k][1] < n  BY DEF Before, Event
<1>5. Before(v, n + 1)
  <2> SUFFICES ASSUME NEW k \in DOMAIN v PROVE v[k][1] < n + 1  BY DEF Before
  <2>1. v[k][1] = n \/ (v[k][1] \in Nat /\ v[k][1] < n)  BY <1>1, <1>2, <1>3, <1>4
  <2> QED  BY <2>1
<1>6. Rising(v)
  <2> SUFFICES ASSUME NEW j \in DOMAIN v, NEW k \in DOMAIN v, j < k PROVE v[j][1] < v[k][1]
    BY DEF Rising
  <2>1. j \in DOMAIN s  BY <1>2
  <2>2. CASE k \in DOMAIN s  BY <1>2, <2>1, <2>2 DEF Rising
  <2>3. CASE k = Len(s) + 1  BY <1>1, <1>2, <1>4, <2>1, <2>3
  <2> QED  BY <1>3, <2>2, <2>3
<1>7. {v[k][1] : k \in DOMAIN v} = {s[k][1] : k \in DOMAIN s} \union {n}
  BY <1>1, <1>2, <1>3
<1> QED  BY <1>2, <1>3, <1>5, <1>6, <1>7 DEF v, e

(* Without its first element. *)
LEMMA TailRises ==
  ASSUME NEW s \in Seq(Event), s # <<>>, Rising(s), NEW n \in Nat, Before(s, n)
  PROVE  /\ Tail(s) \in Seq(Event) /\ Rising(Tail(s)) /\ Before(Tail(s), n)
         /\ Head(s) \in Event /\ Head(s)[1] < n
         /\ \A k \in DOMAIN Tail(s) : /\ Head(s)[1] < Tail(s)[k][1]
                                      /\ \E j \in DOMAIN s : Tail(s)[k] = s[j]
         /\ {s[k][1] : k \in DOMAIN s} = {Tail(s)[k][1] : k \in DOMAIN Tail(s)} \union {Head(s)[1]}
<1> DEFINE v == Tail(s)
<1>1. /\ v \in Seq(Event) /\ Len(s) \in Nat /\ Len(s) > 0 /\ Head(s) = s[1] /\ s[1] \in Event
      /\ DOMAIN s = 1 .. Len(s) /\ DOMAIN v = 1 .. Len(s) - 1
      /\ \A k \in DOMAIN v : v[k] = s[k + 1]
  OBVIOUS
<1> HIDE DEF v
<1>2. \A k \in DOMAIN v : k \in Nat /\ k + 1 \in DOMAIN s /\ 1 < k + 1  BY <1>1
<1>3. 1 \in DOMAIN s  BY <1>1
<1>4. Rising(v)
  <2> SUFFICES ASSUME NEW j \in DOMAIN v, NEW k \in DOMAIN v, j < k PROVE v[j][1] < v[k][1]
    BY DEF Rising
  <2>1. j + 1 < k + 1  BY <1>2
  <2> QED  BY <1>1, <1>2, <2>1 DEF Rising
<1>5. Before(v, n) /\ Head(s)[1] < n  BY <1>1, <1>2, <1>3 DEF Before
<1>6. \A k \in DOMAIN v : Head(s)[1] < v[k][1] /\ \E j \in DOMAIN s : v[k] = s[j]
  BY <1>1, <1>2, <1>3 DEF Rising
<1>7. {s[k][1] : k \in DOMAIN s} = {v[k][1] : k \in DOMAIN v} \union {Head(s)[1]}
  <2>1. \A k \in DOMAIN s : k = 1 \/ (k - 1 \in DOMAIN v /\ v[k - 1] = s[k])  BY <1>1
  <2> QED  BY <1>1, <1>2, <1>3, <2>1
<1> QED  BY <1>1, <1>4, <1>5, <1>6, <1>7 DEF v

(* A selection of a rising history rises, and has what is wanted of it. *)
LEMMA SelectionRises ==
  ASSUME NEW s \in Seq(Event), Rising(s), NEW W \in SUBSET DOMAIN s
  PROVE  /\ Selected(s, W) \in Seq(Event) /\ Rising(Selected(s, W))
         /\ \A j \in DOMAIN Selected(s, W) : \E k \in W : Selected(s, W)[j] = s[k]
         /\ \A k \in W : \E j \in DOMAIN Selected(s, W) : Selected(s, W)[j] = s[k]
<1> DEFINE v == Selected(s, W)
           up == Ascending(W)
<1>1. /\ IsFiniteSet(W) /\ Cardinality(W) \in Nat /\ W \in SUBSET Int
      /\ v \in Seq(Event) /\ Len(v) = Cardinality(W)
      /\ \A j \in 1 .. Cardinality(W) : up[j] \in W /\ v[j] = s[up[j]]
  BY SelectionKeepsOrder
<1>2. /\ \A j, k \in 1 .. Cardinality(W) : j < k => up[j] < up[k]
      /\ \A i \in W : \E j \in 1 .. Cardinality(W) : up[j] = i
  BY <1>1, AscendingSorts
<1> HIDE DEF v, up
<1>3. DOMAIN v = 1 .. Cardinality(W)  BY <1>1
<1>4. Rising(v)  BY <1>1, <1>2, <1>3 DEF Rising
<1>5. \A j \in DOMAIN v : \E k \in W : v[j] = s[k]  BY <1>1, <1>3
<1>6. \A k \in W : \E j \in DOMAIN v : v[j] = s[k]  BY <1>1, <1>2, <1>3
<1> QED  BY <1>1, <1>4, <1>5, <1>6 DEF v

(* A client none of whose variables change. *)
LEMMA StreamKept ==
  ASSUME NEW c \in Client, StreamFits(c), UNCHANGED <<nextId, emitted>>,
         conn'[c] = conn[c], wire'[c] = wire[c], asked'[c] = asked[c], lastId'[c] = lastId[c],
         seen'[c] = seen[c], missed'[c] = missed[c], hidden'[c] = hidden[c],
         c \in foreign' <=> c \in foreign
  PROVE  StreamFits(c)'
  BY DEF StreamFits, E!Waiting

(* emitStatusChanged keeps a bounded history of rising ids. *)
LEMMA RememberFits ==
  ASSUME EventsTypeOK, HistoryFits, NEW u \in Nat, log' = E!Remember(<<nextId, u>>),
         nextId' = nextId + 1, emitted' \in {emitted, emitted \union {nextId}},
         nextId \in emitted' => u # 0
  PROVE  log' \in Seq(Event) /\ HistoryFits'
<1> DEFINE longer == Append(log, <<nextId, u>>)
<1>1. /\ log \in Seq(Event) /\ Rising(log) /\ Before(log, nextId)
      /\ nextId \in Nat /\ nextId + 1 \in Nat
  BY DEF EventsTypeOK, HistoryFits
<1>2. /\ longer \in Seq(Event) /\ Rising(longer) /\ Before(longer, nextId + 1)
      /\ \A k \in DOMAIN longer : longer[k] = <<nextId, u>> \/ (k \in DOMAIN log /\ longer[k] = log[k])
      /\ Len(longer) = Len(log) + 1
  BY <1>1, AppendRises
<1>3. log' \in {longer, Tail(longer)}  BY DEF E!Remember
<1>4. longer # <<>>
  <2>1. Len(log) \in Nat  BY <1>1
  <2> QED  BY <1>2, <2>1
<1> HIDE DEF longer
<1>5. /\ log' \in Seq(Event) /\ Rising(log') /\ Before(log', nextId + 1)
      /\ \A k \in DOMAIN log' : \E j \in DOMAIN longer : log'[k] = longer[j]
  <2>1. CASE log' = longer  BY <1>2, <2>1
  <2>2. /\ Tail(longer) \in Seq(Event) /\ Rising(Tail(longer)) /\ Before(Tail(longer), nextId + 1)
        /\ \A k \in DOMAIN Tail(longer) : \E j \in DOMAIN longer : Tail(longer)[k] = longer[j]
    <3>1. /\ longer \in Seq(Event) /\ longer # <<>> /\ Rising(longer)
          /\ Before(longer, nextId + 1) /\ nextId + 1 \in Nat
      BY <1>1, <1>2, <1>4
    <3> QED  BY <3>1, TailRises
  <2>3. CASE log' = Tail(longer)  BY <2>2, <2>3
  <2> QED  BY <1>3, <2>1, <2>3
<1>6. \A k \in DOMAIN log' : log'[k] = <<nextId, u>> \/ \E j \in DOMAIN log : log'[k] = log[j]
  BY <1>2, <1>5
<1>7. \A i \in emitted' : i < nextId + 1
  <2>1. \A i \in emitted : i \in Nat /\ i < nextId  BY DEF EventsTypeOK, HistoryFits
  <2> QED  BY <1>1, <2>1
<1>8. ASSUME NEW k \in DOMAIN log', log'[k][1] \in emitted' PROVE log'[k][2] # 0
  <2>1. CASE log'[k] = <<nextId, u>>  BY <1>8, <2>1
  <2>2. ASSUME NEW j \in DOMAIN log, log'[k] = log[j] PROVE log'[k][2] # 0
    <3>1. log[j][1] < nextId /\ log[j][1] \in Nat  BY <1>1 DEF Before, Event
    <3>2. log[j][1] \in emitted  BY <1>1, <1>8, <2>2, <3>1
    <3> QED  BY <2>2, <3>2 DEF HistoryFits
  <2> QED  BY <1>6, <2>1, <2>2
<1> QED  BY <1>5, <1>7, <1>8 DEF HistoryFits

(* An event reaches the streams that are open. *)
LEMMA EmitStep ==
  ASSUME StreamsInv, NEW u \in updating, E!Emit(u)
  PROVE  StreamsInv'
<1>1. /\ updating' = updating \ {u} /\ nextId' = nextId + 1
      /\ log' = E!Remember(<<nextId, u>>) /\ emitted' = emitted \union {nextId}
      /\ wire' = [c \in Client |->
                    IF conn[c] = "open" THEN Append(wire[c], <<nextId, u>>) ELSE wire[c]]
      /\ UNCHANGED <<changes, conn, asked, lastId, seen, missed, foreign, hidden>>
  BY DEF E!Emit, E!database
<1>2. /\ EventsTypeOK /\ HistoryFits /\ nextId \in Nat /\ nextId + 1 \in Nat \ {0}
      /\ u \in Nat /\ u # 0
  BY DEF StreamsInv, EventsTypeOK
<1>3. log' \in Seq(Event) /\ HistoryFits'  BY <1>1, <1>2, RememberFits
<1>4. ASSUME NEW c \in Client PROVE wire'[c] \in Seq(Event) /\ StreamFits(c)'
  <2>1. wire[c] \in Seq(Event) /\ Rising(wire[c]) /\ Before(wire[c], nextId) /\ StreamFits(c)
    BY DEF StreamsInv, EventsTypeOK, StreamFits
  <2>2. /\ \A i \in seen[c] : i \in Nat
        /\ lastId[c] \in Nat
        /\ \A i \in emitted : i \in Nat
    BY <1>2 DEF EventsTypeOK
  <2>3. \A i \in seen[c] : i < nextId  BY <1>2, <2>1, <2>2 DEF StreamFits
  <2>4. CASE conn[c] = "open"
    <3> DEFINE w == Append(wire[c], <<nextId, u>>)
    <3>1. wire'[c] = w  BY <1>1, <2>4
    <3>2. /\ w \in Seq(Event) /\ Rising(w) /\ Before(w, nextId + 1)
          /\ \A k \in DOMAIN w : w[k] = <<nextId, u>> \/ (k \in DOMAIN wire[c] /\ w[k] = wire[c][k])
          /\ {w[k][1] : k \in DOMAIN w} = {wire[c][k][1] : k \in DOMAIN wire[c]} \union {nextId}
      BY <1>2, <2>1, AppendRises
    <3> HIDE DEF w
    <3>3. \A i \in seen[c] : \A k \in DOMAIN w : i < w[k][1]
      BY <2>1, <2>3, <3>2 DEF StreamFits
    <3>4. E!Waiting(c)' = E!Waiting(c) \union {nextId}  BY <3>1, <3>2 DEF E!Waiting
    <3>5. emitted' \subseteq seen[c] \union E!Waiting(c)' \union missed[c] \union hidden[c]
      BY <1>1, <2>1, <2>4, <3>4 DEF StreamFits
    <3>6. c \notin foreign => /\ lastId[c] < nextId + 1
                              /\ \A i \in emitted' : i <= lastId[c] => i \in seen[c] \union missed[c] \union hidden[c]
      BY <1>1, <1>2, <2>1, <2>2 DEF StreamFits
    <3> QED  BY <1>1, <2>1, <2>4, <3>1, <3>2, <3>3, <3>5, <3>6 DEF StreamFits
  <2>5. CASE conn[c] # "open"
    <3>1. wire'[c] = wire[c] /\ wire[c] = <<>>  BY <1>1, <2>1, <2>5 DEF StreamFits
    <3>2. Before(wire'[c], nextId + 1)  BY <3>1 DEF Before
    <3>3. c \notin foreign => /\ lastId[c] < nextId + 1
                              /\ \A i \in emitted' : i <= lastId[c] => i \in seen[c] \union missed[c] \union hidden[c]
      BY <1>1, <1>2, <2>1, <2>2 DEF StreamFits
    <3> QED  BY <1>1, <2>1, <2>5, <3>1, <3>2, <3>3 DEF StreamFits
  <2> QED  BY <2>4, <2>5
<1>5. EventsTypeOK'
  <2>1. DOMAIN wire' = Client /\ wire' \in [Client -> Seq(Event)]  BY <1>1, <1>4
  <2> QED  BY <1>1, <1>2, <1>3, <2>1 DEF EventsTypeOK
<1> QED  BY <1>3, <1>4, <1>5 DEF StreamsInv

(* Replay, then subscribe: what is neither seen nor in the replay is missed *)
(* or hidden.                                                               *)
LEMMA OpenStep ==
  ASSUME StreamsInv, NEW c \in Client, E!Open(c)
  PROVE  StreamsInv'
<1> DEFINE W == {k \in DOMAIN log : log[k][1] > asked[c] /\ log[k][2] # E!NotWatched}
           replay == Selected(log, W)
           gone == {i \in emitted \ seen[c] : \A k \in DOMAIN log : log[k][1] # i}
           low == {i \in emitted \ seen[c] : i <= asked[c]}
<1>1. E!Replay(c) = replay
  BY DEF E!Replay, E!Selected, E!Ascending, Selected, Ascending, Cardinality, E!Cardinality
<1>2. /\ conn[c] = "opening" /\ conn' = [conn EXCEPT ![c] = "open"]
      /\ wire' = [wire EXCEPT ![c] = replay]
      /\ missed' = [missed EXCEPT ![c] = missed[c] \union gone]
      /\ hidden' = [hidden EXCEPT ![c] =
                      IF c \in foreign THEN hidden[c] \union low ELSE hidden[c]]
      /\ UNCHANGED <<changes, updating, nextId, log, asked, lastId, emitted, seen, foreign>>
  BY <1>1 DEF E!Open, E!Serve, E!database, E!server
<1>3. /\ EventsTypeOK /\ HistoryFits /\ StreamFits(c) /\ log \in Seq(Event) /\ Rising(log)
      /\ W \in SUBSET DOMAIN log /\ asked[c] = lastId[c] /\ asked[c] \in Nat
      /\ DOMAIN conn = Client /\ DOMAIN missed = Client /\ DOMAIN hidden = Client
      /\ wire \in [Client -> Seq(Event)]
  BY <1>2 DEF StreamsInv, EventsTypeOK, HistoryFits, StreamFits
<1>4. \A k \in DOMAIN log : log[k][1] \in Nat /\ log[k][1] < nextId
  BY <1>3 DEF HistoryFits, Before, Event
<1>5. \A k \in W : /\ log[k][1] > asked[c] /\ log[k][1] \in Nat /\ log[k][1] < nextId
  BY <1>4
<1>6. \A k \in DOMAIN log : log[k][1] > asked[c] /\ log[k][1] \in emitted => k \in W
  BY <1>3 DEF HistoryFits, E!NotWatched
<1>7. \A i \in emitted : i \in gone \/ i \in seen[c] \/ \E k \in DOMAIN log : log[k][1] = i
  OBVIOUS
<1>8. \A i \in emitted : i <= asked[c] => i \in low \/ i \in seen[c]
  OBVIOUS
<1> HIDE DEF W
<1>9. /\ replay \in Seq(Event) /\ Rising(replay)
      /\ \A j \in DOMAIN replay : \E k \in W : replay[j] = log[k]
      /\ \A k \in W : \E j \in DOMAIN replay : replay[j] = log[k]
  BY <1>3, SelectionRises
<1> HIDE DEF replay, gone, low
<1>10. /\ wire'[c] = replay /\ conn'[c] = "open" /\ missed'[c] = missed[c] \union gone
       /\ hidden'[c] = IF c \in foreign THEN hidden[c] \union low ELSE hidden[c]
       /\ wire' \in [Client -> Seq(Event)] /\ DOMAIN conn' = Client
       /\ DOMAIN missed' = Client /\ DOMAIN hidden' = Client
  BY <1>2, <1>3, <1>9
<1>11. \A j \in DOMAIN replay : replay[j][1] > asked[c] /\ replay[j][1] \in Nat /\ replay[j][1] < nextId
  BY <1>5, <1>9
<1>12. Before(replay, nextId)  BY <1>11 DEF Before
<1>13. \A i \in seen[c] : i \in Nat /\ i <= lastId[c]
  BY <1>3 DEF StreamFits, EventsTypeOK
<1>14. \A i \in seen[c] : \A j \in DOMAIN replay : i < replay[j][1]
  BY <1>3, <1>11, <1>13
<1>15. emitted \subseteq seen[c] \union E!Waiting(c)' \union missed'[c] \union hidden'[c]
  <2> SUFFICES ASSUME NEW i \in emitted, i \notin seen[c], i \notin missed'[c], i \notin hidden'[c]
               PROVE  \E j \in DOMAIN replay : replay[j][1] = i
    BY <1>10 DEF E!Waiting
  <2>1. /\ i \in Nat /\ i \notin gone /\ i \notin missed[c]
        /\ i \notin hidden[c] /\ (c \in foreign => i \notin low)
    BY <1>3, <1>10 DEF EventsTypeOK
  <2>2. ~(i <= asked[c])  BY <1>3, <1>8, <2>1 DEF StreamFits
  <2>3. PICK k \in DOMAIN log : log[k][1] = i  BY <1>7, <2>1
  <2>4. k \in W  BY <1>3, <1>6, <2>1, <2>2, <2>3
  <2> QED  BY <1>9, <2>3, <2>4
<1>16. StreamFits(c)'
  <2>1. c \notin foreign => \A i \in emitted : i <= lastId[c] => i \in seen[c] \union missed'[c] \union hidden'[c]
    BY <1>3, <1>10 DEF StreamFits
  <2> QED  BY <1>2, <1>3, <1>9, <1>10, <1>12, <1>14, <1>15, <2>1 DEF StreamFits
<1>17. ASSUME NEW q \in Client, q # c PROVE StreamFits(q)'
  <2>1. StreamFits(q)  BY DEF StreamsInv
  <2>2. conn'[q] = conn[q] /\ wire'[q] = wire[q] /\ missed'[q] = missed[q]
        /\ hidden'[q] = hidden[q]
    BY <1>2, <1>3, <1>17
  <2> QED  BY <1>2, <2>1, <2>2, StreamKept
<1>18. EventsTypeOK'  BY <1>2, <1>3, <1>10 DEF EventsTypeOK
<1>19. HistoryFits'  BY <1>2, <1>3 DEF HistoryFits
<1> QED  BY <1>16, <1>17, <1>18, <1>19 DEF StreamsInv

(* The next event is taken from the stream, and its id is remembered. *)
LEMMA ReceiveStep ==
  ASSUME StreamsInv, NEW c \in Client, E!Receive(c)
  PROVE  StreamsInv'
<1> DEFINE s == wire[c]
           t == Tail(wire[c])
           n == Head(wire[c])[1]
<1>1. /\ s # <<>> /\ lastId' = [lastId EXCEPT ![c] = n]
      /\ seen' = [seen EXCEPT ![c] = seen[c] \union {n}]
      /\ wire' = [wire EXCEPT ![c] = t] /\ foreign' = foreign \ {c}
      /\ UNCHANGED <<changes, updating, nextId, log, conn, asked, emitted, missed, hidden>>
  BY DEF E!Receive, E!database, E!server
<1>2. /\ EventsTypeOK /\ HistoryFits /\ StreamFits(c) /\ nextId \in Nat
      /\ s \in Seq(Event) /\ Rising(s) /\ Before(s, nextId) /\ conn[c] = "open"
      /\ lastId \in [Client -> Nat] /\ wire \in [Client -> Seq(Event)]
      /\ seen \in [Client -> SUBSET Nat]
  BY <1>1 DEF StreamsInv, EventsTypeOK, StreamFits
<1>3. /\ t \in Seq(Event) /\ Rising(t) /\ Before(t, nextId)
      /\ Head(s) \in Event /\ n < nextId
      /\ \A k \in DOMAIN t : n < t[k][1] /\ \E j \in DOMAIN s : t[k] = s[j]
      /\ {s[k][1] : k \in DOMAIN s} = {t[k][1] : k \in DOMAIN t} \union {n}
  BY <1>1, <1>2, TailRises
<1>4. n \in Nat  BY <1>3 DEF Event
<1>5. \A i \in seen[c] : i < n /\ i \in Nat
  <2>1. 1 \in DOMAIN s /\ n = s[1][1]  BY <1>1, <1>2
  <2> QED  BY <1>2, <2>1 DEF StreamFits
<1>6. E!Waiting(c) = {s[k][1] : k \in DOMAIN s}  BY DEF E!Waiting
<1> HIDE DEF s, t, n
<1>7. /\ wire'[c] = t /\ lastId'[c] = n /\ seen'[c] = seen[c] \union {n} /\ c \notin foreign'
      /\ lastId' \in [Client -> Nat] /\ wire' \in [Client -> Seq(Event)]
      /\ seen' \in [Client -> SUBSET Nat]
  BY <1>1, <1>2, <1>3, <1>4
<1>8. E!Waiting(c)' = {t[k][1] : k \in DOMAIN t}  BY <1>7 DEF E!Waiting
<1>9. emitted \subseteq seen'[c] \union E!Waiting(c)' \union missed[c] \union hidden[c]
  BY <1>2, <1>3, <1>6, <1>7, <1>8 DEF StreamFits
<1>10. \A i \in seen'[c] : i <= n  BY <1>4, <1>5, <1>7
<1>11. \A i \in emitted : i <= n => i \in seen'[c] \union missed[c] \union hidden[c]
  <2> SUFFICES ASSUME NEW i \in emitted, i <= n, i \in E!Waiting(c)' PROVE FALSE  BY <1>9
  <2>1. PICK k \in DOMAIN t : i = t[k][1]  BY <1>8
  <2>2. n < i /\ i \in Nat  BY <1>2, <1>3, <2>1 DEF EventsTypeOK
  <2> QED  BY <1>4, <2>2
<1>12. \A i \in seen'[c] : \A k \in DOMAIN t : i < t[k][1]
  <2> SUFFICES ASSUME NEW i \in seen'[c], NEW k \in DOMAIN t PROVE i < t[k][1]  OBVIOUS
  <2>1. n < t[k][1]  BY <1>3
  <2>2. t[k][1] \in Nat  BY <1>3 DEF Event
  <2>3. i \in Nat /\ i <= n  BY <1>4, <1>5, <1>7, <1>10
  <2> QED  BY <1>4, <2>1, <2>2, <2>3
<1>13. StreamFits(c)'
  BY <1>1, <1>2, <1>3, <1>7, <1>9, <1>10, <1>11, <1>12 DEF StreamFits
<1>14. ASSUME NEW q \in Client, q # c PROVE StreamFits(q)'
  <2>1. StreamFits(q)  BY DEF StreamsInv
  <2>2. /\ lastId'[q] = lastId[q] /\ wire'[q] = wire[q] /\ seen'[q] = seen[q]
        /\ q \in foreign' <=> q \in foreign
    BY <1>1, <1>2, <1>14
  <2> QED  BY <1>1, <2>1, <2>2, StreamKept
<1>15. EventsTypeOK'  BY <1>1, <1>2, <1>7 DEF EventsTypeOK
<1>16. HistoryFits'  BY <1>1, <1>2 DEF HistoryFits
<1> QED  BY <1>13, <1>14, <1>15, <1>16 DEF StreamsInv

(* Order events: every step keeps StreamsInv. *)
LEMMA StreamsStep == StreamsInv /\ [Next]_vars => StreamsInv'
<1> SUFFICES ASSUME StreamsInv, [Next]_vars PROVE StreamsInv'  OBVIOUS
<1>0. EventsTypeOK /\ HistoryFits /\ \A c \in Client : StreamFits(c)  BY DEF StreamsInv
<1>1. CASE UNCHANGED events
  <2>1. EventsTypeOK'  BY <1>0, <1>1 DEF events, EventsTypeOK
  <2>2. HistoryFits'  BY <1>0, <1>1 DEF events, HistoryFits
  <2>3. \A c \in Client : StreamFits(c)'  BY <1>0, <1>1, StreamKept DEF events
  <2> QED  BY <2>1, <2>2, <2>3 DEF StreamsInv
<1>2. CASE E!Update
  <2>1. /\ changes' = changes + 1 /\ updating' = updating \union {changes'}
        /\ UNCHANGED <<nextId, log, conn, asked, lastId, wire, emitted, seen, missed, foreign, hidden>>
    BY <1>2 DEF E!Update, E!server, E!streams
  <2>2. changes \in Nat /\ updating \subseteq Nat \ {0}  BY <1>0 DEF EventsTypeOK
  <2>3. changes' \in Nat /\ changes' # 0  BY <2>1, <2>2
  <2>4. EventsTypeOK'  BY <1>0, <2>1, <2>2, <2>3 DEF EventsTypeOK
  <2>5. HistoryFits'  BY <1>0, <2>1 DEF HistoryFits
  <2>6. \A c \in Client : StreamFits(c)'  BY <1>0, <2>1, StreamKept
  <2> QED  BY <2>4, <2>5, <2>6 DEF StreamsInv
<1>3. CASE E!EmitForeign
  <2>1. /\ changes' = changes + 1 /\ nextId' = nextId + 1
        /\ log' = E!Remember(<<nextId, 0>>)
        /\ UNCHANGED <<updating, conn, asked, lastId, wire, emitted, seen, missed, foreign, hidden>>
    BY <1>3 DEF E!EmitForeign, E!streams, E!history, E!NotWatched
  <2>2. /\ nextId \in Nat /\ nextId # 0 /\ changes \in Nat
        /\ nextId + 1 \in Nat \ {0} /\ changes + 1 \in Nat
    BY <1>0 DEF EventsTypeOK
  <2>3. nextId \notin emitted  BY <1>0, <2>2 DEF HistoryFits
  <2>4. log' \in Seq(Event) /\ HistoryFits'  BY <1>0, <2>1, <2>3, RememberFits
  <2>5. EventsTypeOK'  BY <1>0, <2>1, <2>2, <2>4 DEF EventsTypeOK
  <2>6. ASSUME NEW c \in Client PROVE StreamFits(c)'
    <3>1. StreamFits(c) /\ wire[c] \in Seq(Event) /\ lastId[c] \in Nat  BY <1>0 DEF EventsTypeOK
    <3>2. Before(wire[c], nextId + 1)
      <4>1. \A k \in DOMAIN wire[c] : wire[c][k][1] \in Nat /\ wire[c][k][1] < nextId
        BY <3>1 DEF StreamFits, Before, Event
      <4> QED  BY <2>2, <4>1 DEF Before
    <3>3. lastId[c] < nextId => lastId[c] < nextId + 1  BY <2>2, <3>1
    <3> QED  BY <2>1, <3>1, <3>2, <3>3 DEF StreamFits, E!Waiting
  <2> QED  BY <2>4, <2>5, <2>6 DEF StreamsInv
<1>4. CASE E!Restart
  <2>1. /\ nextId' = 1 /\ log' = <<>> /\ updating' = {} /\ emitted' = {}
        /\ conn' = [c \in Client |-> "closed"] /\ wire' = [c \in Client |-> <<>>]
        /\ seen' = [c \in Client |-> {}] /\ missed' = [c \in Client |-> {}]
        /\ hidden' = [c \in Client |-> {}]
        /\ foreign' = {c \in Client : lastId[c] > 0}
        /\ UNCHANGED <<changes, asked, lastId>>
    BY <1>4 DEF E!Restart, E!database
  <2>2. <<>> \in Seq(Event) /\ DOMAIN <<>> = {}  OBVIOUS
  <2>3. EventsTypeOK'  BY <1>0, <2>1, <2>2 DEF EventsTypeOK
  <2>4. Rising(<<>>) /\ Before(<<>>, 1)  BY <2>2 DEF Rising, Before
  <2>5. HistoryFits'  BY <2>1, <2>2, <2>4 DEF HistoryFits
  <2>6. ASSUME NEW c \in Client PROVE StreamFits(c)'
    <3>1. lastId[c] \in Nat  BY <1>0 DEF EventsTypeOK
    <3>2. /\ wire'[c] = <<>> /\ conn'[c] = "closed" /\ seen'[c] = {}
          /\ c \notin foreign' => lastId'[c] < 1
      BY <2>1, <3>1
    <3> QED  BY <2>1, <2>2, <2>4, <3>2 DEF StreamFits
  <2> QED  BY <2>3, <2>5, <2>6 DEF StreamsInv
<1>5. ASSUME NEW u \in updating, E!Emit(u) PROVE StreamsInv'  BY <1>5, EmitStep
<1>6. ASSUME NEW c \in Client, E!Connect(c) \/ E!Drop(c) PROVE StreamsInv'
  <2>1. /\ UNCHANGED <<changes, updating, nextId, log, lastId, emitted, seen, missed, foreign, hidden>>
        /\ \/ /\ conn[c] = "closed" /\ conn' = [conn EXCEPT ![c] = "opening"]
              /\ asked' = [asked EXCEPT ![c] = lastId[c]] /\ UNCHANGED wire
           \/ /\ conn' = [conn EXCEPT ![c] = "closed"] /\ wire' = [wire EXCEPT ![c] = <<>>]
              /\ UNCHANGED asked
    BY <1>6 DEF E!Connect, E!Drop, E!database, E!server, E!history
  <2>2. <<>> \in Seq(Event) /\ DOMAIN <<>> = {}  OBVIOUS
  <2>3. EventsTypeOK'  BY <1>0, <2>1, <2>2 DEF EventsTypeOK
  <2>4. HistoryFits'  BY <1>0, <2>1 DEF HistoryFits
  <2>5. Rising(<<>>) /\ Before(<<>>, nextId)  BY <2>2 DEF Rising, Before
  <2>6. /\ DOMAIN conn = Client /\ DOMAIN asked = Client /\ DOMAIN wire = Client
    BY <1>0 DEF EventsTypeOK
  <2>7. wire'[c] = <<>> /\ (conn'[c] = "opening" => asked'[c] = lastId[c]) /\ conn'[c] # "open"
    BY <1>0, <2>1, <2>6 DEF StreamFits
  <2>8. StreamFits(c)'  BY <1>0, <2>1, <2>2, <2>5, <2>7 DEF StreamFits
  <2>9. ASSUME NEW q \in Client, q # c PROVE StreamFits(q)'
    <3>1. conn'[q] = conn[q] /\ wire'[q] = wire[q] /\ asked'[q] = asked[q]
      BY <2>1, <2>6, <2>9
    <3> QED  BY <1>0, <2>1, <3>1, StreamKept
  <2> QED  BY <2>3, <2>4, <2>8, <2>9 DEF StreamsInv
<1>7. ASSUME NEW c \in Client, E!Open(c) PROVE StreamsInv'  BY <1>7, OpenStep
<1>8. ASSUME NEW c \in Client, E!Receive(c) PROVE StreamsInv'  BY <1>8, ReceiveStep
<1> QED
  BY <1>1, <1>2, <1>3, <1>4, <1>5, <1>6, <1>7, <1>8, OneService DEF E!Next

(* What has left the history does not come back, and before a restart no id *)
(* is of another process.                                                   *)
CatchUpInv ==
  /\ \A k \in DOMAIN log : log[k][2] # 0 => log[k][1] \in emitted
  /\ \A c \in Client : missed[c] \subseteq emitted
                        /\ \A k \in DOMAIN log : log[k][1] \notin missed[c]
  /\ restarts \in Nat
  /\ restarts = 0 => foreign = {} /\ \A c \in Client : hidden[c] = {}

(* Each entry of the history after an event was remembered is that event or *)
(* was there before.                                                        *)
LEMMA RememberedFrom ==
  ASSUME log \in Seq(Event), NEW e \in Event, NEW k \in DOMAIN E!Remember(e)
  PROVE  E!Remember(e)[k] = e \/ \E j \in DOMAIN log : E!Remember(e)[k] = log[j]
<1> DEFINE v == Append(log, e)
           w == Tail(v)
<1>0. /\ v \in Seq(Event) /\ Len(log) \in Nat /\ DOMAIN log = 1 .. Len(log)
      /\ DOMAIN v = 1 .. Len(log) + 1 /\ Len(v) = Len(log) + 1
      /\ v[Len(log) + 1] = e /\ \A j \in DOMAIN log : v[j] = log[j]
  OBVIOUS
<1> HIDE DEF v
<1>1. /\ v \in Seq(Event) /\ v # <<>>
      /\ \A j \in DOMAIN v : v[j] = e \/ (j \in DOMAIN log /\ v[j] = log[j])
  BY <1>0
<1>2. \A j \in DOMAIN w : j + 1 \in DOMAIN v /\ w[j] = v[j + 1]  BY <1>1
<1>3. E!Remember(e) = v \/ E!Remember(e) = w  BY DEF v, E!Remember
<1> HIDE DEF w
<1> QED  BY <1>1, <1>2, <1>3

(* Order events: every step keeps CatchUpInv. *)
LEMMA CatchUpStep == CatchUpInv /\ StreamsInv /\ [Next]_vars => CatchUpInv'
<1> SUFFICES ASSUME CatchUpInv, StreamsInv, [Next]_vars PROVE CatchUpInv'  OBVIOUS
<1>0. /\ EventsTypeOK /\ HistoryFits /\ log \in Seq(Event) /\ nextId \in Nat
      /\ nextId \notin emitted
  BY DEF StreamsInv, EventsTypeOK, HistoryFits
<1>1. CASE UNCHANGED events  BY <1>1 DEF events, CatchUpInv
<1>2. CASE E!Update  BY <1>2 DEF E!Update, E!server, CatchUpInv
<1>3. CASE E!EmitForeign
  <2>1. <<nextId, 0>> \in Event /\ log' = E!Remember(<<nextId, 0>>)
    BY <1>0, <1>3 DEF E!EmitForeign, E!NotWatched, Event
  <2>2. \A k \in DOMAIN log' : log'[k] = <<nextId, 0>> \/ \E j \in DOMAIN log : log'[k] = log[j]
    BY <1>0, <2>1, RememberedFrom
  <2>3. UNCHANGED <<emitted, missed, hidden, foreign, restarts>>
    BY <1>3 DEF E!EmitForeign, E!history
  <2> QED  BY <1>0, <2>2, <2>3 DEF CatchUpInv
<1>4. ASSUME NEW u \in updating, E!Emit(u) PROVE CatchUpInv'
  <2>1. <<nextId, u>> \in Event /\ log' = E!Remember(<<nextId, u>>)
    BY <1>0, <1>4 DEF E!Emit, Event, EventsTypeOK
  <2>2. \A k \in DOMAIN log' : log'[k] = <<nextId, u>> \/ \E j \in DOMAIN log : log'[k] = log[j]
    BY <1>0, <2>1, RememberedFrom
  <2>3. emitted' = emitted \union {nextId} /\ UNCHANGED <<missed, hidden, foreign, restarts>>
    BY <1>4 DEF E!Emit
  <2> QED  BY <1>0, <2>2, <2>3 DEF CatchUpInv
<1>5. CASE E!Restart
  <2>1. /\ log' = <<>> /\ missed' = [c \in Client |-> {}] /\ restarts' = restarts + 1
        /\ restarts \in Nat
    BY <1>5 DEF E!Restart, CatchUpInv
  <2>2. restarts' \in Nat /\ restarts' # 0 /\ DOMAIN log' = {}  BY <2>1
  <2> QED  BY <2>1, <2>2 DEF CatchUpInv
<1>6. ASSUME NEW c \in Client, E!Open(c) PROVE CatchUpInv'
  <2>1. /\ missed' = [missed EXCEPT ![c] = missed[c] \union
                         {i \in emitted \ seen[c] : \A k \in DOMAIN log : log[k][1] # i}]
        /\ c \notin foreign => hidden' = [hidden EXCEPT ![c] = hidden[c]]
        /\ UNCHANGED <<log, emitted, foreign, restarts>>
    BY <1>6 DEF E!Open, E!Serve, E!server
  <2>2. DOMAIN missed = Client /\ DOMAIN hidden = Client  BY <1>0 DEF EventsTypeOK
  <2>3. ASSUME NEW q \in Client, NEW i \in missed'[q]
        PROVE  i \in emitted /\ \A k \in DOMAIN log : log[k][1] # i
    <3>1. CASE q = c  BY <2>1, <2>2, <2>3, <3>1 DEF CatchUpInv
    <3>2. CASE q # c  BY <2>1, <2>2, <2>3, <3>2 DEF CatchUpInv
    <3> QED  BY <3>1, <3>2
  <2>4. ASSUME restarts = 0, NEW q \in Client PROVE hidden'[q] = {}
    BY <2>1, <2>2, <2>4 DEF CatchUpInv
  <2>5. /\ \A k \in DOMAIN log : log[k][2] # 0 => log[k][1] \in emitted
        /\ restarts \in Nat /\ (restarts = 0 => foreign = {})
    BY DEF CatchUpInv
  <2> QED  BY <2>1, <2>3, <2>4, <2>5 DEF CatchUpInv
<1>7. ASSUME NEW c \in Client, E!Connect(c) \/ E!Receive(c) \/ E!Drop(c) PROVE CatchUpInv'
  BY <1>7 DEF E!Connect, E!Receive, E!Drop, E!server, E!history, CatchUpInv
<1> QED  BY <1>1, <1>2, <1>3, <1>4, <1>5, <1>6, <1>7, OneService DEF E!Next

-----------------------------------------------------------------------------
(* What the client has lies up to its cursor, and of the rows due to it     *)
(* none up to the cursor is missing.                                        *)
Increasing(s) == \A i, j \in DOMAIN s : i < j => s[i] < s[j]
Within(s, Ids) == \A i \in Ids : \E k \in DOMAIN s : s[k] = i

ListingTypeOK ==
  /\ pageLimit \in Nat /\ admin \in BOOLEAN /\ nextRow \in Nat \ {0}
  /\ cursor \in Nat /\ got \in Seq(Nat)

RowsFit ==
  /\ rows \union pending \subseteq 1 .. nextRow - 1
  /\ due \subseteq rows /\ (~admin => due \subseteq Mine)

GotFits ==
  /\ Increasing(got)
  /\ cursor # 0 => /\ \A k \in DOMAIN got : got[k] <= cursor
                   /\ Within(got, {i \in due : i <= cursor})

ListingInv ==
  /\ ListingTypeOK /\ RowsFit /\ GotFits
  /\ reader = "query" /\ admin => seesAll
  /\ reader = "done" /\ pageLimit > 0 => Within(got, due)

(* The first m elements of a sequence. *)
LEMMA FirstElements ==
  ASSUME NEW s, NEW m \in Nat, \A j \in 1 .. m : s[j] \in Nat
  PROVE  /\ SubSeq(s, 1, m) \in Seq(Nat) /\ Len(SubSeq(s, 1, m)) = m
         /\ \A j \in 1 .. m : SubSeq(s, 1, m)[j] = s[j]
<1>1. /\ SubSeq(s, 1, m) \in Seq(Nat)
      /\ Len(SubSeq(s, 1, m)) = IF 1 <= m THEN m - 1 + 1 ELSE 0
      /\ \A j \in 1 .. m - 1 + 1 : SubSeq(s, 1, m)[j] = s[1 + j - 1]
  <2>1. 1 \in Int /\ m \in Int  OBVIOUS
  <2> QED  BY <2>1, SubSeqProperties
<1>2. m - 1 + 1 = m /\ \A j \in 1 .. m : 1 + j - 1 = j  OBVIOUS
<1> QED  BY <1>1, <1>2

(* A page has the first rows, as many as asked for; what is found beyond    *)
(* it tells whether there are more.                                         *)
LEMMA PageIsFirst ==
  ASSUME NEW Ids \in SUBSET Nat, IsFiniteSet(Ids), NEW n \in Nat, NEW found, NEW page,
         found = SubSeq(Ascending(Ids), 1,
                        IF n + 1 < Len(Ascending(Ids)) THEN n + 1 ELSE Len(Ascending(Ids))),
         page = SubSeq(found, 1, IF n < Len(found) THEN n ELSE Len(found))
  PROVE  /\ page \in Seq(Nat) /\ Increasing(page) /\ \A k \in DOMAIN page : page[k] \in Ids
         /\ Len(found) > n /\ page # <<>> =>
              /\ page[Len(page)] \in Ids
              /\ \A k \in DOMAIN page : page[k] <= page[Len(page)]
              /\ Within(page, {i \in Ids : i <= page[Len(page)]})
         /\ n > 0 /\ ~(Len(found) > n /\ page # <<>>) => Within(page, Ids)
<1> DEFINE s == Ascending(Ids)
           c == Cardinality(Ids)
           m == IF n + 1 < c THEN n + 1 ELSE c
           p == IF n < c THEN n ELSE c
<1>1. Ids \in SUBSET Int /\ c \in Nat  BY FS_CardinalityType
<1>2. /\ s \in Seq(Ids) /\ Len(s) = c
      /\ \A j, k \in 1 .. c : j < k => s[j] < s[k]
      /\ \A i \in Ids : \E j \in 1 .. c : s[j] = i
  BY <1>1, AscendingSorts
<1>3. \A j \in 1 .. c : s[j] \in Ids /\ s[j] \in Nat  BY <1>2, ElementOfSeq
<1>4. found = SubSeq(s, 1, m)  BY <1>2
<1> HIDE DEF s, c
<1>5. m \in Nat /\ m <= c /\ m <= n + 1 /\ p \in Nat /\ p <= c /\ p <= m /\ p <= n
  BY <1>1
<1>6. found \in Seq(Nat) /\ Len(found) = m /\ \A j \in 1 .. m : found[j] = s[j]
  <2>1. \A j \in 1 .. m : s[j] \in Nat  BY <1>1, <1>3, <1>5
  <2> HIDE DEF m
  <2> QED  BY <1>4, <1>5, <2>1, FirstElements
<1>7. (IF n < Len(found) THEN n ELSE Len(found)) = p  BY <1>1, <1>6
<1>8. page \in Seq(Nat) /\ Len(page) = p /\ \A j \in 1 .. p : page[j] = s[j]
  <2> HIDE DEF p, m
  <2>1. \A j \in 1 .. p : j \in 1 .. m  BY <1>5
  <2>2. \A j \in 1 .. p : found[j] \in Nat  BY <1>6, <2>1, ElementOfSeq
  <2>3. /\ SubSeq(found, 1, p) \in Seq(Nat) /\ Len(SubSeq(found, 1, p)) = p
        /\ \A j \in 1 .. p : SubSeq(found, 1, p)[j] = found[j]
    BY <1>5, <2>2, FirstElements
  <2> QED  BY <1>6, <1>7, <2>1, <2>3
<1>9. DOMAIN page = 1 .. p /\ (page = <<>> <=> p = 0)  BY <1>8
<1>10. (Len(found) > n <=> c > n) /\ (~(c > n) => p = c) /\ (c > n => p = n)
  BY <1>1, <1>6
<1> HIDE DEF m, p
<1>11. \A j \in 1 .. p : j \in 1 .. c  BY <1>1, <1>5
<1>12. Increasing(page) /\ \A k \in DOMAIN page : page[k] \in Ids
  <2>1. \A j, k \in 1 .. p : j < k => page[j] < page[k]  BY <1>2, <1>8, <1>11
  <2>2. \A k \in 1 .. p : page[k] \in Ids  BY <1>3, <1>8, <1>11
  <2> QED  BY <1>9, <2>1, <2>2 DEF Increasing
<1>13. ASSUME c > n, p # 0
       PROVE  /\ page[p] \in Ids
              /\ \A k \in DOMAIN page : page[k] <= page[p]
              /\ Within(page, {i \in Ids : i <= page[p]})
  <2>1. p \in 1 .. p  BY <1>5, <1>13
  <2>2. page[p] = s[p] /\ s[p] \in Ids /\ s[p] \in Nat  BY <1>3, <1>8, <1>11, <2>1
  <2>3. \A k \in 1 .. p : k < p \/ k = p  BY <1>5
  <2>4. ASSUME NEW k \in 1 .. p PROVE page[k] <= page[p]
    <3>1. page[k] = s[k] /\ s[k] \in Nat /\ k \in 1 .. c /\ p \in 1 .. c
      BY <1>3, <1>8, <1>11, <2>1
    <3>2. k < p => s[k] < s[p]  BY <1>2, <3>1
    <3>3. k < p \/ k = p  BY <2>3
    <3>4. CASE k = p
      <4>1. page[k] = s[p] /\ page[p] = s[p]  BY <2>2, <3>4
      <4>2. s[p] <= s[p]  BY <2>2
      <4> QED  BY <4>1, <4>2
    <3>5. CASE k < p
      <4>1. s[k] < s[p] /\ page[k] = s[k] /\ page[p] = s[p]  BY <2>2, <3>1, <3>2, <3>5
      <4>2. s[k] \in Nat /\ s[p] \in Nat  BY <2>2, <3>1
      <4>3. s[k] <= s[p]  BY <4>1, <4>2
      <4> QED  BY <4>1, <4>3
    <3> QED  BY <3>3, <3>4, <3>5
  <2>5. ASSUME NEW i \in Ids, i <= page[p] PROVE \E k \in 1 .. p : page[k] = i
    <3>1. PICK j \in 1 .. c : s[j] = i  BY <1>2
    <3>2. CASE j <= p
      <4>1. j \in 1 .. p  BY <3>2, <1>5
      <4> QED  BY <1>8, <3>1, <4>1
    <3>3. CASE p < j
      <4>1. s[p] < s[j]  BY <1>2, <1>11, <2>1, <3>3
      <4>2. s[p] \in Nat /\ s[j] \in Nat  BY <1>3, <2>2
      <4>3. ~(s[j] <= s[p])  BY <4>1, <4>2
      <4> QED  BY <2>2, <2>5, <3>1, <4>3
    <3>4. j \in Int  OBVIOUS
    <3>5. j <= p \/ p < j  BY <1>5, <3>4
    <3> QED  BY <3>2, <3>3, <3>5
  <2> QED  BY <1>9, <2>2, <2>4, <2>5 DEF Within
<1>14. ASSUME n > 0, ~(c > n /\ p # 0) PROVE Within(page, Ids)
  <2>1. p = c  BY <1>10, <1>14
  <2>2. \A i \in Ids : \E j \in 1 .. p : page[j] = i  BY <1>2, <1>8, <2>1
  <2> QED  BY <1>9, <2>2 DEF Within
<1> QED  BY <1>8, <1>9, <1>10, <1>12, <1>13, <1>14

LEMMA ListingSelects ==
  ASSUME NEW Ids
  PROVE  L!Ascending(Ids) = Ascending(Ids)
  BY DEF L!Ascending, Ascending, Cardinality, L!Cardinality

(* The rows a page is taken from: they include every row due to the client  *)
(* that lies beyond its cursor.                                             *)
LEMMA RowsBeyond ==
  ASSUME ListingInv, reader = "query", NEW afterId \in {cursor, 0}
  PROVE  /\ {id \in L!Visible(seesAll) : id > afterId} \in SUBSET Nat
         /\ IsFiniteSet({id \in L!Visible(seesAll) : id > afterId})
         /\ \A id \in L!Visible(admin) : id > 0 /\ id \in L!Visible(seesAll)
         /\ \A id \in due : id \in L!Visible(seesAll)
<1> DEFINE Ids == {id \in L!Visible(seesAll) : id > afterId}
<1>1. /\ nextRow - 1 \in Int /\ rows \subseteq 1 .. nextRow - 1 /\ due \subseteq rows
      /\ ~admin => due \subseteq Mine
      /\ admin => seesAll
      /\ admin \in BOOLEAN
  BY DEF ListingInv, ListingTypeOK, RowsFit
<1>2. L!Visible(seesAll) \subseteq rows /\ L!Visible(admin) \subseteq rows
  BY DEF L!Visible
<1>3. \A id \in rows : id \in Nat /\ id > 0  BY <1>1
<1>4. Ids \subseteq 1 .. nextRow - 1  BY <1>1, <1>2
<1>5. IsFiniteSet(Ids)
  <2>1. IsFiniteSet(1 .. nextRow - 1)
    <3>1. 1 \in Int /\ nextRow - 1 \in Int  BY <1>1
    <3> QED  BY <3>1, FS_Interval
  <2> QED  BY <1>4, <2>1, FS_Subset
<1>6. L!Visible(admin) \subseteq L!Visible(seesAll) /\ due \subseteq L!Visible(seesAll)
  BY <1>1 DEF L!Visible
<1> QED  BY <1>2, <1>3, <1>5, <1>6

(* The pages so far and the next one. *)
LEMMA PagesJoin ==
  ASSUME NEW s \in Seq(Nat), NEW v \in Seq(Nat), Increasing(s), Increasing(v),
         NEW n \in Nat, \A k \in DOMAIN s : s[k] <= n, \A k \in DOMAIN v : v[k] > n
  PROVE  /\ s \o v \in Seq(Nat) /\ Increasing(s \o v)
         /\ \A k \in DOMAIN (s \o v) : (\E j \in DOMAIN s : (s \o v)[k] = s[j])
                                         \/ (\E j \in DOMAIN v : (s \o v)[k] = v[j])
         /\ \A j \in DOMAIN s : \E k \in DOMAIN (s \o v) : (s \o v)[k] = s[j]
         /\ \A j \in DOMAIN v : \E k \in DOMAIN (s \o v) : (s \o v)[k] = v[j]
<1> DEFINE w == s \o v
           a == Len(s)
           b == Len(v)
<1>1. /\ w \in Seq(Nat) /\ a \in Nat /\ b \in Nat /\ Len(w) = a + b
      /\ DOMAIN w = 1 .. a + b /\ DOMAIN s = 1 .. a /\ DOMAIN v = 1 .. b
      /\ \A k \in 1 .. a : w[k] = s[k]
      /\ \A k \in 1 .. a + b : k > a => w[k] = v[k - a]
  OBVIOUS
<1>2. /\ \A k \in DOMAIN s : s[k] \in Nat /\ s[k] <= n
      /\ \A k \in DOMAIN v : v[k] \in Nat /\ v[k] > n
  OBVIOUS
<1> HIDE DEF w, a, b
<1>3. \A k \in DOMAIN w : k \in DOMAIN s \/ (k > a /\ k - a \in DOMAIN v)  BY <1>1
<1>4. \A k \in DOMAIN s : k \in DOMAIN w /\ w[k] = s[k]  BY <1>1
<1>5. \A k \in DOMAIN v : a + k \in DOMAIN w /\ w[a + k] = v[k]
  <2> SUFFICES ASSUME NEW k \in DOMAIN v PROVE a + k \in DOMAIN w /\ w[a + k] = v[k]  OBVIOUS
  <2>1. a + k \in 1 .. a + b /\ a + k > a /\ a + k - a = k  BY <1>1, SMTT(30)
  <2> QED  BY <1>1, <2>1
<1>6. \A k \in DOMAIN w : k > a /\ k - a \in DOMAIN v => w[k] = v[k - a]  BY <1>1
<1>7. Increasing(w)
  <2> SUFFICES ASSUME NEW j \in DOMAIN w, NEW k \in DOMAIN w, j < k PROVE w[j] < w[k]
    BY DEF Increasing
  <2>0. j \in Int /\ k \in Int /\ a \in Int  BY <1>1
  <2>1. CASE j \in DOMAIN s /\ k \in DOMAIN s  BY <1>4, <2>1 DEF Increasing
  <2>2. CASE j \in DOMAIN s /\ k > a /\ k - a \in DOMAIN v
    <3>1. w[j] = s[j] /\ w[k] = v[k - a]  BY <1>4, <1>6, <2>2
    <3>2. s[j] \in Nat /\ s[j] <= n /\ v[k - a] \in Nat /\ v[k - a] > n  BY <1>2, <2>2
    <3>3. s[j] < v[k - a]  BY <3>2
    <3> QED  BY <3>1, <3>3
  <2>3. CASE j > a /\ j - a \in DOMAIN v /\ k > a /\ k - a \in DOMAIN v
    <3>1. w[j] = v[j - a] /\ w[k] = v[k - a]  BY <1>6, <2>3
    <3>2. j - a < k - a  BY <2>0
    <3> QED  BY <2>3, <3>1, <3>2 DEF Increasing
  <2>4. ~(k \in DOMAIN s /\ j > a)  BY <1>1, <2>0
  <2> QED  BY <1>3, <2>1, <2>2, <2>3, <2>4
<1> QED  BY <1>1, <1>3, <1>4, <1>5, <1>6, <1>7 DEF w

(* findAll answers a page. *)
LEMMA FetchStep ==
  ASSUME ListingInv, NEW afterId \in {cursor, 0}, L!FetchPage(afterId)
  PROVE  ListingInv'
<1> DEFINE Ids == {id \in L!Visible(seesAll) : id > afterId}
           found == L!Found(afterId)
           page == L!PageOf(found)
           last == page[Len(page)]
           more == Len(found) > pageLimit /\ page # <<>>
<1>1. /\ reader = "query"
      /\ got' = IF afterId = 0 THEN page ELSE got \o page
      /\ due' = IF afterId = 0 THEN L!Visible(admin) ELSE due
      /\ cursor' = IF more THEN last ELSE 0
      /\ reader' = IF more THEN "more" ELSE "done"
      /\ UNCHANGED <<rows, pending, nextRow, pageLimit, admin, seesAll>>
  BY DEF L!FetchPage, L!NoCursor, L!table, L!Last
<1>2. /\ Ids \in SUBSET Nat /\ IsFiniteSet(Ids)
      /\ \A id \in L!Visible(admin) : id > 0 /\ id \in L!Visible(seesAll)
      /\ \A id \in due : id \in L!Visible(seesAll)
  BY <1>1, RowsBeyond
<1>3. /\ pageLimit \in Nat /\ cursor \in Nat /\ got \in Seq(Nat) /\ Increasing(got)
      /\ cursor # 0 => /\ \A k \in DOMAIN got : got[k] <= cursor
                       /\ Within(got, {i \in due : i <= cursor})
  BY DEF ListingInv, ListingTypeOK, GotFits
<1>4. /\ found = SubSeq(Ascending(Ids), 1, IF pageLimit + 1 < Len(Ascending(Ids))
                                         THEN pageLimit + 1 ELSE Len(Ascending(Ids)))
      /\ page = SubSeq(found, 1, IF pageLimit < Len(found) THEN pageLimit ELSE Len(found))
  BY ListingSelects DEF L!Found, L!Take, L!PageOf
<1> HIDE DEF Ids, found, page
<1>5. /\ page \in Seq(Nat) /\ Increasing(page) /\ \A k \in DOMAIN page : page[k] \in Ids
      /\ more => /\ last \in Ids /\ \A k \in DOMAIN page : page[k] <= last
                 /\ Within(page, {i \in Ids : i <= last})
      /\ pageLimit > 0 /\ ~more => Within(page, Ids)
  <2>1. Ids \in SUBSET Nat /\ IsFiniteSet(Ids) /\ pageLimit \in Nat  BY <1>2, <1>3
  <2> QED  BY <1>4, <2>1, PageIsFirst, ZenonT(30)
<1>6. \A i \in Ids : i \in Nat /\ i > afterId /\ i > 0
  <2>1. afterId \in Nat  BY <1>3
  <2> QED  BY <1>2, <2>1 DEF Ids
<1> HIDE DEF more, last
<1>7. CASE afterId = 0
  <2>1. got' = page /\ due' = L!Visible(admin) /\ due' \subseteq Ids
    BY <1>1, <1>2, <1>7 DEF Ids
  <2>2. ListingTypeOK' /\ RowsFit'
    <3>1. cursor' \in Nat  BY <1>1, <1>5, <1>6
    <3>2. due' \subseteq rows /\ (~admin => due' \subseteq Mine)  BY <2>1 DEF L!Visible
    <3>3. ListingTypeOK'  BY <1>1, <1>5, <2>1, <3>1 DEF ListingInv, ListingTypeOK
    <3> QED  BY <1>1, <3>2, <3>3 DEF ListingInv, RowsFit
  <2>3. CASE more
    <3>1. cursor' = last /\ reader' = "more"  BY <1>1, <2>3
    <3>2. Within(got', {i \in due' : i <= last})  BY <1>5, <2>1, <2>3 DEF Within
    <3>3. GotFits'  BY <1>5, <2>1, <2>3, <3>1, <3>2 DEF GotFits
    <3> QED  BY <2>2, <3>1, <3>3 DEF ListingInv
  <2>4. CASE ~more
    <3>1. cursor' = 0 /\ reader' = "done"  BY <1>1, <2>4
    <3>2. pageLimit' > 0 => Within(got', due')  BY <1>1, <1>5, <2>1, <2>4 DEF Within
    <3>3. GotFits'  BY <1>5, <2>1, <3>1 DEF GotFits
    <3> QED  BY <2>2, <3>1, <3>2, <3>3 DEF ListingInv
  <2> QED  BY <2>3, <2>4
<1>8. CASE afterId # 0
  <2>1. afterId = cursor /\ cursor # 0 /\ got' = got \o page /\ due' = due  BY <1>1, <1>8
  <2>2. \A k \in DOMAIN page : page[k] > cursor  BY <1>5, <1>6, <2>1
  <2>3. /\ got' \in Seq(Nat) /\ Increasing(got')
        /\ \A k \in DOMAIN got' : (\E j \in DOMAIN got : got'[k] = got[j])
                                    \/ (\E j \in DOMAIN page : got'[k] = page[j])
        /\ \A j \in DOMAIN got : \E k \in DOMAIN got' : got'[k] = got[j]
        /\ \A j \in DOMAIN page : \E k \in DOMAIN got' : got'[k] = page[j]
    BY <1>3, <1>5, <2>1, <2>2, PagesJoin, ZenonT(30)
  <2>4. \A i \in due : i \in Nat /\ (i <= cursor \/ i \in Ids)
    <3>1. \A i \in due : i \in Nat  BY DEF ListingInv, ListingTypeOK, RowsFit
    <3> QED  BY <1>2, <1>3, <2>1, <3>1 DEF Ids
  <2>5. ListingTypeOK' /\ RowsFit'
    <3>1. cursor' \in Nat  BY <1>1, <1>5, <1>6
    <3>2. ListingTypeOK'  BY <1>1, <2>3, <3>1 DEF ListingInv, ListingTypeOK
    <3> QED  BY <1>1, <2>1, <3>2 DEF ListingInv, RowsFit
  <2>6. \A i \in due : i <= cursor => \E k \in DOMAIN got' : got'[k] = i
    <3>1. \A i \in due : i <= cursor => \E j \in DOMAIN got : got[j] = i
      BY <1>3, <2>1 DEF Within
    <3> QED  BY <2>3, <3>1
  <2>7. CASE more
    <3>1. cursor' = last /\ reader' = "more"  BY <1>1, <2>7
    <3>2. last \in Nat /\ last > cursor  BY <1>5, <1>6, <2>1, <2>7
    <3>3. \A k \in DOMAIN got' : got'[k] <= last
      <4>1. \A j \in DOMAIN got : got[j] \in Nat /\ got[j] <= cursor  BY <1>3, <2>1
      <4>2. \A j \in DOMAIN got : got[j] <= last  BY <1>3, <3>2, <4>1
      <4> QED  BY <1>5, <2>3, <2>7, <4>2
    <3>4. Within(got', {i \in due' : i <= last})
      <4>1. \A i \in Ids : i <= last => \E k \in DOMAIN got' : got'[k] = i
        BY <1>5, <2>3, <2>7 DEF Within
      <4> QED  BY <2>1, <2>4, <2>6, <4>1 DEF Within
    <3>5. GotFits'  BY <2>3, <3>1, <3>3, <3>4 DEF GotFits
    <3> QED  BY <2>5, <3>1, <3>5 DEF ListingInv
  <2>8. CASE ~more
    <3>1. cursor' = 0 /\ reader' = "done"  BY <1>1, <2>8
    <3>2. pageLimit > 0 => \A i \in Ids : \E k \in DOMAIN got' : got'[k] = i
      BY <1>5, <2>3, <2>8 DEF Within
    <3>3. pageLimit' > 0 => Within(got', due')  BY <1>1, <2>1, <2>4, <2>6, <3>2 DEF Within
    <3>4. GotFits'  BY <2>3, <3>1 DEF GotFits
    <3> QED  BY <2>5, <3>1, <3>3, <3>4 DEF ListingInv
  <2> QED  BY <2>7, <2>8
<1> QED  BY <1>7, <1>8

LEMMA ListingStep == ListingInv /\ [Next]_vars => ListingInv'
<1> SUFFICES ASSUME ListingInv, [Next]_vars PROVE ListingInv'  OBVIOUS
<1>0. ListingTypeOK /\ RowsFit /\ GotFits  BY DEF ListingInv
<1>1. CASE UNCHANGED listing
  <2>1. ListingTypeOK' /\ RowsFit' /\ GotFits'
    BY <1>0, <1>1 DEF listing, ListingTypeOK, RowsFit, GotFits
  <2> QED  BY <1>1, <2>1 DEF listing, ListingInv
<1>2. CASE L!Insert \/ \E id \in pending : L!EndInsert(id)
  <2>1. /\ UNCHANGED <<pageLimit, admin, reader, seesAll, cursor, got, due>>
        /\ nextRow' \in {nextRow, nextRow + 1}
        /\ rows \subseteq rows' /\ rows' \subseteq rows \union pending
        /\ pending' \subseteq pending \union {nextRow}
        /\ nextRow' = nextRow => pending' \subseteq pending
    <3>1. nextRow + 1 # nextRow  BY <1>0 DEF ListingTypeOK
    <3>2. CASE L!Insert  BY <3>1, <3>2 DEF L!Insert, L!client
    <3>3. CASE \E id \in pending : L!EndInsert(id)  BY <3>3 DEF L!EndInsert, L!client
    <3> QED  BY <1>2, <3>2, <3>3
  <2>2. nextRow \in Nat \ {0} /\ rows \union pending \subseteq 1 .. nextRow - 1
    BY <1>0 DEF ListingTypeOK, RowsFit
  <2>3. nextRow' \in Nat \ {0}  BY <2>1, <2>2
  <2>4. rows' \union pending' \subseteq 1 .. nextRow' - 1
    <3>1. CASE nextRow' = nextRow  BY <2>1, <2>2, <3>1
    <3>2. CASE nextRow' = nextRow + 1
      <4>1. \A i \in rows \union pending : i \in 1 .. nextRow  BY <2>2
      <4>2. nextRow \in 1 .. nextRow /\ nextRow + 1 - 1 = nextRow  BY <2>2
      <4> QED  BY <2>1, <3>2, <4>1, <4>2
    <3> QED  BY <2>1, <3>1, <3>2
  <2>5. ListingTypeOK' /\ RowsFit' /\ GotFits'
    BY <1>0, <2>1, <2>3, <2>4 DEF ListingTypeOK, RowsFit, GotFits
  <2> QED  BY <2>1, <2>5 DEF ListingInv
<1>3. CASE L!ReadListRole
  <2>1. /\ reader' = "query" /\ seesAll' = admin
        /\ UNCHANGED <<rows, pending, nextRow, pageLimit, admin, cursor, got, due>>
    BY <1>3 DEF L!ReadListRole, L!table
  <2>2. ListingTypeOK' /\ RowsFit' /\ GotFits'
    BY <1>0, <2>1 DEF ListingTypeOK, RowsFit, GotFits
  <2> QED  BY <2>1, <2>2 DEF ListingInv
<1>4. CASE L!Demote
  <2>1. /\ admin' = FALSE /\ due' = due \intersect Mine
        /\ UNCHANGED <<rows, pending, nextRow, pageLimit, reader, seesAll, cursor, got>>
    BY <1>4 DEF L!Demote, L!table, L!client
  <2>2. ListingTypeOK' /\ RowsFit' /\ GotFits'
    BY <1>0, <2>1 DEF ListingTypeOK, RowsFit, GotFits, Within
  <2> QED  BY <2>1, <2>2 DEF ListingInv, Within
<1>5. ASSUME NEW afterId \in {cursor, L!NoCursor}, L!FetchPage(afterId) PROVE ListingInv'
  BY <1>5, FetchStep DEF L!NoCursor
<1> QED  BY <1>1, <1>2, <1>3, <1>4, <1>5, OneService DEF L!Next

-----------------------------------------------------------------------------
(* Signing keys.  A kid and a key that sign, or have signed a token which   *)
(* is still valid, are found in the store unless the key was given up, and  *)
(* every instance that is not older than the key read them there.           *)
Signer == Kid \X G!Key

Alive(p) == (\E t \in signed : t.by = p) \/ (\E i \in Instance : signs[i] = p)

InStore(p) == p = <<kid, public>> \/ p \in G!Previous

(* Nobody signs with what the script is about to name. *)
Ordered(p) == G!KeyOf(p) < public \/ (p = <<kid, public>> /\ step # "kid")

Kept(p) == G!KeyOf(p) \in givenUp \/ InStore(p)

TrustedBy(i, p) ==
  G!Running(i) /\ G!KeyOf(p) <= G!KeyOf(signs[i]) => G!KeyOf(p) \in givenUp \/ p \in trusts[i]

KeysTypeOK ==
  /\ now \in Nat
  /\ private \in G!Key /\ public \in G!Key /\ newest \in G!Key /\ kid \in Kid
  /\ previousPublic \in 0 .. MaxKey /\ previousKid \in Kid \union {NoKid}
  /\ signs \in [Instance -> Signer \union {G!Nothing}] /\ DOMAIN trusts = Instance
  /\ \A t \in signed : t.by \in Signer /\ t.exp \in Nat
  /\ usedUntil \in [G!Key -> Nat]

(* What the files are while the script is at work, and when it was killed.  *)
FilesFit ==
  /\ public <= newest /\ private <= newest
  /\ step \in {"previous_kid", "private"} => newest < MaxKey
  /\ step \in {"previous_kid", "private", "public"} => previousPublic = public
  /\ step \in {"private", "public", "kid"} => previousKid = kid /\ previousPublic # G!NoKey
  /\ step = "public" => private > public

SignersFit ==
  /\ \A p \in Signer : Alive(p) => Ordered(p) /\ Kept(p)
  /\ \A p \in Signer : Alive(p) => \A i \in Instance : TrustedBy(i, p)
  /\ \A i \in Instance : G!Running(i) => signs[i] \in trusts[i]

(* A token ends ACCESS_TTL after its key was last signed with. *)
TokensEnd ==
  \A t \in signed :
    /\ G!Second < t.exp /\ t.exp <= G!Second + AccessTtl
    /\ (\A i \in Instance : G!KeyOf(signs[i]) # G!KeyOf(t.by)) =>
         t.exp * PerSecond <= usedUntil[G!KeyOf(t.by)] + AccessTtl * PerSecond

KeysInv == KeysTypeOK /\ FilesFit /\ SignersFit /\ TokensEnd

(* A kid is a name, a key a number from 1 on. *)
LEMMA SignerParts ==
  /\ \A p \in Signer : /\ p[1] \in Kid /\ p[2] \in G!Key /\ p = <<p[1], p[2]>>
                       /\ p # G!Nothing /\ G!KeyOf(p) \in G!Key
  /\ G!NoKey \notin G!Key /\ G!KeyOf(G!Nothing) = G!NoKey
  /\ \A n \in Kid, k \in G!Key : <<n, k>> \in Signer /\ G!KeyOf(<<n, k>>) = k
  BY ServicesAssumption DEF Signer, G!Key, G!Nothing, G!KeyOf, G!NoKey

(* Whole seconds against ticks. *)
LEMMA SecondsBegin ==
  ASSUME NEW n \in Nat
  PROVE  /\ n \div PerSecond \in Nat
         /\ (n \div PerSecond) * PerSecond <= n
         /\ \A e \in Nat : e * PerSecond <= n => e <= n \div PerSecond
         /\ n \div PerSecond <= (n + 1) \div PerSecond
<1> DEFINE p == PerSecond
           q == n \div p
           r == (n + 1) \div p
<1>1. p \in Int /\ p > 0  BY AccessAssumption
<1> HIDE DEF p
<1>2. q \in Int /\ p * q <= n /\ n < p * q + p  BY <1>1
<1>3. r \in Int /\ n + 1 < p * r + p  BY <1>1
<1> HIDE DEF q, r
<1>4. ASSUME NEW a \in Int, NEW b \in Int, p * a <= n, n < p * b + p PROVE a <= b
  <2>1. SUFFICES ASSUME a > b PROVE FALSE  BY <1>4
  <2>2. PICK k \in Nat : a = b + 1 + k  BY <2>1, <1>4
  <2>3. p * a = p * b + p + p * k /\ p * k >= 0  BY <2>2, <1>1, <1>4
  <2> QED  BY <2>3, <1>1, <1>4
<1>5. 0 <= q  BY <1>1, <1>2, <1>4
<1>6. \A e \in Nat : e * p <= n => e <= q  BY <1>1, <1>2, <1>4
<1>7. q <= r  BY <1>1, <1>2, <1>3, <1>4
<1>8. q * p <= n  BY <1>1, <1>2
<1> QED  BY <1>2, <1>5, <1>6, <1>7, <1>8 DEF p, q, r

(* A lifetime in seconds, in ticks. *)
LEMMA ProductGrows ==
  ASSUME NEW e \in Nat, NEW b \in Nat, NEW n \in Nat, e <= b + AccessTtl, b * PerSecond <= n
  PROVE  e * PerSecond <= n + AccessTtl * PerSecond
<1>1. PerSecond \in Nat /\ AccessTtl \in Nat  BY AccessAssumption
<1>2. PICK k \in Nat : b + AccessTtl = e + k  BY <1>1
<1>3. b * PerSecond + AccessTtl * PerSecond = e * PerSecond + k * PerSecond
  <2>1. (b + AccessTtl) * PerSecond = (e + k) * PerSecond  BY <1>2
  <2> QED  BY <1>1, <2>1
<1>4. k * PerSecond \in Nat /\ e * PerSecond \in Nat /\ AccessTtl * PerSecond \in Nat
      /\ b * PerSecond \in Nat
  BY <1>1
<1> QED  BY <1>3, <1>4

(* A key that is out of use has signed nothing that is still valid. *)
LEMMA OutIsOver ==
  ASSUME KeysInv, NEW p \in Signer, G!OutOfUse(G!KeyOf(p))
  PROVE  ~ Alive(p)
<1>1. \A i \in Instance : signs[i] # p  BY DEF G!OutOfUse
<1>2. ASSUME NEW t \in signed, t.by = p PROVE FALSE
  <2>1. now >= usedUntil[G!KeyOf(p)] + AccessTtl * PerSecond  BY DEF G!OutOfUse
  <2>2. t.exp * PerSecond <= usedUntil[G!KeyOf(p)] + AccessTtl * PerSecond
    BY <1>2 DEF G!OutOfUse, KeysInv, TokensEnd
  <2>3. /\ t.exp \in Nat /\ now \in Nat /\ PerSecond \in Nat /\ AccessTtl \in Nat
        /\ usedUntil[G!KeyOf(p)] \in Nat
    BY SignerParts, AccessAssumption DEF KeysInv, KeysTypeOK
  <2>4. t.exp * PerSecond \in Nat /\ AccessTtl * PerSecond \in Nat  BY <2>3
  <2>5. t.exp * PerSecond <= now  BY <2>1, <2>2, <2>3, <2>4
  <2>6. t.exp <= now \div PerSecond /\ now \div PerSecond \in Nat
    BY <2>3, <2>5, SecondsBegin
  <2>7. now \div PerSecond < t.exp  BY DEF KeysInv, TokensEnd, G!Second
  <2> QED  BY <2>3, <2>6, <2>7
<1> QED  BY <1>1, <1>2 DEF Alive

(* A step of the script or of the operator changes the store only: those    *)
(* who sign have to be found there afterwards, or be given up.              *)
LEMMA StoreStep ==
  ASSUME KeysInv, UNCHANGED <<now, signs, trusts, signed, usedUntil>>,
         KeysTypeOK', FilesFit', givenUp \subseteq givenUp',
         \A p \in Signer : Alive(p) => Ordered(p)' /\ Kept(p)'
  PROVE  KeysInv'
<1>1. \A p : Alive(p)' <=> Alive(p)  BY DEF Alive
<1>2. SignersFit'
  <2>1. \A p \in Signer : Alive(p)' => Ordered(p)' /\ Kept(p)'  BY <1>1
  <2>2. \A p \in Signer : Alive(p)' => \A i \in Instance : TrustedBy(i, p)'
    BY <1>1 DEF KeysInv, SignersFit, TrustedBy, G!Running
  <2>3. \A i \in Instance : G!Running(i)' => signs'[i] \in trusts'[i]
    BY DEF KeysInv, SignersFit, G!Running
  <2> QED  BY <2>1, <2>2, <2>3 DEF SignersFit
<1>3. TokensEnd'  BY DEF KeysInv, TokensEnd, G!Second
<1> QED  BY <1>2, <1>3 DEF KeysInv

(* Copying public.pem over the previous slot loses no key that is in use,   *)
(* but one that is given up by that; so does emptying the slot.             *)
LEMMA SlotStep ==
  ASSUME KeysInv, givenUp' = givenUp \union G!GiveUp(previousPublic),
         NEW p \in Signer, Alive(p)
  PROVE  /\ G!KeyOf(p) \in givenUp' \/ p = <<kid, public>>
         /\ G!KeyOf(p) < public \/ p = <<kid, public>>
<1>1. Ordered(p) /\ Kept(p)  BY DEF KeysInv, SignersFit
<1>2. p # <<kid, public>> => G!KeyOf(p) < public /\ public \in Nat /\ G!KeyOf(p) \in Nat
  BY <1>1, SignerParts DEF Ordered, KeysInv, KeysTypeOK, G!Key
<1>3. CASE p \in G!Previous /\ p # <<kid, public>>
  <2>1. G!KeyOf(p) = previousPublic  BY <1>3 DEF G!Previous, G!KeyOf
  <2>2. ~ G!OutOfUse(previousPublic)  BY <2>1, OutIsOver
  <2>3. previousPublic \notin {G!NoKey, public}  BY <1>2, <1>3, <2>1 DEF G!Previous
  <2> QED  BY <1>1, <2>1, <2>2, <2>3 DEF G!GiveUp, Ordered
<1> QED  BY <1>1, <1>3 DEF Kept, InStore, Ordered

LEMMA StartRotateKeeps == ASSUME KeysInv, G!StartRotate PROVE KeysInv'
<1>1. /\ step = "idle" /\ step' = "previous_kid" /\ previousPublic' = public
      /\ givenUp' = givenUp \union G!GiveUp(previousPublic) /\ newest < MaxKey
      /\ UNCHANGED <<now, private, public, kid, previousKid, newest, signs, trusts,
                     signed, usedUntil>>
  BY DEF G!StartRotate
<1>2. KeysTypeOK'
  <2>1. public \in 0 .. MaxKey  BY ServicesAssumption DEF KeysInv, KeysTypeOK, G!Key
  <2> QED  BY <1>1, <2>1 DEF KeysInv, KeysTypeOK
<1>3. FilesFit'  BY <1>1 DEF KeysInv, FilesFit
<1>4. ASSUME NEW p \in Signer, Alive(p) PROVE Ordered(p)' /\ Kept(p)'
  <2>1. /\ G!KeyOf(p) \in givenUp' \/ p = <<kid, public>>
        /\ G!KeyOf(p) < public \/ p = <<kid, public>>
    BY <1>1, <1>4, SlotStep
  <2> QED  BY <1>1, <2>1 DEF Kept, InStore, Ordered
<1> QED  BY <1>1, <1>2, <1>3, <1>4, StoreStep

(* What is current stays; the previous slot had the current key already.    *)
LEMMA WritePreviousKidKeeps == ASSUME KeysInv, G!WritePreviousKid PROVE KeysInv'
<1>1. /\ step = "previous_kid" /\ step' = "private" /\ previousKid' = kid
      /\ UNCHANGED <<now, private, public, kid, previousPublic, newest, signs, trusts,
                     signed, usedUntil, givenUp>>
  BY DEF G!WritePreviousKid
<1>2. KeysTypeOK'  BY <1>1 DEF KeysInv, KeysTypeOK
<1>3. previousPublic = public /\ public # G!NoKey
  BY <1>1, SignerParts DEF KeysInv, FilesFit, KeysTypeOK
<1>4. FilesFit'  BY <1>1, <1>3 DEF KeysInv, FilesFit
<1>5. ASSUME NEW p \in Signer, Alive(p) PROVE Ordered(p)' /\ Kept(p)'
  <2>1. Ordered(p) /\ Kept(p)  BY <1>5 DEF KeysInv, SignersFit
  <2>2. p \in G!Previous => p = <<kid, public>>
    <3>1. SUFFICES ASSUME p \in G!Previous PROVE p = <<kid, public>>  OBVIOUS
    <3>2. G!KeyOf(p) = public  BY <1>3, <3>1 DEF G!Previous, G!KeyOf
    <3>3. public \in Nat  BY DEF KeysInv, KeysTypeOK, G!Key
    <3> QED  BY <2>1, <3>2, <3>3 DEF Ordered
  <2> QED  BY <1>1, <2>1, <2>2 DEF Kept, InStore, Ordered
<1> QED  BY <1>1, <1>2, <1>4, <1>5, StoreStep

LEMMA WritePrivateKeeps == ASSUME KeysInv, G!WritePrivate PROVE KeysInv'
<1>1. /\ step = "private" /\ step' = "public" /\ newest' = newest + 1 /\ private' = newest + 1
      /\ UNCHANGED <<now, public, kid, previousPublic, previousKid, signs, trusts,
                     signed, usedUntil, givenUp>>
  BY DEF G!WritePrivate
<1>2. newest + 1 \in G!Key /\ newest \in Nat /\ public \in Nat
  <2>1. newest < MaxKey  BY <1>1 DEF KeysInv, FilesFit
  <2>2. MaxKey \in Nat  BY ServicesAssumption
  <2>3. newest \in G!Key /\ public \in G!Key  BY DEF KeysInv, KeysTypeOK
  <2> QED  BY <2>1, <2>2, <2>3 DEF G!Key
<1>3. KeysTypeOK'  BY <1>1, <1>2 DEF KeysInv, KeysTypeOK
<1>4. FilesFit'  BY <1>1, <1>2 DEF KeysInv, FilesFit
<1>5. ASSUME NEW p \in Signer, Alive(p) PROVE Ordered(p)' /\ Kept(p)'
  <2>1. Ordered(p) /\ Kept(p)  BY <1>5 DEF KeysInv, SignersFit
  <2> QED  BY <1>1, <2>1 DEF Kept, InStore, Ordered, G!Previous
<1> QED  BY <1>1, <1>3, <1>4, <1>5, StoreStep

(* The pair that was current is the previous one by now. *)
LEMMA WritePublicKeeps == ASSUME KeysInv, G!WritePublic PROVE KeysInv'
<1>1. /\ step = "public" /\ step' = "kid" /\ public' = private
      /\ UNCHANGED <<now, private, kid, previousPublic, previousKid, newest, signs, trusts,
                     signed, usedUntil, givenUp>>
  BY DEF G!WritePublic
<1>2. /\ previousPublic = public /\ previousKid = kid /\ previousPublic # G!NoKey
      /\ private > public /\ kid # NoKid
  BY <1>1, ServicesAssumption DEF KeysInv, FilesFit, KeysTypeOK
<1>3. KeysTypeOK'  BY <1>1 DEF KeysInv, KeysTypeOK
<1>4. FilesFit'  BY <1>1 DEF KeysInv, FilesFit
<1>5. G!Previous = {<<kid, public>>} /\ G!Previous' = G!Previous
  BY <1>1, <1>2 DEF G!Previous
<1>6. ASSUME NEW p \in Signer, Alive(p) PROVE Ordered(p)' /\ Kept(p)'
  <2>1. Ordered(p) /\ Kept(p)  BY <1>6 DEF KeysInv, SignersFit
  <2>2. G!KeyOf(p) <= public
    <3>1. public \in Nat /\ G!KeyOf(<<kid, public>>) = public
      BY DEF KeysInv, KeysTypeOK, G!Key, G!KeyOf
    <3>2. G!KeyOf(p) \in Nat  BY SignerParts DEF G!Key
    <3> QED  BY <2>1, <3>1, <3>2 DEF Ordered
  <2>3. G!KeyOf(p) < private
    <3>1. public \in Nat /\ private \in Nat /\ G!KeyOf(p) \in Nat
      BY SignerParts DEF KeysInv, KeysTypeOK, G!Key
    <3> QED  BY <1>2, <2>2, <3>1
  <2> QED  BY <1>1, <1>5, <2>1, <2>3 DEF Kept, InStore, Ordered
<1> QED  BY <1>1, <1>3, <1>4, <1>6, StoreStep

(* Nobody had started with the new key under the old name. *)
LEMMA WriteKidKeeps == ASSUME KeysInv, G!WriteKid PROVE KeysInv'
<1>1. /\ step = "kid" /\ step' = "idle" /\ kid' \in Kid
      /\ UNCHANGED <<now, private, public, previousPublic, previousKid, newest, signs, trusts,
                     signed, usedUntil, givenUp>>
  BY DEF G!WriteKid
<1>2. KeysTypeOK'  BY <1>1 DEF KeysInv, KeysTypeOK
<1>3. FilesFit'  BY <1>1 DEF KeysInv, FilesFit
<1>4. ASSUME NEW p \in Signer, Alive(p) PROVE Ordered(p)' /\ Kept(p)'
  <2>1. Ordered(p) /\ Kept(p)  BY <1>4 DEF KeysInv, SignersFit
  <2>2. G!KeyOf(p) < public  BY <1>1, <2>1 DEF Ordered
  <2>3. p # <<kid, public>>
    <3>1. public \in Nat  BY DEF KeysInv, KeysTypeOK, G!Key
    <3> QED  BY <2>2, <3>1 DEF G!KeyOf
  <2> QED  BY <1>1, <2>1, <2>2, <2>3 DEF Kept, InStore, Ordered, G!Previous
<1> QED  BY <1>1, <1>2, <1>3, <1>4, StoreStep

LEMMA DieKeeps == ASSUME KeysInv, G!Die PROVE KeysInv'
<1>1. /\ step' = "idle"
      /\ UNCHANGED <<now, private, public, kid, previousPublic, previousKid, newest, signs,
                     trusts, signed, usedUntil, givenUp>>
  BY DEF G!Die, G!store
<1>2. KeysTypeOK'  BY <1>1 DEF KeysInv, KeysTypeOK
<1>3. FilesFit'  BY <1>1 DEF KeysInv, FilesFit
<1>4. ASSUME NEW p \in Signer, Alive(p) PROVE Ordered(p)' /\ Kept(p)'
  <2>1. Ordered(p) /\ Kept(p)  BY <1>4 DEF KeysInv, SignersFit
  <2> QED  BY <1>1, <2>1 DEF Kept, InStore, Ordered, G!Previous
<1> QED  BY <1>1, <1>2, <1>3, <1>4, StoreStep

LEMMA DropPreviousKeeps == ASSUME KeysInv, G!DropPrevious PROVE KeysInv'
<1>1. /\ step = "idle" /\ previousPublic' = G!NoKey /\ previousKid' = NoKid
      /\ givenUp' = givenUp \union G!GiveUp(previousPublic)
      /\ UNCHANGED <<now, private, public, kid, newest, step, signs, trusts, signed,
                     usedUntil>>
  BY DEF G!DropPrevious
<1>2. KeysTypeOK'
  <2>1. G!NoKey \in 0 .. MaxKey  BY ServicesAssumption DEF G!NoKey
  <2> QED  BY <1>1, <2>1 DEF KeysInv, KeysTypeOK
<1>3. FilesFit'  BY <1>1 DEF KeysInv, FilesFit
<1>4. ASSUME NEW p \in Signer, Alive(p) PROVE Ordered(p)' /\ Kept(p)'
  <2>1. /\ G!KeyOf(p) \in givenUp' \/ p = <<kid, public>>
        /\ G!KeyOf(p) < public \/ p = <<kid, public>>
    BY <1>1, <1>4, SlotStep
  <2> QED  BY <1>1, <2>1 DEF Kept, InStore, Ordered
<1> QED  BY <1>1, <1>2, <1>3, <1>4, StoreStep

(* An instance starts with what the store has: with the name of the current *)
(* key, for the script is not between public.pem and kid then; and what the *)
(* others know is as good as before.                                        *)
LEMMA RedeployKeeps == ASSUME KeysInv, NEW i \in Instance, G!Redeploy(i) PROVE KeysInv'
<1> DEFINE pair == <<kid, public>>
           old == G!KeyOf(signs[i])
<1>1. /\ signs' = [signs EXCEPT ![i] = IF G!StoreIsValid THEN <<kid, private>> ELSE G!Nothing]
      /\ trusts' = [trusts EXCEPT ![i] = IF G!StoreIsValid THEN {pair} \union G!Previous ELSE {}]
      /\ usedUntil' = [k \in G!Key |-> IF k = old THEN now ELSE usedUntil[k]]
      /\ UNCHANGED <<now, private, public, kid, previousPublic, previousKid, newest, step,
                     signed, givenUp>>
  BY DEF G!Redeploy, G!store
<1>2. pair \in Signer /\ G!KeyOf(pair) = public /\ public \in Nat
  BY SignerParts DEF KeysInv, KeysTypeOK, G!Key
<1>3. signs'[i] = IF G!StoreIsValid THEN pair ELSE G!Nothing
  BY <1>1 DEF KeysInv, KeysTypeOK, G!StoreIsValid
<1>4. trusts'[i] = IF G!StoreIsValid THEN {pair} \union G!Previous ELSE {}
  BY <1>1 DEF KeysInv, KeysTypeOK
<1>5. \A j \in Instance : j # i => signs'[j] = signs[j] /\ trusts'[j] = trusts[j]
  BY <1>1 DEF KeysInv, KeysTypeOK
<1>6. KeysTypeOK'
  <2>1. signs' \in [Instance -> Signer \union {G!Nothing}] /\ DOMAIN trusts' = Instance
    <3>1. signs' = [signs EXCEPT ![i] = IF G!StoreIsValid THEN pair ELSE G!Nothing]
      BY <1>1 DEF G!StoreIsValid
    <3> HIDE DEF pair
    <3> QED  BY <1>1, <1>2, <3>1 DEF KeysInv, KeysTypeOK
  <2>2. usedUntil' \in [G!Key -> Nat]  BY <1>1 DEF KeysInv, KeysTypeOK
  <2> QED  BY <1>1, <2>1, <2>2 DEF KeysInv, KeysTypeOK
<1>7. FilesFit'  BY <1>1 DEF KeysInv, FilesFit
<1>8. G!StoreIsValid => step # "kid"
  <2>1. SUFFICES ASSUME step = "kid" PROVE ~ G!StoreIsValid  OBVIOUS
  <2>2. previousKid = kid /\ previousPublic # G!NoKey /\ kid # NoKid
    BY <2>1, ServicesAssumption DEF KeysInv, FilesFit, KeysTypeOK
  <2>3. <<kid, previousPublic>> \in G!Previous  BY <2>2 DEF G!Previous
  <2> QED  BY <2>3 DEF G!StoreIsValid
<1>9. \A p \in Signer : /\ Alive(p)' => Alive(p) \/ (p = pair /\ G!StoreIsValid)
                        /\ (Ordered(p)' <=> Ordered(p)) /\ (Kept(p)' <=> Kept(p))
  <2>1. ASSUME NEW p \in Signer, Alive(p)', ~ Alive(p) PROVE p = pair /\ G!StoreIsValid
    <3>1. PICK j \in Instance : signs'[j] = p  BY <1>1, <2>1 DEF Alive
    <3>2. j = i  BY <1>5, <2>1, <3>1 DEF Alive
    <3>3. p # G!Nothing  BY SignerParts
    <3> HIDE DEF pair
    <3> QED  BY <1>3, <3>1, <3>2, <3>3
  <2>2. ASSUME NEW p \in Signer PROVE (Ordered(p)' <=> Ordered(p)) /\ (Kept(p)' <=> Kept(p))
    BY <1>1 DEF Ordered, Kept, InStore, G!Previous
  <2> QED  BY <2>1, <2>2
<1> HIDE DEF pair
<1>10. G!StoreIsValid => Ordered(pair) /\ Kept(pair)
  BY <1>8 DEF Ordered, Kept, InStore, pair
<1>11. ASSUME NEW p \in Signer, Alive(p)', NEW j \in Instance PROVE TrustedBy(j, p)'
  <2>1. CASE j = i
    <3>1. SUFFICES ASSUME G!StoreIsValid PROVE G!KeyOf(p) \in givenUp' \/ p \in trusts'[i]
      BY <1>3, <2>1 DEF TrustedBy, G!Running
    <3>2. Kept(p)  BY <1>9, <1>10, <1>11, <3>1 DEF KeysInv, SignersFit
    <3> QED  BY <1>1, <1>4, <3>1, <3>2 DEF Kept, InStore, pair
  <2>2. CASE j # i /\ Alive(p)
    <3>1. TrustedBy(j, p)  BY <2>2 DEF KeysInv, SignersFit
    <3> QED  BY <1>1, <1>5, <2>2, <3>1 DEF TrustedBy, G!Running
  <2>3. CASE j # i /\ p = pair
    <3>1. SUFFICES ASSUME G!Running(j), public <= G!KeyOf(signs[j]) PROVE pair \in trusts[j]
      BY <1>1, <1>2, <1>5, <2>3 DEF TrustedBy, G!Running
    <3>2. signs[j] \in Signer /\ Alive(signs[j])
      BY <3>1 DEF KeysInv, KeysTypeOK, G!Running, Alive
    <3>3. Ordered(signs[j]) /\ G!KeyOf(signs[j]) \in Nat /\ signs[j] \in trusts[j]
      BY <3>1, <3>2, SignerParts DEF KeysInv, SignersFit, G!Key
    <3> QED  BY <1>2, <3>1, <3>3 DEF Ordered, pair
  <2> QED  BY <1>9, <1>11, <2>1, <2>2, <2>3
<1>12. SignersFit'
  <2>1. \A p \in Signer : Alive(p)' => Ordered(p)' /\ Kept(p)'
    BY <1>9, <1>10 DEF KeysInv, SignersFit
  <2>2. ASSUME NEW j \in Instance, G!Running(j)' PROVE signs'[j] \in trusts'[j]
    <3>1. CASE j = i  BY <1>3, <1>4, <2>2, <3>1 DEF G!Running
    <3>2. CASE j # i  BY <1>5, <2>2, <3>2 DEF KeysInv, SignersFit, G!Running
    <3> QED  BY <3>1, <3>2
  <2> QED  BY <1>11, <2>1, <2>2 DEF SignersFit
<1>13. TokensEnd'
  <2>1. SUFFICES ASSUME NEW t \in signed,
                        \A j \in Instance : G!KeyOf(signs'[j]) # G!KeyOf(t.by)
                 PROVE  t.exp * PerSecond <= usedUntil'[G!KeyOf(t.by)] + AccessTtl * PerSecond
    BY <1>1 DEF KeysInv, TokensEnd, G!Second
  <2> DEFINE k == G!KeyOf(t.by)
  <2>2. k \in G!Key /\ t.exp \in Nat /\ now \in Nat
    BY SignerParts DEF KeysInv, KeysTypeOK
  <2>3. usedUntil'[k] = IF k = old THEN now ELSE usedUntil[k]  BY <1>1, <2>2
  <2>4. CASE k = old
    <3>1. t.exp <= now \div PerSecond + AccessTtl  BY DEF KeysInv, TokensEnd, G!Second
    <3>2. /\ now \div PerSecond \in Nat /\ (now \div PerSecond) * PerSecond <= now
          /\ AccessTtl \in Nat /\ PerSecond \in Nat
      BY <2>2, SecondsBegin, AccessAssumption
    <3>3. t.exp * PerSecond <= now + AccessTtl * PerSecond
      BY <2>2, <3>1, <3>2, ProductGrows
    <3> QED  BY <2>3, <2>4, <3>3
  <2>5. CASE k # old
    <3>1. \A j \in Instance : G!KeyOf(signs[j]) # k  BY <1>5, <2>1, <2>5
    <3> QED  BY <2>3, <2>5, <3>1 DEF KeysInv, TokensEnd
  <2> QED  BY <2>4, <2>5
<1> QED  BY <1>6, <1>7, <1>12, <1>13 DEF KeysInv

(* A signature adds a token of an instance that runs. *)
LEMMA SignKeeps == ASSUME KeysInv, NEW i \in Instance, G!Sign(i) PROVE KeysInv'
<1> DEFINE token == [by |-> signs[i], exp |-> G!Second + AccessTtl]
<1>1. /\ G!Running(i) /\ signed' = signed \union {token}
      /\ UNCHANGED <<now, private, public, kid, previousPublic, previousKid, newest, step,
                     signs, trusts, usedUntil, givenUp>>
  BY DEF G!Sign, G!store
<1>2. token.by = signs[i] /\ token.exp = G!Second + AccessTtl  OBVIOUS
<1> HIDE DEF token
<1>3. signs[i] \in Signer  BY <1>1 DEF KeysInv, KeysTypeOK, G!Running
<1>4. G!Second \in Nat /\ token.exp \in Nat /\ G!Second < token.exp
  <2>1. now \in Nat  BY DEF KeysInv, KeysTypeOK
  <2>2. G!Second \in Nat  BY <2>1, SecondsBegin DEF G!Second
  <2> QED  BY <1>2, <2>2, AccessAssumption
<1>5. KeysTypeOK'  BY <1>1, <1>2, <1>3, <1>4 DEF KeysInv, KeysTypeOK
<1>6. FilesFit'  BY <1>1 DEF KeysInv, FilesFit
<1>7. \A p \in Signer : Alive(p)' => Alive(p)  BY <1>1, <1>2 DEF Alive
<1>8. SignersFit'
  <2>1. \A p \in Signer : (Ordered(p)' <=> Ordered(p)) /\ (Kept(p)' <=> Kept(p))
    BY <1>1 DEF Ordered, Kept, InStore, G!Previous
  <2>2. \A p \in Signer, j \in Instance : TrustedBy(j, p)' <=> TrustedBy(j, p)
    BY <1>1 DEF TrustedBy, G!Running
  <2>3. \A j \in Instance : G!Running(j)' => signs'[j] \in trusts'[j]
    BY <1>1 DEF KeysInv, SignersFit, G!Running
  <2> QED  BY <1>7, <2>1, <2>2, <2>3 DEF KeysInv, SignersFit
<1>9. TokensEnd'
  <2>1. SUFFICES ASSUME NEW t \in signed'
                 PROVE  /\ G!Second < t.exp /\ t.exp <= G!Second + AccessTtl
                        /\ (\A j \in Instance : G!KeyOf(signs[j]) # G!KeyOf(t.by)) =>
                             t.exp * PerSecond <=
                               usedUntil[G!KeyOf(t.by)] + AccessTtl * PerSecond
    BY <1>1 DEF TokensEnd, G!Second
  <2>2. CASE t \in signed  BY <2>2 DEF KeysInv, TokensEnd
  <2>3. CASE t = token  BY <1>2, <1>4, <2>3
  <2> QED  BY <1>1, <2>2, <2>3
<1> QED  BY <1>5, <1>6, <1>8, <1>9 DEF KeysInv

(* Time takes the tokens that end. *)
LEMMA KeysTickKeeps == ASSUME KeysInv, G!Tick PROVE KeysInv'
<1>1. /\ now' = now + 1 /\ signed' = {t \in signed : (now + 1) \div PerSecond < t.exp}
      /\ UNCHANGED <<private, public, kid, previousPublic, previousKid, newest, step, signs,
                     trusts, usedUntil, givenUp>>
  BY DEF G!Tick, G!store
<1>2. now \in Nat /\ signed' \subseteq signed  BY <1>1 DEF KeysInv, KeysTypeOK
<1>3. KeysTypeOK'  BY <1>1, <1>2 DEF KeysInv, KeysTypeOK
<1>4. FilesFit'  BY <1>1 DEF KeysInv, FilesFit
<1>5. \A p \in Signer : Alive(p)' => Alive(p)  BY <1>1, <1>2 DEF Alive
<1>6. SignersFit'
  <2>1. \A p \in Signer : (Ordered(p)' <=> Ordered(p)) /\ (Kept(p)' <=> Kept(p))
    BY <1>1 DEF Ordered, Kept, InStore, G!Previous
  <2>2. \A p \in Signer, j \in Instance : TrustedBy(j, p)' <=> TrustedBy(j, p)
    BY <1>1 DEF TrustedBy, G!Running
  <2>3. \A j \in Instance : G!Running(j)' => signs'[j] \in trusts'[j]
    BY <1>1 DEF KeysInv, SignersFit, G!Running
  <2> QED  BY <1>5, <2>1, <2>2, <2>3 DEF KeysInv, SignersFit
<1>7. TokensEnd'
  <2>1. SUFFICES ASSUME NEW t \in signed'
                 PROVE  /\ (now + 1) \div PerSecond < t.exp
                        /\ t.exp <= (now + 1) \div PerSecond + AccessTtl
                        /\ (\A j \in Instance : G!KeyOf(signs[j]) # G!KeyOf(t.by)) =>
                             t.exp * PerSecond <=
                               usedUntil[G!KeyOf(t.by)] + AccessTtl * PerSecond
    BY <1>1 DEF TokensEnd, G!Second
  <2>2. /\ now \div PerSecond \in Nat /\ (now + 1) \div PerSecond \in Nat
        /\ now \div PerSecond <= (now + 1) \div PerSecond
        /\ AccessTtl \in Nat /\ t.exp \in Nat
    <3>1. AccessTtl \in Nat  BY AccessAssumption
    <3>2. t.exp \in Nat  BY <1>2 DEF KeysInv, KeysTypeOK
    <3>3. now + 1 \in Nat  BY <1>2
    <3> QED  BY <1>2, <3>1, <3>2, <3>3, SecondsBegin
  <2>3. t.exp <= now \div PerSecond + AccessTtl  BY <1>2 DEF KeysInv, TokensEnd, G!Second
  <2>4. (\A j \in Instance : G!KeyOf(signs[j]) # G!KeyOf(t.by)) =>
          t.exp * PerSecond <= usedUntil[G!KeyOf(t.by)] + AccessTtl * PerSecond
    BY <1>2 DEF KeysInv, TokensEnd
  <2> QED  BY <1>1, <2>2, <2>3, <2>4
<1> QED  BY <1>3, <1>4, <1>6, <1>7 DEF KeysInv

(* Signing keys: every step keeps KeysInv. *)
LEMMA KeysStep == KeysInv /\ [Next]_vars => KeysInv'
<1> SUFFICES ASSUME KeysInv, [Next]_vars PROVE KeysInv'  OBVIOUS
<1>1. CASE UNCHANGED keyring
  BY <1>1 DEF keyring, KeysInv, KeysTypeOK, FilesFit, SignersFit, TokensEnd, Alive, Ordered,
     Kept, InStore, TrustedBy, G!Previous, G!Running, G!Second
<1>2. CASE G!StartRotate  BY <1>2, StartRotateKeeps
<1>3. CASE G!WritePreviousKid  BY <1>3, WritePreviousKidKeeps
<1>4. CASE G!WritePrivate  BY <1>4, WritePrivateKeeps
<1>5. CASE G!WritePublic  BY <1>5, WritePublicKeeps
<1>6. CASE G!WriteKid  BY <1>6, WriteKidKeeps
<1>7. CASE G!Die  BY <1>7, DieKeeps
<1>8. CASE G!DropPrevious  BY <1>8, DropPreviousKeeps
<1>9. CASE G!Tick  BY <1>9, KeysTickKeeps
<1>10. ASSUME NEW i \in Instance, G!Redeploy(i) \/ G!Sign(i) PROVE KeysInv'
  BY <1>10, RedeployKeeps, SignKeeps
<1> QED
  BY <1>1, <1>2, <1>3, <1>4, <1>5, <1>6, <1>7, <1>8, <1>9, <1>10, OneService DEF G!Next

-----------------------------------------------------------------------------
(* Access: what Access_proofs proves of the service alone. *)
AP == INSTANCE Access_proofs WITH now <- time, admin <- isAdmin, pc <- request

(* The two instances of Access, in Services and here, are the same. *)
LEMMA SameAccess ==
  ASSUME A!Next PROVE AP!Next
  BY DEF A!denylist, A!requests, A!sockets, A!history, A!vars, A!Token, A!NoToken,
     A!Second, A!Ceiling, A!Signed, A!Expired, A!Verifies, A!Denied, A!Goto,
     A!Answer, A!Continue, A!Disconnect, A!SignAccess, A!Arrive, A!Request,
     A!Handshake, A!Join, A!CheckDenylist, A!ReadRole, A!Finish, A!CloseExpired,
     A!Leave, A!Logout, A!DenyFamily, A!ChangeRole, A!Restart, A!Remaining, A!Tick,
     A!Next, AP!denylist, AP!requests, AP!sockets, AP!history, AP!vars, AP!Token,
     AP!NoToken, AP!Second, AP!Ceiling, AP!Signed, AP!Expired, AP!Verifies,
     AP!Denied, AP!Goto, AP!Answer, AP!Continue, AP!Disconnect, AP!SignAccess,
     AP!Arrive, AP!Request, AP!Handshake, AP!Join, AP!CheckDenylist, AP!ReadRole,
     AP!Finish, AP!CloseExpired, AP!Leave, AP!Logout, AP!DenyFamily, AP!ChangeRole,
     AP!Restart, AP!Remaining, AP!Tick, AP!Next

(* Access: every step keeps the invariant. *)
LEMMA GuardsStep == AP!AInv /\ [Next]_vars => AP!AInv'
<1> SUFFICES ASSUME AP!AInv, [Next]_vars PROVE AP!AInv'  OBVIOUS
<1>1. A!Next => AP!Next  BY SameAccess
<1>2. [AP!Next]_AP!vars
  BY <1>1, OneService DEF access, AP!vars, AP!denylist, AP!requests, AP!sockets, AP!history
<1>3. AP!AInv /\ [AP!Next]_AP!vars => AP!AInv'  BY AccessAssumption, AP!AccessStep
<1> QED  BY <1>2, <1>3

(* Access: the start. *)
LEMMA GuardsInit == Init => AP!AInv
<1>1. AP!Init => AP!AInv  BY AccessAssumption, AP!AccessInit
<1>2. Init => AP!Init
  BY DEF Init, A!Init, AP!Init, A!Token, AP!Token, A!NoToken, AP!NoToken
<1> QED  BY <1>1, <1>2

-----------------------------------------------------------------------------
(* All these services start in their invariants. *)
LEMMA ServicesInit ==
  Init => /\ EventsInv /\ SessionsInv /\ RotationInv /\ CardsInv /\ WorkersInv
          /\ TasksInv /\ BumpsInv /\ LoadsInv /\ LimiterInv /\ StreamsInv
          /\ ListingInv /\ CatchUpInv /\ KeysInv
<1> SUFFICES ASSUME Init
             PROVE  /\ EventsInv /\ SessionsInv /\ RotationInv /\ CardsInv /\ WorkersInv
                    /\ TasksInv /\ BumpsInv /\ LoadsInv /\ LimiterInv /\ StreamsInv
                    /\ ListingInv /\ CatchUpInv /\ KeysInv
  OBVIOUS
<1>1. EventsInv  BY DEF Init, E!Init, EventsInv
<1>2. SessionsInv  BY DEF Init, S!Init, SessionsInv
<1>3. RotationInv  BY DEF Init, D!Init, RotationInv
<1>4. CardsInv  BY DEF Init, K!Init, CardsInv
<1>5. WorkersInv  BY DEF Init, P!Init, P!PostJob, P!NoJob, WorkersInv
<1>6. TasksInv
  <2>1. T!Init /\ Running = {}  BY DEF Init, T!Init, Running
  <2>2. Cardinality(Running) = 0  BY <2>1, FS_EmptySet
  <2> QED  BY <2>1, <2>2 DEF T!Init, TasksInv, RunsAhead
<1>7. BumpsInv
  <2>1. B!Init /\ B!Applied = {}  BY DEF Init, B!Init, B!Applied
  <2>2. Cardinality(B!Applied) = 0 /\ SumFunctionOnSet(Amount, B!Applied) = 0
    BY <2>1, FS_EmptySet, SumEmpty
  <2> QED  BY <2>1, <2>2 DEF B!Init, BumpsInv
<1>8. LoadsInv
  <2>1. excuses = 1 /\ leading = {} /\ pc = [r \in Req |-> "idle"]  BY DEF Init, K!Init
  <2>2. Owed = {} /\ ReadersFit  BY <2>1 DEF Owed, ReadersFit
  <2>3. Cardinality(Owed) = 0 /\ Gap \in {0, 1}  BY <2>2, FS_EmptySet DEF Gap
  <2> QED  BY <2>1, <2>2, <2>3 DEF LoadsInv, Debt
<1>9. LimiterInv
  <2>1. /\ clock = 0 /\ failOpen \in BOOLEAN /\ zset = <<>> /\ keyEnds = 0 /\ advice = 0
        /\ granted = <<>> /\ unchecked = <<>>
    BY DEF Init, R!Init
  <2>2. <<>> \in Seq(Int) /\ DOMAIN <<>> = {}  OBVIOUS
  <2>3. \A a \in Int : Count(<<>>, a) = 0  BY NothingCounts
  <2>4. Window \in Int /\ Limit \in Nat  BY ServicesAssumption
  <2>5. LimiterTypeOK /\ ScoresFit /\ GrantsFit /\ AdviceFits
    BY <2>1, <2>2 DEF LimiterTypeOK, ScoresFit, GrantsFit, AdviceFits
  <2>6. GrantsCounted  BY <2>1, <2>3 DEF GrantsCounted
  <2>7. Count(zset, clock - Window) <= Limit  BY <2>1, <2>3, <2>4
  <2> QED  BY <2>1, <2>5, <2>6, <2>7 DEF LimiterInv
<1>10. StreamsInv
  <2>1. /\ nextId = 1 /\ changes = 0 /\ updating = {} /\ log = <<>> /\ emitted = {}
        /\ conn = [c \in Client |-> "closed"] /\ wire = [c \in Client |-> <<>>]
        /\ asked = [c \in Client |-> 0] /\ lastId = [c \in Client |-> 0]
        /\ seen = [c \in Client |-> {}] /\ missed = [c \in Client |-> {}]
        /\ hidden = [c \in Client |-> {}]
    BY DEF Init, E!Init
  <2>2. <<>> \in Seq(Event) /\ DOMAIN <<>> = {}  OBVIOUS
  <2>3. Rising(<<>>) /\ Before(<<>>, 1)  BY <2>2 DEF Rising, Before
  <2>4. EventsTypeOK  BY <2>1, <2>2 DEF EventsTypeOK
  <2>5. HistoryFits  BY <2>1, <2>2, <2>3 DEF HistoryFits
  <2>6. ASSUME NEW c \in Client PROVE StreamFits(c)
    <3>1. /\ conn[c] = "closed" /\ wire[c] = <<>> /\ lastId[c] = 0 /\ seen[c] = {}
          /\ nextId = 1 /\ emitted = {}
      BY <2>1
    <3> QED  BY <3>1, <2>2, <2>3 DEF StreamFits
  <2> QED  BY <2>4, <2>5, <2>6 DEF StreamsInv
<1>11. ListingInv
  <2>1. /\ rows = {} /\ pending = {} /\ nextRow = 1 /\ pageLimit \in 0 .. MaxLimit
        /\ admin \in BOOLEAN /\ reader = "start" /\ cursor = 0 /\ got = <<>> /\ due = {}
    BY DEF Init, L!Init, L!NoCursor
  <2>2. <<>> \in Seq(Nat) /\ DOMAIN <<>> = {}  OBVIOUS
  <2>3. MaxLimit \in Nat  BY ServicesAssumption
  <2>4. ListingTypeOK /\ RowsFit /\ GotFits
    BY <2>1, <2>2, <2>3 DEF ListingTypeOK, RowsFit, GotFits, Increasing
  <2> QED  BY <2>1, <2>4 DEF ListingInv
<1>12. CatchUpInv
  <2>1. /\ log = <<>> /\ restarts = 0 /\ foreign = {}
        /\ missed = [c \in Client |-> {}] /\ hidden = [c \in Client |-> {}]
    BY DEF Init, E!Init
  <2>2. DOMAIN log = {}  BY <2>1
  <2> QED  BY <2>1, <2>2 DEF CatchUpInv
<1>13. KeysInv
  <2>1. /\ now = 0 /\ private = 1 /\ public = 1 /\ newest = 1 /\ kid \in Kid
        /\ previousPublic = 0 /\ previousKid = NoKid /\ step = "idle"
        /\ signs = [i \in Instance |-> <<kid, 1>>] /\ trusts = [i \in Instance |-> {<<kid, 1>>}]
        /\ signed = {} /\ usedUntil = [k \in G!Key |-> 0]
    BY ServicesAssumption DEF Init, G!Init, G!NoKey
  <2>2. 1 \in G!Key /\ MaxKey \in Nat  BY ServicesAssumption DEF G!Key
  <2>3. <<kid, 1>> \in Signer  BY <2>1, <2>2, SignerParts
  <2>4. KeysTypeOK  BY <2>1, <2>2, <2>3 DEF KeysTypeOK
  <2>5. FilesFit  BY <2>1 DEF FilesFit
  <2>6. \A p \in Signer : Alive(p) => p = <<kid, public>>  BY <2>1 DEF Alive
  <2>7. SignersFit
    BY <2>1, <2>6 DEF SignersFit, Ordered, Kept, InStore, TrustedBy
  <2>8. TokensEnd  BY <2>1 DEF TokensEnd
  <2> QED  BY <2>4, <2>5, <2>7, <2>8 DEF KeysInv
<1> QED  BY <1>1, <1>2, <1>3, <1>4, <1>5, <1>6, <1>7, <1>8, <1>9, <1>10, <1>11,
            <1>12, <1>13

(* updateStatus and emitStatusChanged are two steps of any number of        *)
(* concurrent requests: subscribers end with the order's status or with     *)
(* that of an update which overlapped the last one, and with nothing older  *)
(* unless a restart swallowed the last announcement.                        *)
THEOREM LastNewsIsCurrent == Spec => []QuietMeansCurrent
<1>1. EventsInv => QuietMeansCurrent
  BY DEF EventsInv, QuietMeansCurrent, E!QuietMeansCurrent
<1> QED  BY <1>1, ServicesInit, EventsStep, PTL DEF Spec

(* streamEvents replays, subscribes and only then awaits, and an            *)
(* EventSource comes back with the last id it had: for any number of        *)
(* clients, breaks and restarts an open stream has each event of its order  *)
(* once and in order, but those that had left the bounded history and those *)
(* the id of an earlier process hides.                                      *)
THEOREM StreamCarriesAll == Spec => []StreamIsExact
<1>1. StreamsInv => StreamIsExact
  <2> SUFFICES ASSUME StreamsInv, NEW c \in Client, conn[c] = "open"
               PROVE  /\ emitted \subseteq seen[c] \union E!Waiting(c) \union missed[c]
                                           \union hidden[c]
                      /\ seen[c] \intersect E!Waiting(c) = {}
                      /\ \A j, k \in DOMAIN wire[c] : j < k => wire[c][j][1] < wire[c][k][1]
    BY DEF StreamIsExact, E!StreamIsExact
  <2>1. /\ StreamFits(c) /\ seen[c] \subseteq Nat  BY DEF StreamsInv, EventsTypeOK
  <2>2. emitted \subseteq seen[c] \union E!Waiting(c) \union missed[c] \union hidden[c]
    BY <2>1 DEF StreamFits
  <2>3. \A i \in seen[c] : \A k \in DOMAIN wire[c] : i \in Nat /\ i < wire[c][k][1]
    BY <2>1 DEF StreamFits
  <2>4. seen[c] \intersect E!Waiting(c) = {}  BY <2>3 DEF E!Waiting
  <2>5. \A j, k \in DOMAIN wire[c] : j < k => wire[c][j][1] < wire[c][k][1]
    BY <2>1 DEF StreamFits, Rising
  <2> QED  BY <2>2, <2>4, <2>5
<1> QED  BY <1>1, ServicesInit, StreamsStep, PTL DEF Spec

(* What README.md:525 says of Last-Event-ID is true of every process until  *)
(* the first restart, for any number of clients and breaks: the numbering   *)
(* from 1 of a new process is all that stands against it.                   *)
THEOREM CatchesUpUntilRestart == Spec => [](restarts = 0 => StreamCatchesUp)
<1>1. CatchUpInv /\ StreamsInv => (restarts = 0 => StreamCatchesUp)
  <2> SUFFICES ASSUME CatchUpInv, StreamsInv, restarts = 0, NEW c \in Client, conn[c] = "open",
                      NEW k \in DOMAIN log, log[k][2] # 0
               PROVE  log[k][1] \in seen[c] \union E!Waiting(c)
    BY DEF StreamCatchesUp, E!StreamCatchesUp, E!NotWatched
  <2>1. log[k][1] \in emitted /\ log[k][1] \notin missed[c] /\ hidden[c] = {}
    BY DEF CatchUpInv
  <2> QED  BY <2>1 DEF StreamsInv, StreamFits
<1> QED  BY <1>1, ServicesInit, StreamsStep, CatchUpStep, PTL DEF Spec

(* touchSession and destroySession: whatever requests are in flight when a  *)
(* session ends, none brings it back.                                       *)
THEOREM NoRevival == Spec => []EndedStaysEnded
<1>1. SessionsInv => EndedStaysEnded  BY DEF SessionsInv, EndedStaysEnded, S!EndedStaysEnded
<1> QED  BY <1>1, ServicesInit, SessionsStep, PTL DEF Spec

(* FOR UPDATE SKIP LOCKED and the count that follows: any number of workers *)
(* do each of any number of jobs once, and none stops before all are done.  *)
THEOREM EachJobOnce == Spec => []JobsDoneOnce
<1>1. WorkersInv => JobsDoneOnce  BY DEF WorkersInv, JobsDoneOnce, P!JobsDoneOnce
<1> QED  BY <1>1, ServicesInit, WorkersStep, PTL DEF Spec

(* getCard and invalidateCard: a stale card is stale for one of the reasons *)
(* the code accepts, for any number of readers, changes and faults.         *)
THEOREM StaleForAReason == Spec => []StaleHasCause
<1>1. CardsInv => StaleHasCause
  BY DEF CardsInv, Covered, StaleHasCause, K!StaleHasCause
<1> QED  BY <1>1, ServicesInit, CardsStep, PTL DEF Spec

(* compare-and-delete: only its owner or its TTL ends a lock. *)
THEOREM LockIsOwned == Spec => ForeignLockSurvives
<1>1. [Next]_vars =>
        [\A r \in Req : lock = r /\ lock' # r => K!ExpireLock \/ pc[r] = "release"]_(K!vars)
  <2> SUFFICES ASSUME [Next]_vars, NEW r \in Req, lock = r, lock' # r, ~K!ExpireLock
               PROVE  pc[r] = "release"
    OBVIOUS
  <2>0. lock # NoReq  BY ServicesAssumption
  <2>1. CASE UNCHANGED cards  BY <2>1 DEF cards
  <2>2. ASSUME NEW q \in Req, K!Acquire(q) PROVE FALSE  BY <2>0, <2>2 DEF K!Acquire
  <2>3. ASSUME NEW q \in Req, K!Release(q) PROVE pc[r] = "release"  BY <2>3 DEF K!Release
  <2>4. ASSUME NEW q \in Req,
               K!GetCard(q) \/ K!Recheck(q) \/ K!Poll(q) \/ K!Load(q) \/ K!Store(q)
                 \/ K!GiveUp(q) \/ K!Die(q)
        PROVE FALSE
    BY <2>4 DEF K!GetCard, K!Recheck, K!Poll, K!Load, K!Store, K!GiveUp, K!Die, K!Lookup
  <2>5. K!CommitOrder \/ K!ChangeSilently \/ K!Invalidate \/ K!StoreLate \/ K!ExpireCard => FALSE
    BY DEF K!CommitOrder, K!ChangeSilently, K!Invalidate, K!StoreLate, K!ExpireCard
  <2> QED  BY <2>1, <2>2, <2>3, <2>4, <2>5, OneService DEF K!Next, K!Proceed
<1> QED  BY <1>1, PTL DEF Spec, ForeignLockSurvives, K!ForeignLockSurvives

(* rotate.sh, with-secrets.sh and the pools: once userlist.txt is right, a  *)
(* process that started from the new file is not refused, however many      *)
(* rotations and interruptions there were.                                  *)
THEOREM RestartIsEnough == Spec => []RestartCures
<1>1. RotationInv => RestartCures  BY DEF RotationInv, RestartCures, D!RestartCures
<1> QED  BY <1>1, ServicesInit, RotationStep, PTL DEF Spec

(* jobId and BullMQ's locks: however often the event is delivered and       *)
(* whoever is killed, each receipt has a job or a stalled run of its own.   *)
THEOREM NoReceiptWithoutCause == Spec => []ReceiptHasCause
<1>1. TasksInv => ReceiptHasCause
  BY RunsCounted DEF TasksInv, ReceiptHasCause, T!ReceiptHasCause
<1> QED  BY <1>1, ServicesInit, TasksStep, PTL DEF Spec

(* withRetry: no bump is lost or applied twice, for any number of callers   *)
(* and attempts, and none gives up before as many others have committed.    *)
THEOREM NoLostBump == Spec => []BumpsAddUp
<1>1. BumpsInv => BumpsAddUp
  <2> SUFFICES ASSUME BumpsInv PROVE BumpsAddUp  OBVIOUS
  <2> DEFINE f == [b \in B!Applied |-> b]
  <2>1. /\ IsFiniteSet(B!Applied) /\ \A b \in B!Applied : Amount[b] = f[b]
    BY AppliedFinite
  <2>2. DOMAIN f = B!Applied  OBVIOUS
  <2> HIDE DEF f
  <2>3. SumFunctionOnSet(Amount, B!Applied) = SumFunctionOnSet(f, B!Applied)  BY <2>1, SumSame
  <2>4. B!SumFunction(f) = SumFunctionOnSet(f, B!Applied)
    BY <2>2 DEF B!SumFunction, B!SumFunctionOnSet, B!FoldFunctionOnSet, B!MapThenFoldSet,
                SumFunctionOnSet, FoldFunctionOnSet, MapThenFoldSet
  <2>5. balance = B!SumFunction(f)  BY <2>3, <2>4 DEF BumpsInv
  <2>6. \A b \in Bump : turn[b] = "gaveUp" => Cardinality(B!Applied) >= MaxAttempts
    BY AppliedFinite, ServicesAssumption DEF BumpsInv
  <2>7. Cardinality(B!Applied) = B!Cardinality(B!Applied)  BY DEF Cardinality, B!Cardinality
  <2> QED  BY <2>5, <2>6, <2>7 DEF BumpsAddUp, B!BumpsAddUp, f
<1> QED  BY <1>1, ServicesInit, BumpsStep, PTL DEF Spec

(* getCard, its lock, its budget and its fallbacks: any number of readers   *)
(* that miss together ask the database once, and once more for each card    *)
(* lost, command failed, leader dead, lock overrun or budget spent.         *)
THEOREM EachLoadHasAReason == Spec => []LoadsAccounted
<1>1. LoadsInv => LoadsAccounted
  <2>1. Debt \in Nat  BY DebtTypes DEF Debt
  <2> QED  BY <2>1 DEF LoadsInv, LoadsAccounted, K!LoadsAccounted
<1>2. Init => CardsInv /\ LoadsInv  BY ServicesInit
<1>3. (CardsInv /\ LoadsInv) /\ [Next]_vars => (CardsInv /\ LoadsInv)'
  BY CardsStep, LoadsStep
<1> QED  BY <1>1, <1>2, <1>3, PTL DEF Spec

(* consume: no window, wherever it begins and however the clock, the limit  *)
(* and the window are chosen, lets more requests through than the limit,    *)
(* except those that pass because Redis failed; the login throttle has no   *)
(* such exception.                                                          *)
THEOREM WindowHolds == Spec => []SlidingLimit
<1>1. LimiterInv => SlidingLimit
  <2> SUFFICES ASSUME LimiterInv PROVE SlidingLimit  OBVIOUS
  <2> DEFINE start == clock - Window
             g == Count(granted, start)
             z == Count(zset, start)
             u == Count(unchecked, start)
  <2>1. start \in Int /\ Limit \in Int /\ g \in Nat /\ z \in Nat /\ u \in Nat
    BY LimiterNumbers
  <2>2. granted \in Seq(Int) /\ unchecked \in Seq(Int)  BY DEF LimiterInv, LimiterTypeOK
  <2>3. start <= start /\ \A k \in DOMAIN granted : granted[k] > start
    BY <2>1 DEF LimiterInv, GrantsFit
  <2>4. g = Len(granted) /\ u <= Len(unchecked)  BY <2>1, <2>2, <2>3, CountType
  <2>5. z <= Limit  BY DEF LimiterInv
  <2>6. g <= z + u  BY <2>1, <2>3 DEF LimiterInv, GrantsCounted
  <2>7. ~failOpen => u = 0  BY <2>1, NothingCounts DEF LimiterInv
  <2>8. Len(unchecked) \in Nat  BY <2>2
  <2> HIDE DEF g, z, u
  <2>9. CASE failOpen
    <3>1. Len(granted) <= Limit + Len(unchecked)  BY <2>1, <2>4, <2>5, <2>6, <2>8
    <3> QED  BY <2>9, <3>1 DEF SlidingLimit, R!SlidingLimit
  <2>10. CASE ~failOpen
    <3>1. Len(granted) <= Limit + 0  BY <2>1, <2>4, <2>5, <2>6, <2>7, <2>10
    <3> QED  BY <2>10, <3>1 DEF SlidingLimit, R!SlidingLimit
  <2> QED  BY <2>9, <2>10
<1> QED  BY <1>1, ServicesInit, LimiterStep, PTL DEF Spec

(* Retry-After in whole seconds: a client that waits as told finds room,    *)
(* whatever limit, window and clock.                                        *)
THEOREM WaitingIsEnough == Spec => []RetryAfterIsHonest
<1>1. LimiterInv => RetryAfterIsHonest
  <2> SUFFICES ASSUME LimiterInv, advice # 0, clock >= advice
               PROVE  Len(R!Within(zset)) < Limit
    BY DEF RetryAfterIsHonest, R!RetryAfterIsHonest
  <2> DEFINE then == advice - Window
             start == clock - Window
  <2>1. clock \in Int /\ Window \in Int /\ Limit \in Int  BY LimiterNumbers
  <2>2. advice \in Int /\ zset \in Seq(Int)  BY DEF LimiterInv, LimiterTypeOK
  <2>3. then \in Int /\ start \in Int /\ then <= start  BY <2>1, <2>2
  <2>4. Count(zset, then) < Limit  BY DEF LimiterInv, AdviceFits
  <2>5. Len(R!Within(zset)) = Count(zset, start)
    <3> HIDE DEF then
    <3>1. Len(R!Since(zset, start)) = Count(zset, start)  BY <2>2, <2>3, SinceKeeps
    <3> QED  BY <3>1 DEF R!Within
  <2> HIDE DEF then, start
  <2>6. Count(zset, start) <= Count(zset, then)  BY <2>2, <2>3, CountType
  <2>7. Count(zset, start) \in Int /\ Count(zset, then) \in Int  BY <2>3, LimiterNumbers
  <2> QED  BY <2>1, <2>4, <2>5, <2>6, <2>7
<1> QED  BY <1>1, ServicesInit, LimiterStep, PTL DEF Spec

(* findAll with take and next_cursor: whatever is inserted and commits out  *)
(* of order, and whatever role the client loses meanwhile, the pages give   *)
(* each row it could see from the first on, once and in the order of ids.   *)
THEOREM NoRowIsSkipped == Spec => []ListingIsComplete
<1>1. ListingInv => ListingIsComplete
  BY DEF ListingInv, GotFits, Increasing, Within, ListingIsComplete, L!ListingIsComplete, L!ToSet
<1> QED  BY <1>1, ServicesInit, ListingStep, PTL DEF Spec

(* Wherever gen-jwt-keys.mjs --rotate stops and whenever instances restart  *)
(* in between, a token that has not expired is refused only by an instance  *)
(* that started before its key was there, or because a second --rotate or   *)
(* the removal of the previous pair came before ACCESS_TTL had passed since *)
(* the last instance stopped signing with that key: for any number of       *)
(* instances, rotations and kids, and any lifetime.                         *)
THEOREM TokensOutliveRotation == Spec => []RefusalHasCause
<1>1. KeysInv => RefusalHasCause
  <2> SUFFICES ASSUME KeysInv, NEW i \in Instance, NEW t \in signed,
                      G!Running(i), t.by \notin trusts[i]
               PROVE  G!KeyOf(t.by) > G!KeyOf(signs[i]) \/ G!KeyOf(t.by) \in givenUp
    BY DEF RefusalHasCause, G!RefusalHasCause
  <2>1. t.by \in Signer /\ Alive(t.by) /\ signs[i] \in Signer
    BY DEF KeysInv, KeysTypeOK, Alive, G!Running
  <2>2. TrustedBy(i, t.by)  BY <2>1 DEF KeysInv, SignersFit
  <2>3. G!KeyOf(t.by) \in Nat /\ G!KeyOf(signs[i]) \in Nat  BY <2>1, SignerParts DEF G!Key
  <2> QED  BY <2>2, <2>3 DEF TrustedBy
<1> QED  BY <1>1, ServicesInit, KeysStep, PTL DEF Spec

(* isDenied and the TTLs of deny:jti and deny:fam: after the 204 of a       *)
(* logout, or after a reuse put a family out, nothing that arrives later    *)
(* gets through with a token whose exp is still to come, whatever the       *)
(* lifetime, the resolution of the clock and the number of clients.         *)
THEOREM LogoutHolds == Spec => []LoggedOutIsRefused
<1>1. AP!AInv => LoggedOutIsRefused
  BY AccessAssumption, AP!AccessPromises
  DEF LoggedOutIsRefused, A!LoggedOutIsRefused, AP!LoggedOutIsRefused, A!Expired, AP!Expired,
      A!Second, AP!Second
<1> QED  BY <1>1, GuardsInit, GuardsStep, PTL DEF Spec

(* RolesGuard and assertCanView read the role after the request came, so    *)
(* whoever gets through to an admin route had the role after asking for it. *)
THEOREM DemotionHolds == Spec => []DemotionIsImmediate
<1>1. AP!AInv => DemotionIsImmediate
  BY AccessAssumption, AP!AccessPromises
  DEF DemotionIsImmediate, A!DemotionIsImmediate, AP!DemotionIsImmediate
<1> QED  BY <1>1, GuardsInit, GuardsStep, PTL DEF Spec
=============================================================================

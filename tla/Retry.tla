-------------------------------- MODULE Retry ---------------------------------
(***************************************************************************)
(* withRetry (demo-retry.ts): read-modify-write transactions on one row    *)
(* under REPEATABLE READ, repeated after a serialization failure.  A bump  *)
(* is named by the amount it adds.                                         *)
(***************************************************************************)
EXTENDS Integers, FiniteSets, Functions

CONSTANTS Bump,         \* the amounts added
          MaxAttempts,  \* maxAttempts
          MaxBroken     \* bound: transactions that fail for another reason

VARIABLES balance,   \* balanceCents of the user, from 0
          version,   \* of the row: one more with every commit that changes it
          snapshot,  \* snapshot[b]: the version b's transaction sees
          read,      \* read[b]: the balance it has read
          holder,    \* the bumps whose transaction has locked the row
          attempt,   \* attempt[b]
          turn,      \* turn[b]: "begin", "think", "commit", or how it ended:
                     \* "done", "gaveUp", "broken", "unanswered"
          broken

vars == <<balance, version, snapshot, read, holder, attempt, turn, broken>>

To(b, s) == turn' = [turn EXCEPT ![b] = s]

-----------------------------------------------------------------------------
(* BEGIN and the SELECT, which fixes the snapshot. *)
Select(b) ==
  /\ turn[b] = "begin"
  /\ snapshot' = [snapshot EXCEPT ![b] = version]
  /\ read' = [read EXCEPT ![b] = balance]
  /\ To(b, "think")
  /\ UNCHANGED <<balance, version, holder, attempt, broken>>

(* Mutant: READ COMMITTED, where a newer version is simply overwritten. *)
UpdateAnyVersion(b) ==
  /\ turn[b] = "think" /\ holder = {}
  /\ holder' = {b}
  /\ To(b, "commit")
  /\ UNCHANGED <<balance, version, snapshot, read, attempt, broken>>

(* The UPDATE waits for the lock and finds the version of its snapshot. *)
Update(b) ==
  /\ turn[b] = "think" /\ holder = {}
  /\ version = snapshot[b]
  /\ holder' = {b}
  /\ To(b, "commit")
  /\ UNCHANGED <<balance, version, snapshot, read, attempt, broken>>

(* The UPDATE fails with 40001: another try, after a pause, or the error. *)
SerializationFailure(b) ==
  /\ turn[b] = "think" /\ holder = {}
  /\ version # snapshot[b]
  /\ \/ /\ attempt[b] < MaxAttempts
        /\ attempt' = [attempt EXCEPT ![b] = @ + 1]
        /\ To(b, "begin")
     \/ /\ attempt[b] >= MaxAttempts
        /\ To(b, "gaveUp")
        /\ UNCHANGED attempt
  /\ UNCHANGED <<balance, version, snapshot, read, holder, broken>>

(* COMMIT, whose answer may be lost: the error is then thrown, not retried. *)
Commit(b) ==
  /\ turn[b] = "commit"
  /\ balance' = read[b] + b
  /\ version' = version + 1
  /\ holder' = {}
  /\ \/ To(b, "done") /\ UNCHANGED broken
     \/ To(b, "unanswered") /\ broken < MaxBroken /\ broken' = broken + 1
  /\ UNCHANGED <<snapshot, read, attempt>>

(* Any other error is thrown at once; the transaction rolls back.  *)
Break(b) ==
  /\ broken < MaxBroken
  /\ broken' = broken + 1
  /\ turn[b] \in {"begin", "think", "commit"}
  /\ holder' = holder \ {b}
  /\ To(b, "broken")
  /\ UNCHANGED <<balance, version, snapshot, read, attempt>>

-----------------------------------------------------------------------------
Init ==
  /\ balance = 0 /\ version = 0
  /\ snapshot = [b \in Bump |-> 0]
  /\ read = [b \in Bump |-> 0]
  /\ holder = {}
  /\ attempt = [b \in Bump |-> 1]
  /\ turn = [b \in Bump |-> "begin"]
  /\ broken = 0

Next == \E b \in Bump : \/ Select(b) \/ Update(b) \/ SerializationFailure(b)
                        \/ Commit(b) \/ Break(b)

Spec == Init /\ [][Next]_vars

-----------------------------------------------------------------------------
Applied == {b \in Bump : turn[b] \in {"done", "unanswered"}}

(* The balance is the sum of exactly the committed bumps, each once however *)
(* they overlapped, and a bump gives up only when as many others as it has  *)
(* attempts have committed: each attempt fails because of another's commit. *)
BumpsAddUp ==
  /\ balance = SumFunction([b \in Applied |-> b])
  /\ \A b \in Bump : turn[b] = "gaveUp" => Cardinality(Applied) >= MaxAttempts
=============================================================================

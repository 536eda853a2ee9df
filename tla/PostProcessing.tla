---------------------------- MODULE PostProcessing ----------------------------
(***************************************************************************)
(* Workers that empty the table post_processing_jobs with FOR UPDATE SKIP  *)
(* LOCKED (demo-workers.ts).  Each claims a job in a transaction that      *)
(* stays open while it works, and asks for the number of jobs left when it *)
(* finds none free.                                                        *)
(***************************************************************************)
EXTENDS Integers

CONSTANTS Hand,    \* the concurrent runWorker loops
          JobCount \* JOB_COUNT

PostJob == 1 .. JobCount
NoJob == 0

VARIABLES todo,       \* jobs whose status is 'new'
          processed,  \* processed[j]: the column
          claim,      \* claim[h]: the row h's transaction has locked, or NoJob
          loop        \* loop[h]: "claim", "work", "count", "stopped", "failed"

vars == <<todo, processed, claim, loop>>

Free == todo \ {claim[h] : h \in Hand}
To(h, l) == loop' = [loop EXCEPT ![h] = l]

-----------------------------------------------------------------------------
(* claimOne: the first new job nobody has locked. *)
ClaimOne(h) ==
  /\ loop[h] = "claim"
  /\ Free # {}
  /\ claim' = [claim EXCEPT ![h] = CHOOSE j \in Free : \A k \in Free : j <= k]
  /\ To(h, "work")
  /\ UNCHANGED <<todo, processed>>

(* claimOne: none is free now, which does not mean that none is left.       *)
FindNone(h) ==
  /\ loop[h] = "claim"
  /\ Free = {}
  /\ To(h, "count")
  /\ UNCHANGED <<todo, processed, claim>>

(* UPDATE and COMMIT. *)
Finish(h) ==
  /\ loop[h] = "work"
  /\ todo' = todo \ {claim[h]}
  /\ processed' = [processed EXCEPT ![claim[h]] = @ + 1]
  /\ claim' = [claim EXCEPT ![h] = NoJob]
  /\ To(h, "claim")

(* The transaction fails and rolls back; the loop ends with the error, the  *)
(* other loops go on until the process exits.                               *)
Abort(h) ==
  /\ loop[h] = "work"
  /\ claim' = [claim EXCEPT ![h] = NoJob]
  /\ To(h, "failed")
  /\ UNCHANGED <<todo, processed>>

(* Mutant: nothing free is nothing left. *)
StopAnyway(h) ==
  /\ loop[h] = "count"
  /\ To(h, "stopped")
  /\ UNCHANGED <<todo, processed, claim>>

(* COUNT sees the rows others still have locked. *)
CountLeft(h) ==
  /\ loop[h] = "count"
  /\ To(h, IF todo = {} THEN "stopped" ELSE "claim")
  /\ UNCHANGED <<todo, processed, claim>>

-----------------------------------------------------------------------------
Init ==
  /\ todo = PostJob
  /\ processed = [j \in PostJob |-> 0]
  /\ claim = [h \in Hand |-> NoJob]
  /\ loop = [h \in Hand |-> "claim"]

Next == \E h \in Hand :
          ClaimOne(h) \/ FindNone(h) \/ Finish(h) \/ Abort(h) \/ CountLeft(h)

Spec == Init /\ [][Next]_vars

-----------------------------------------------------------------------------
(* A worker that stops leaves nothing behind, not even a job another worker *)
(* had locked and has given back: all are processed then, each exactly      *)
(* once, and none was processed twice before.                               *)
JobsDoneOnce ==
  /\ \A j \in PostJob : processed[j] <= 1
  /\ (\E h \in Hand : loop[h] = "stopped") => \A j \in PostJob : processed[j] = 1
=============================================================================

--------------------------- MODULE PasswordRotation ---------------------------
(***************************************************************************)
(* Changing the database password under running processes: rotate.sh, the  *)
(* file secrets/db_password, and the pools of the API and of the workers   *)
(* (database/pg-connection-options.ts, database.module.ts, outbox/pool.ts).*)
(* They connect through PgBouncer, whose userlist is changed by hand.      *)
(*                                                                         *)
(* Passwords are numbered in the order they are made.  DATABASE_URL is     *)
(* taken to be the one scripts/with-secrets.sh builds from the file.       *)
(***************************************************************************)
EXTENDS Integers

CONSTANTS Process,      \* processes with a pool
          MaxRotations  \* bound: runs of rotate.sh that get as far as ALTER ROLE

VARIABLES role,      \* the password PostgreSQL accepts
          file,      \* secrets/db_password
          userlist,  \* the password in pgbouncer/userlist.txt
          script,    \* rotate.sh: "idle", "altered", "written"
          pool,      \* pool[p]: the password p's pool was created with
          held,      \* processes with an open connection in the pool
          health,    \* health[p]: answer since the last change, or "unknown"
          behind,    \* the role has changed and the file has not (history)
          early      \* early[p]: p read the file before it changed (history)

vars == <<role, file, userlist, script, pool, held, health, behind, early>>

Unknown == health' = [p \in Process |-> "unknown"]

-----------------------------------------------------------------------------
(* ALTER ROLE ... WITH PASSWORD. *)
Alter ==
  /\ script = "idle" /\ role <= MaxRotations
  /\ role' = role + 1
  /\ script' = "altered"
  /\ behind' = TRUE
  /\ early' = [p \in Process |-> TRUE]
  /\ Unknown
  /\ UNCHANGED <<file, userlist, pool, held>>

(* Mutant: echo straight into the file, which an interruption truncates. *)
ReplaceInPlace ==
  /\ script = "altered"
  /\ file' \in {role, 0}
  /\ script' = "written"
  /\ behind' = FALSE
  /\ Unknown
  /\ UNCHANGED <<role, userlist, pool, held, early>>

(* The new file is moved over the old one. *)
ReplaceFile ==
  /\ script = "altered"
  /\ file' = role
  /\ script' = "written"
  /\ behind' = FALSE
  /\ Unknown
  /\ UNCHANGED <<role, userlist, pool, held, early>>

(* pg_terminate_backend: PgBouncer drops the clients it was serving on the  *)
(* backends, and keeps the idle ones.                                       *)
Terminate ==
  /\ script = "written"
  /\ held' \in SUBSET held
  /\ script' = "idle"
  /\ Unknown
  /\ UNCHANGED <<role, file, userlist, pool, behind, early>>

(* set -e, or a signal: the script ends where it stands. *)
Interrupt ==
  /\ script # "idle"
  /\ script' = "idle"
  /\ UNCHANGED <<role, file, userlist, pool, held, health, behind, early>>

(* The operator brings userlist.txt up to date. *)
SyncUserlist ==
  /\ userlist # role
  /\ userlist' = role
  /\ Unknown
  /\ UNCHANGED <<role, file, script, pool, held, behind, early>>

-----------------------------------------------------------------------------
(* PgBouncer serves p: it kept p's connection, or lets it in.               *)
Admitted(p) == p \in held \/ pool[p] = userlist

(* check, or any other query: on a connection of the pool, or a new one.    *)
(* While userlist lags behind only the open backends are of use.            *)
Check(p) ==
  /\ \/ /\ Admitted(p)
        /\ held' = held \cup {p}
        /\ health' = [health EXCEPT ![p] = "ok"]
     \/ /\ ~Admitted(p) \/ userlist # role
        /\ health' = [health EXCEPT ![p] = "down"]
        /\ UNCHANGED held
  /\ UNCHANGED <<role, file, userlist, script, pool, behind, early>>

(* idleTimeoutMillis closes what the pool does not use. *)
CloseIdle(p) ==
  /\ p \in held
  /\ held' = held \ {p}
  /\ UNCHANGED <<role, file, userlist, script, pool, health, behind, early>>

(* The password a process starts with: with-secrets.sh reads the file into  *)
(* DB_PASSWORD, which the workers use, and into the DATABASE_URL of the API. *)
AtStart == file

(* A process starts again, and its pool is created with a fixed password.   *)
RestartProcess(p) ==
  /\ pool' = [pool EXCEPT ![p] = AtStart]
  /\ held' = held \ {p}
  /\ health' = [health EXCEPT ![p] = "unknown"]
  /\ early' = [early EXCEPT ![p] = behind]
  /\ UNCHANGED <<role, file, userlist, script, behind>>

-----------------------------------------------------------------------------
Init ==
  /\ role = 1 /\ file = 1 /\ userlist = 1
  /\ script = "idle"
  /\ pool = [p \in Process |-> 1]
  /\ held = {}
  /\ health = [p \in Process |-> "unknown"]
  /\ behind = FALSE
  /\ early = [p \in Process |-> FALSE]

Next ==
  \/ Alter \/ ReplaceFile \/ Terminate \/ Interrupt \/ SyncUserlist
  \/ \E p \in Process : Check(p) \/ CloseIdle(p) \/ RestartProcess(p)

Spec == Init /\ [][Next]_vars

-----------------------------------------------------------------------------
(* Nothing is under way, and every place has the password of the role. *)
Settled == script = "idle" /\ file = role /\ userlist = role

(* A restart cures: once PgBouncer is brought up to date only a process     *)
(* that started before the file had the new password is still refused,      *)
(* wherever the script was interrupted.                                     *)
RestartCures ==
  \A p \in Process :
    health[p] = "down" /\ script = "idle" /\ userlist = role => early[p]

(* README.md:98: the password can be changed without a restart, because the *)
(* pool reads the file again for every new connection.                      *)
RotationNeedsNoRestart ==
  Settled => \A p \in Process : health[p] # "down"
=============================================================================

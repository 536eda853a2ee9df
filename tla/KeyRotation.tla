----------------------------- MODULE KeyRotation -----------------------------
(***************************************************************************)
(* The rotation of the keys that sign access tokens: the files of the      *)
(* secret store, the script that replaces them one by one                  *)
(* (scripts/gen-jwt-keys.mjs --rotate), what a starting instance reads     *)
(* (scripts/with-secrets.sh, config/auth-env.ts, auth/key-store.ts) and    *)
(* the tokens it signs and verifies from then on (auth/token.service.ts).  *)
(*                                                                         *)
(* A key pair is a number, counted as the pairs are generated, and a token *)
(* carries the kid its signer knew the key by: a kid is the date, and a    *)
(* later key of the same day may get the kid of an earlier one.  Instances *)
(* are replaced one at a time, in any order and at any moment, also while  *)
(* the script runs or after it was killed; nothing makes the operator wait *)
(* before the script is run again or the previous key is removed.  A file  *)
(* is written as a whole.  --force, meant to void all tokens, is left out. *)
(***************************************************************************)
EXTENDS Integers, FiniteSets

CONSTANTS Instance,       \* the processes of the API
          Kid, NoKid,     \* what the script may call a key
          MaxKey,         \* bound: key pairs
          PerSecond,      \* ticks of the clock per second
          AccessTtl,      \* ACCESS_TTL_SEC
          LastTick        \* bound: the clock

NoKey == 0
Key == 1 .. MaxKey
Nothing == <<NoKid, NoKey>>

VARIABLES now,
          private, public, kid,           \* private.pem, public.pem, kid
          previousPublic, previousKid,    \* previous_public.pem, previous_kid
          newest,         \* the last pair generated
          step,           \* the file the script writes next, or "idle"
          signs,          \* signs[i]: kid and key i signs with, or Nothing: it is down
          trusts,         \* trusts[i]: the kids and keys i verifies with
          signed,         \* the tokens that have not expired: by whom, until when
          usedUntil,      \* usedUntil[k]: when an instance last stopped signing with k
          givenUp         \* keys taken out of the store too early (history)

store == <<private, public, kid, previousPublic, previousKid>>
vars == <<now, store, newest, step, signs, trusts, signed, usedUntil, givenUp>>

Second == now \div PerSecond
Running(i) == signs[i] # Nothing
KeyOf(p) == p[2]

(* ACCESS_TTL has passed since the last instance stopped signing with k. *)
OutOfUse(k) ==
  /\ \A i \in Instance : KeyOf(signs[i]) # k
  /\ now >= usedUntil[k] + AccessTtl * PerSecond

(* The key of the previous slot leaves the store: too early, if its tokens  *)
(* may still be valid.  After a killed script it may be the current key.    *)
GiveUp(k) == IF k \in {NoKey, public} \/ OutOfUse(k) THEN {} ELSE {k}

-----------------------------------------------------------------------------
(* Mutant: the current key is not kept. *)
StartWithoutOverlap ==
  /\ step = "idle" /\ newest < MaxKey
  /\ step' = "private"
  /\ UNCHANGED <<now, store, newest, signs, trusts, signed, usedUntil, givenUp>>

(* --rotate: public.pem is copied over previous_public.pem, whatever was in *)
(* it.  The script after a killed one finds the files as that one left them.*)
StartRotate ==
  /\ step = "idle" /\ newest < MaxKey
  /\ step' = "previous_kid"
  /\ previousPublic' = public
  /\ givenUp' = givenUp \union GiveUp(previousPublic)
  /\ UNCHANGED <<now, private, public, kid, previousKid, newest, signs, trusts,
                 signed, usedUntil>>

WritePreviousKid ==
  /\ step = "previous_kid"
  /\ step' = "private"
  /\ previousKid' = kid
  /\ UNCHANGED <<now, private, public, kid, previousPublic, newest, signs,
                 trusts, signed, usedUntil, givenUp>>

WritePrivate ==
  /\ step = "private"
  /\ step' = "public"
  /\ newest' = newest + 1
  /\ private' = newest + 1
  /\ UNCHANGED <<now, public, kid, previousPublic, previousKid, signs, trusts,
                 signed, usedUntil, givenUp>>

WritePublic ==
  /\ step = "public"
  /\ step' = "kid"
  /\ public' = private
  /\ UNCHANGED <<now, private, kid, previousPublic, previousKid, newest, signs,
                 trusts, signed, usedUntil, givenUp>>

(* The new kid differs from the one the script found, not from older ones. *)
WriteKid ==
  /\ step = "kid"
  /\ step' = "idle"
  /\ kid' \in Kid \ {kid}
  /\ UNCHANGED <<now, private, public, previousPublic, previousKid, newest,
                 signs, trusts, signed, usedUntil, givenUp>>

(* The script is killed between two files. *)
Die ==
  /\ step # "idle"
  /\ step' = "idle"
  /\ UNCHANGED <<now, store, newest, signs, trusts, signed, usedUntil, givenUp>>

(* The operator removes previous_public.pem and previous_kid. *)
DropPrevious ==
  /\ step = "idle" /\ previousPublic # NoKey
  /\ previousPublic' = NoKey
  /\ previousKid' = NoKid
  /\ givenUp' = givenUp \union GiveUp(previousPublic)
  /\ UNCHANGED <<now, private, public, kid, newest, step, signs, trusts, signed,
                 usedUntil>>

-----------------------------------------------------------------------------
(* with-secrets.sh exports the previous pair only when both files are there.*)
Previous ==
  IF previousPublic # NoKey /\ previousKid # NoKid
  THEN {<<previousKid, previousPublic>>} ELSE {}

(* validateAuthEnv: the files belong together and the kids differ. *)
StoreIsValid ==
  /\ private = public
  /\ \A p \in Previous : p[1] # kid

(* Instance i stops, and starts from the files as they are, or not at all. *)
Redeploy(i) ==
  /\ signs' = [signs EXCEPT ![i] = IF StoreIsValid THEN <<kid, private>> ELSE Nothing]
  /\ trusts' = [trusts EXCEPT ![i] =
                  IF StoreIsValid THEN {<<kid, public>>} \union Previous ELSE {}]
  /\ usedUntil' = [k \in Key |-> IF k = KeyOf(signs[i]) THEN now ELSE usedUntil[k]]
  /\ UNCHANGED <<now, store, newest, step, signed, givenUp>>

(* signAccess, for a login or a refresh. *)
Sign(i) ==
  /\ Running(i)
  /\ signed' = signed \union {[by |-> signs[i], exp |-> Second + AccessTtl]}
  /\ UNCHANGED <<now, store, newest, step, signs, trusts, usedUntil, givenUp>>

(* Time passes; jsonwebtoken compares exp in whole seconds. *)
Tick ==
  /\ now < LastTick
  /\ now' = now + 1
  /\ signed' = {t \in signed : (now + 1) \div PerSecond < t.exp}
  /\ UNCHANGED <<store, newest, step, signs, trusts, usedUntil, givenUp>>

-----------------------------------------------------------------------------
Init ==
  /\ now = 0
  /\ private = 1 /\ public = 1 /\ newest = 1
  /\ kid = CHOOSE n \in Kid : TRUE
  /\ previousPublic = NoKey /\ previousKid = NoKid
  /\ step = "idle"
  /\ signs = [i \in Instance |-> <<kid, 1>>]
  /\ trusts = [i \in Instance |-> {<<kid, 1>>}]
  /\ signed = {}
  /\ usedUntil = [k \in Key |-> 0]
  /\ givenUp = {}

Next ==
  \/ StartRotate \/ WritePreviousKid \/ WritePrivate \/ WritePublic \/ WriteKid
  \/ Die \/ DropPrevious \/ Tick
  \/ \E i \in Instance : Redeploy(i) \/ Sign(i)

Spec == Init /\ [][Next]_vars

-----------------------------------------------------------------------------
(* Wherever the script stops and in whatever order the instances restart,   *)
(* an instance refuses a token that has not expired for two reasons only:   *)
(* the key is newer than the instance (the window README.md:986 accepts), or*)
(* the previous slot lost it, to an operator who did not wait ACCESS_TTL or *)
(* to a second --rotate, before its tokens were over.                       *)
RefusalHasCause ==
  \A i \in Instance, t \in signed :
    Running(i) /\ t.by \notin trusts[i] =>
      KeyOf(t.by) > KeyOf(signs[i]) \/ KeyOf(t.by) \in givenUp
=============================================================================

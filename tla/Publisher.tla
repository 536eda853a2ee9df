------------------------------ MODULE Publisher -------------------------------
(***************************************************************************)
(* EventPublisher (messaging/publisher.ts): the confirm channel that every *)
(* publish of a process shares, opened on demand and forgotten when it or  *)
(* its connection closes.                                                  *)
(*                                                                         *)
(* Each call of openChannel is an attempt with a connection of its own.    *)
(* The handlers it installs clear the fields of the publisher whichever    *)
(* attempt these hold by then, so a late close also drops a good channel.  *)
(***************************************************************************)
EXTENDS Integers

CONSTANTS Caller,    \* callers of publish, each with its own event: the relay of the
                     \* process, and another one, which the shared promise allows
          MaxFaults  \* bound: failures of the broker and calls of close

(* A fault clears channelPromise at most three times: this many are enough. *)
Attempt == 1 .. 1 + 3 * MaxFaults
NoAttempt == 0

VARIABLES phase,     \* phase[a]: "new", "connecting", "channel", "checking",
                     \* "closing", "rejecting", "ready", "ending", "over"
          link,      \* attempts whose connection is open
          channel,   \* channelPromise, as its attempt
          current,   \* conn, as its attempt
          pub,       \* pub[p]: "idle", "opening", "confirm", "done"
          uses,      \* uses[p]: the attempt whose channel p awaits or uses
          returned,  \* the set of that name
          faults

vars == <<phase, link, channel, current, pub, uses, returned, faults>>

Phase(a, from, to) == phase[a] \in from /\ phase' = [phase EXCEPT ![a] = to]
Caused == faults < MaxFaults /\ faults' = faults + 1
Publishing(p, s) == pub' = [pub EXCEPT ![p] = s]

-----------------------------------------------------------------------------
(* Mutant: only the connection is forgotten. *)
ResetConnection == current' = NoAttempt /\ UNCHANGED channel

(* reset, the handler of 'close' on the connection and on the channel. *)
Reset == current' = NoAttempt /\ channel' = NoAttempt

(* getChannel: the channel there is, or a new attempt. *)
GetChannel(p) ==
  /\ pub[p] \in {"idle", "done"}
  /\ \/ /\ channel # NoAttempt
        /\ uses' = [uses EXCEPT ![p] = channel]
        /\ UNCHANGED <<phase, channel>>
     \/ /\ channel = NoAttempt
        /\ \E a \in Attempt :
             /\ \A b \in Attempt : phase[b] = "new" <=> b >= a
             /\ Phase(a, {"new"}, "connecting")
             /\ channel' = a
             /\ uses' = [uses EXCEPT ![p] = a]
  /\ Publishing(p, "opening")
  /\ UNCHANGED <<link, current, returned, faults>>

(* openChannel: connect and createConfirmChannel succeed. *)
Open(a) ==
  /\ \/ Phase(a, {"connecting"}, "channel") /\ link' = link \cup {a}
     \/ Phase(a, {"channel"}, "checking") /\ UNCHANGED link
  /\ UNCHANGED <<channel, current, pub, uses, returned, faults>>

(* checkExchange finds the exchange. *)
Ready(a) ==
  /\ Phase(a, {"checking"}, "ready")
  /\ current' = a
  /\ UNCHANGED <<link, channel, pub, uses, returned, faults>>

(* connect or createConfirmChannel is refused, the latter leaving the       *)
(* connection open.                                                         *)
Refused(a) ==
  /\ Caused
  /\ Phase(a, {"connecting", "channel"}, "rejecting")
  /\ UNCHANGED <<link, channel, current, pub, uses, returned>>

(* No such exchange: the broker closes the channel, the code the connection. *)
CheckFails(a) ==
  /\ Caused
  /\ Phase(a, {"checking"}, "closing")
  /\ Reset
  /\ UNCHANGED <<link, pub, uses, returned>>

(* conn.close() is through: its handler runs. *)
Closed(a) ==
  /\ Phase(a, {"closing"}, "rejecting") \/ Phase(a, {"ending"}, "over")
  /\ link' = link \ {a}
  /\ Reset
  /\ UNCHANGED <<pub, uses, returned, faults>>

(* The catch of getChannel. *)
Rejected(a) ==
  /\ Phase(a, {"rejecting"}, "over")
  /\ channel' = NoAttempt
  /\ UNCHANGED <<link, current, pub, uses, returned, faults>>

(* A connection is lost, one that nothing uses any more included. *)
LinkLost(a) ==
  /\ Caused
  /\ a \in link
  /\ link' = link \ {a}
  /\ \/ Phase(a, {"channel", "checking"}, "rejecting")
     \/ Phase(a, {"ready", "over"}, "over")
  /\ Reset
  /\ UNCHANGED <<pub, uses, returned>>

(* The broker closes the channel; nobody closes its connection. *)
ChannelLost(a) ==
  /\ Caused
  /\ Phase(a, {"ready"}, "over")
  /\ Reset
  /\ UNCHANGED <<link, pub, uses, returned>>

(* close: both fields are cleared before the connection is closed; an       *)
(* attempt still under way is not stopped.                                  *)
Close ==
  /\ Caused
  /\ channel # NoAttempt \/ current # NoAttempt
  /\ current' = NoAttempt /\ channel' = NoAttempt
  /\ phase' = [a \in Attempt |-> IF a = current THEN "ending" ELSE phase[a]]
  /\ UNCHANGED <<link, pub, uses, returned>>

-----------------------------------------------------------------------------
(* ch.publish. *)
Send(p) ==
  /\ pub[p] = "opening" /\ phase[uses[p]] = "ready"
  /\ Publishing(p, "confirm")
  /\ UNCHANGED <<phase, link, channel, current, uses, returned, faults>>

(* No queue takes the message: basic.return, before the confirm. *)
Return(p) ==
  /\ Caused
  /\ pub[p] = "confirm" /\ phase[uses[p]] = "ready"
  /\ returned' = returned \cup {p}
  /\ UNCHANGED <<phase, link, channel, current, pub, uses>>

(* waitForConfirms resolves; a returned message makes publish fail.         *)
Confirm(p) ==
  /\ pub[p] = "confirm" /\ phase[uses[p]] = "ready"
  /\ Publishing(p, IF p \in returned THEN "idle" ELSE "done")
  /\ returned' = returned \ {p}
  /\ UNCHANGED <<phase, link, channel, current, uses, faults>>

(* The broker refuses the message. *)
Nack(p) ==
  /\ Caused
  /\ pub[p] = "confirm" /\ phase[uses[p]] = "ready"
  /\ Publishing(p, "idle")
  /\ UNCHANGED <<phase, link, channel, current, uses, returned>>

(* The channel was not opened, or was closed before the confirm: publish    *)
(* fails, and an entry in returned stays.                                   *)
Fails(p) ==
  /\ \/ pub[p] = "opening" /\ phase[uses[p]] \in {"ending", "over"}
     \/ pub[p] = "confirm" /\ phase[uses[p]] = "over"
  /\ Publishing(p, "idle")
  /\ UNCHANGED <<phase, link, channel, current, uses, returned, faults>>

-----------------------------------------------------------------------------
Init ==
  /\ phase = [a \in Attempt |-> "new"]
  /\ link = {}
  /\ channel = NoAttempt /\ current = NoAttempt
  /\ pub = [p \in Caller |-> "idle"]
  /\ uses = [p \in Caller |-> NoAttempt]
  /\ returned = {}
  /\ faults = 0

(* What goes on by itself: the relay publishes again at every tick, and      *)
(* amqplib settles every call of it with an answer or with an error.         *)
Proceed(p) == Send(p) \/ Confirm(p) \/ Fails(p)
Advance(a) == Open(a) \/ Ready(a) \/ Closed(a) \/ Rejected(a)
AdvanceAny == \E a \in Attempt : Advance(a)

Next ==
  \/ \E p \in Caller : GetChannel(p) \/ Proceed(p) \/ Return(p) \/ Nack(p)
  \/ AdvanceAny
  \/ \E a \in Attempt : \/ Refused(a) \/ CheckFails(a)
                        \/ LinkLost(a) \/ ChannelLost(a)
  \/ Close

Spec == Init /\ [][Next]_vars

-----------------------------------------------------------------------------
(* A publish has just returned without an error. *)
Published == \E p \in Caller : pub[p] = "done"
=============================================================================

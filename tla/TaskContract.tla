---------------------------- MODULE TaskContract ----------------------------
(***************************************************************************)
(* What durable delivery promises to the code that enqueues a task and to  *)
(* the handler that performs it, with no outbox, broker, lease or process. *)
(*                                                                         *)
(* Every resource is worked on in turns.  A turn belongs to one message    *)
(* and makes any number of commits; the acknowledging commit closes it     *)
(* and is the message's last.  Once a later turn has committed, an earlier *)
(* one never commits again.  A message may be parked for an operator at    *)
(* any moment, which neither adds nor removes an effect.                   *)
(***************************************************************************)
EXTENDS Naturals

CONSTANTS Msg, Resource, ResourceOf, None

VARIABLES
    requested,  \* messages whose enqueueing transaction committed
    parked,     \* messages in the dead-letter journal
    applied,    \* acknowledging commits per message
    turn        \* per resource, the turn that committed last

contractVars == <<requested, parked, applied, turn>>

Init ==
    /\ requested = {}
    /\ parked = {}
    /\ applied = [m \in Msg |-> 0]
    /\ turn = [r \in Resource |->
                  [epoch |-> 0, message |-> None, closed |-> TRUE]]

Request(m) ==
    /\ m \notin requested
    /\ requested' = requested \cup {m}
    /\ UNCHANGED <<parked, applied, turn>>

(* A commit of message m opens a new turn or continues its own open turn. *)
TakesTurn(m) ==
    LET r == ResourceOf[m] IN
    /\ turn'[r].message = m
    /\ \/ turn'[r].epoch > turn[r].epoch
       \/ /\ turn'[r].epoch = turn[r].epoch
          /\ turn[r].message = m
          /\ ~turn[r].closed
    /\ turn' = [turn EXCEPT ![r] = turn'[r]]

(* Intermediate progress of a message that is not acknowledged yet. *)
Progress(m) ==
    /\ m \in requested
    /\ applied[m] = 0
    /\ TakesTurn(m)
    /\ ~turn'[ResourceOf[m]].closed
    /\ UNCHANGED <<requested, parked, applied>>

(* The acknowledging commit. *)
Apply(m) ==
    /\ m \in requested
    /\ applied[m] = 0
    /\ TakesTurn(m)
    /\ turn'[ResourceOf[m]].closed
    /\ applied' = [applied EXCEPT ![m] = 1]
    /\ UNCHANGED <<requested, parked>>

(* The journal gains messages, or an operator takes one out. *)
Park(ms) ==
    /\ ms \subseteq requested \ parked
    /\ parked' = parked \cup ms
    /\ UNCHANGED <<requested, applied, turn>>

Unpark(m) ==
    /\ m \in parked
    /\ parked' = parked \ {m}
    /\ UNCHANGED <<requested, applied, turn>>

Next ==
    \/ \E m \in Msg : Request(m) \/ Progress(m) \/ Apply(m) \/ Unpark(m)
    \/ \E ms \in SUBSET Msg : Park(ms)

Spec == Init /\ [][Next]_contractVars
=============================================================================

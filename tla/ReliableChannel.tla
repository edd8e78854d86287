---------------------------- MODULE ReliableChannel ----------------------------
(***************************************************************************)
(* What a caller of SendMsg and RecvMsg counts on (proto/udp/udp.go): a    *)
(* message is handed to the other end at most once and unchanged, a call   *)
(* that returns without an error has handed its message over before, and a *)
(* call may fail at any time without saying whether its message arrived.   *)
(***************************************************************************)
EXTENDS Sequences, Naturals

CONSTANT Messages

VARIABLES
  call,       \* how far each SendMsg call is
  delivered   \* the messages the other end has received, in order

Arrived(m) == \E i \in DOMAIN delivered : delivered[i] = m

Start == call = [m \in Messages |-> "new"] /\ delivered = <<>>

Submit(m) ==
  /\ call[m] = "new"
  /\ call' = [call EXCEPT ![m] = "sending"]
  /\ UNCHANGED delivered

\* The message may also arrive after its call has failed.
Deliver(m) ==
  /\ call[m] # "new" /\ ~Arrived(m)
  /\ delivered' = Append(delivered, m)
  /\ UNCHANGED call

Succeed(m) ==
  /\ call[m] = "sending" /\ Arrived(m)
  /\ call' = [call EXCEPT ![m] = "ok"]
  /\ UNCHANGED delivered

Fail(m) ==
  /\ call[m] = "sending"
  /\ call' = [call EXCEPT ![m] = "failed"]
  /\ UNCHANGED delivered

\* Most steps of the code change nothing of this.
Step ==
  \/ UNCHANGED <<call, delivered>>
  \/ \E m \in Messages : Submit(m) \/ Deliver(m) \/ Succeed(m) \/ Fail(m)

Channel == Start /\ [][Step]_<<call, delivered>>
===============================================================================

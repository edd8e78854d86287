----------------------------- MODULE TunnelPairing -----------------------------
(***************************************************************************)
(* What a caller of OpenTunnel counts on (link/request.go): the other end  *)
(* does what it asks for at most once; a tunnel gets an id that no other   *)
(* tunnel of the link has, at either end, and it is at this end only while *)
(* the other end has it under the same id; when the call returns nil both  *)
(* have it, and when it returns an error this end has not, without saying  *)
(* what the other end has.                                                 *)
(***************************************************************************)
CONSTANTS Calls, IDs

VARIABLES
  call,     \* how far each call is
  asked,    \* the other end has done what the call asks for
  near,     \* the ids its tunnel has at the end of the call
  far       \* and at the other end

Start ==
  /\ call = [k \in Calls |-> "new"] /\ asked = [k \in Calls |-> FALSE]
  /\ near = [k \in Calls |-> {}] /\ far = [k \in Calls |-> {}]

Taken == UNION {near[k] \cup far[k] : k \in Calls}

Begin(k) ==
  /\ call[k] = "new"
  /\ call' = [call EXCEPT ![k] = "opening"]
  /\ UNCHANGED <<asked, near, far>>

\* The other end may also do it after the call has failed.
Create(k, i) ==
  /\ call[k] # "new" /\ ~asked[k] /\ i \notin Taken
  /\ asked' = [asked EXCEPT ![k] = TRUE]
  /\ far' = [far EXCEPT ![k] = {i}]
  /\ UNCHANGED <<call, near>>

\* The other end cannot listen, before this end has heard of the tunnel.
Withdraw(k) ==
  /\ call[k] # "opened" /\ near[k] = {}
  /\ far' = [far EXCEPT ![k] = {}]
  /\ UNCHANGED <<call, asked, near>>

Enter(k) ==
  /\ call[k] = "opening" /\ near[k] = {} /\ far[k] # {}
  /\ near' = [near EXCEPT ![k] = far[k]]
  /\ UNCHANGED <<call, asked, far>>

Open(k) ==
  /\ call[k] = "opening" /\ near[k] = far[k] /\ far[k] # {}
  /\ call' = [call EXCEPT ![k] = "opened"]
  /\ UNCHANGED <<asked, near, far>>

Fail(k) ==
  /\ call[k] = "opening"
  /\ call' = [call EXCEPT ![k] = "failed"]
  /\ near' = [near EXCEPT ![k] = {}]
  /\ UNCHANGED <<asked, far>>

\* Most steps of the code change nothing of this.
Step ==
  \/ UNCHANGED <<call, asked, near, far>>
  \/ \E k \in Calls : \/ Begin(k) \/ Withdraw(k) \/ Enter(k) \/ Open(k) \/ Fail(k)
                      \/ \E i \in IDs : Create(k, i)

Pairing == Start /\ [][Step]_<<call, asked, near, far>>
===============================================================================

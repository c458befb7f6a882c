---------------------------- MODULE RetainedReply ----------------------------
(***************************************************************************)
(* What one request to the FujiNet promises, without saying how it is      *)
(* polled for: the device holds at most one transaction, carries a request *)
(* out at most once, keeps the reply until it is collected, and a reply is *)
(* only ever given to the request it answers.  The requester may stop      *)
(* waiting at any time; it may send again only when the device holds       *)
(* nothing.  ResidentWire shows that the W/P/R code keeps this promise and *)
(* ResidentStream is built on it.                                          *)
(***************************************************************************)
EXTENDS Naturals

CONSTANT Requests   \* the names of the requests; each is sent once
CONSTANT NoRequest  \* none of them

VARIABLES
  waiting,   \* the request the caller waits for, or NoRequest
  held,      \* the transaction the device holds
  unsent,    \* requests never sent so far
  carried,   \* requests carried out by the device
  answered   \* pairs <<request, reply>> of answers handed to the caller

vars == <<waiting, held, unsent, carried, answered>>

Idle == [state |-> "idle", request |-> NoRequest]
Held(state, r) == [state |-> state, request |-> r]

TypeOK ==
  /\ waiting \in Requests \cup {NoRequest}
  /\ held \in {Idle} \cup {Held(s, r) : s \in {"busy", "ready"}, r \in Requests}
  /\ unsent \subseteq Requests
  /\ carried \subseteq Requests
  /\ answered \subseteq Requests \X Requests

Init ==
  /\ waiting = NoRequest
  /\ held = Idle
  /\ unsent = Requests
  /\ carried = {}
  /\ answered = {}

(* The reply leaves the device although nobody is given it.                *)
MayDrop == held' = held \/ (held.state = "ready" /\ held' = Idle)

(* A request that was prepared is given up before it was ever sent.        *)
Abandon(r) ==
  /\ waiting = NoRequest
  /\ r \in unsent
  /\ unsent' = unsent \ {r}
  /\ MayDrop
  /\ UNCHANGED <<waiting, carried, answered>>

(* A fresh request leaves; it may be lost, or arrive while the sender      *)
(* already believes it lost.                                               *)
Send(r) ==
  /\ waiting = NoRequest /\ held = Idle
  /\ r \in unsent
  /\ unsent' = unsent \ {r}
  /\ \/ held' = Idle /\ waiting' = NoRequest
     \/ held' = Held("busy", r) /\ waiting' \in {r, NoRequest}
  /\ UNCHANGED <<carried, answered>>

Carry(r) ==
  /\ held = Held("busy", r) /\ r \notin carried
  /\ held' = Held("ready", r)
  /\ carried' = carried \cup {r}
  /\ UNCHANGED <<waiting, unsent, answered>>

Answer(r) ==
  /\ waiting = r /\ held = Held("ready", r)
  /\ held' = Idle /\ waiting' = NoRequest
  /\ answered' = answered \cup {<<r, r>>}
  /\ UNCHANGED <<unsent, carried>>

(* The caller stops waiting; the reply may have left the device.           *)
GiveUp ==
  /\ waiting # NoRequest
  /\ waiting' = NoRequest
  /\ MayDrop
  /\ UNCHANGED <<unsent, carried, answered>>

(* Nobody waits any more and the late reply is collected and dropped.      *)
Discard ==
  /\ waiting = NoRequest /\ held.state = "ready"
  /\ held' = Idle
  /\ UNCHANGED <<waiting, unsent, carried, answered>>

(* The device restarts and forgets what it holds.                          *)
Forget ==
  /\ held' = Idle
  /\ UNCHANGED <<waiting, unsent, carried, answered>>

Next ==
  \/ \E r \in Requests : Abandon(r) \/ Send(r) \/ Carry(r) \/ Answer(r)
  \/ GiveUp \/ Discard \/ Forget

Spec == Init /\ [][Next]_vars

=============================================================================

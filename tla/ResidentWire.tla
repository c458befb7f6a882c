----------------------------- MODULE ResidentWire -----------------------------
(***************************************************************************)
(* The bounded W/P/R wire transaction of the resident N: handler:          *)
(* begin_packet, exchange and receive of fnresident_asm.s, one action per  *)
(* SIO command.  W hands the request over, P polls for its state, R        *)
(* collects the reply and retires it.  `outstanding` is the resident's     *)
(* only memory of a transaction the FujiNet may still hold; every other    *)
(* request must drain it first and W is never repeated.                    *)
(*                                                                         *)
(* The FujiNet side is external: it takes a W, carries it out some time    *)
(* later, retains the reply until an R, and may restart.  Every SIO        *)
(* command can fail before it reaches the device or after it took effect.  *)
(***************************************************************************)
EXTENDS Naturals

CONSTANTS
  MaxRequests,   \* bound: requests sent in a behaviour
  MaxPolls,      \* P commands per receive (60 in the code)
  MaxResets      \* bound: restarts of the FujiNet

ASSUME WireAssumption ==
  /\ MaxRequests \in Nat
  /\ MaxPolls \in Nat \ {0}
  /\ MaxResets \in Nat

VARIABLES
  outstanding,   \* the resident's flag: a transaction may be at the device
  pc,            \* next SIO command: "rest" between exchanges, "W", "P", "R"
  recovering,    \* receive was called by begin_packet, not by exchange
  polls,         \* P commands left in this receive
  request,       \* number of the request being prepared or exchanged
  verdict,       \* how the last exchange ended
  device,        \* the FujiNet's transaction
  resets,        \* restarts so far
  executed,      \* history: how often each request was carried out
  answered       \* history: <<request, request whose reply it was given>>

resident == <<outstanding, pc, recovering, polls, request, verdict>>
vars == <<resident, device, resets, executed, answered>>

RequestIds == 1..MaxRequests
NoRequest == 0

(* The length announced by P: 0; 1..5; 6..160; 161..512; above 512.        *)
ReplyLengths == {"none", "short", "good", "long", "huge"}
CanRetire(length) == length \notin {"none", "huge"}
CanBeValid(length) == length = "good"

Idle == [state |-> "idle", request |-> NoRequest, length |-> "none"]
Busy(r) == [state |-> "busy", request |-> r, length |-> "none"]

DeviceRecord == [state : {"idle", "busy", "ready"},
                 request : RequestIds \cup {NoRequest}, length : ReplyLengths]

TypeOK ==
  /\ outstanding \in BOOLEAN
  /\ pc \in {"rest", "W", "P", "R"}
  /\ recovering \in BOOLEAN
  /\ polls \in 0..MaxPolls
  /\ request \in 0..MaxRequests
  /\ verdict \in {"none", "reply", "failed"}
  /\ device \in DeviceRecord
  /\ resets \in 0..MaxResets
  /\ executed \in [RequestIds -> Nat]
  /\ answered \subseteq RequestIds \X RequestIds

Init ==
  /\ outstanding = FALSE
  /\ pc = "rest" /\ recovering = FALSE /\ polls = 0
  /\ request = 0 /\ verdict = "none"
  /\ device = Idle /\ resets = 0
  /\ executed = [r \in RequestIds |-> 0]
  /\ answered = {}

-----------------------------------------------------------------------------
(* Goto and Finish end a step inside an exchange; Finish returns from it.  *)
Goto(command) == pc' = command /\ verdict' = verdict
Finish(result) == pc' = "rest" /\ verdict' = result

MustDrainNever == FALSE
MustDrain == outstanding

(* begin_packet: drain what may be outstanding before the next W.          *)
BeginPacket ==
  /\ pc = "rest" /\ request < MaxRequests
  /\ request' = request + 1
  /\ recovering' = MustDrain
  /\ pc' = IF MustDrain THEN "P" ELSE "W"
  /\ polls' = MaxPolls
  /\ verdict' = "none"
  /\ UNCHANGED <<outstanding, device, resets, executed, answered>>

AfterFailedWRetried == Goto("W")
AfterFailedW == Finish("failed")

(* exchange up to its W.  The flag is set before the command is tried: the *)
(* W may be lost, or arrive and only its completion be lost.  A device     *)
(* that still held a transaction could also acknowledge and ignore it.     *)
AfterW == {Busy(request)} \cup (IF device.state = "idle" THEN {} ELSE {device})

SendW ==
  /\ pc = "W"
  /\ outstanding' = TRUE
  /\ recovering' = FALSE
  /\ polls' = MaxPolls
  /\ \/ device' = device /\ AfterFailedW
     \/ device' \in AfterW /\ (AfterFailedW \/ Goto("P"))
  /\ UNCHANGED <<request, resets, executed, answered>>

PollForever ==
  pc = "P" /\ UNCHANGED vars
PollPastZero ==
  /\ pc = "P"
  /\ polls' = polls - 1
  /\ IF polls = 0 THEN Finish("failed") ELSE Goto("P")
  /\ UNCHANGED <<outstanding, recovering, request, device, resets, executed, answered>>

(* P failed, or its status is neither idle nor ready: count it and retry.  *)
PollAgain ==
  /\ pc = "P"
  /\ polls' = polls - 1
  /\ IF polls' = 0 THEN Finish("failed") ELSE Goto("P")
  /\ UNCHANGED <<outstanding, recovering, request, device, resets, executed, answered>>

(* P says idle: nothing is outstanding.  Recovery may go on to its W; an   *)
(* exchange that waits for a reply has lost it.                            *)
PollIdle ==
  /\ pc = "P" /\ device.state = "idle"
  /\ outstanding' = FALSE
  /\ IF recovering THEN Goto("W") ELSE Finish("failed")
  /\ UNCHANGED <<recovering, polls, request, device, resets, executed, answered>>

(* P says ready: an empty or oversized reply cannot be collected.          *)
PollReady ==
  /\ pc = "P" /\ device.state = "ready"
  /\ IF CanRetire(device.length) THEN Goto("R") ELSE Finish("failed")
  /\ UNCHANGED <<outstanding, recovering, polls, request, device, resets,
                 executed, answered>>

(* R completes: the device drops the reply.  Recovery throws it away; an   *)
(* exchange validates it (length, command, checksum, descriptors, status). *)
ReadReply ==
  /\ pc = "R" /\ device.state = "ready"
  /\ device' = Idle
  /\ outstanding' = FALSE
  /\ \/ recovering /\ Goto("W") /\ UNCHANGED answered
     \/ /\ ~recovering /\ CanBeValid(device.length)
        /\ Finish("reply")
        /\ answered' = answered \cup {<<request, device.request>>}
     \/ ~recovering /\ Finish("failed") /\ UNCHANGED answered
  /\ UNCHANGED <<recovering, polls, request, resets, executed>>

ReadFailsForgotten ==
  /\ pc = "R"
  /\ device' \in {device, Idle}
  /\ outstanding' = FALSE
  /\ Finish("failed")
  /\ UNCHANGED <<recovering, polls, request, resets, executed, answered>>

(* R fails, before or after the device dropped the reply.                  *)
ReadFails ==
  /\ pc = "R"
  /\ device' \in {device, Idle}
  /\ Finish("failed")
  /\ UNCHANGED <<outstanding, recovering, polls, request, resets, executed, answered>>

-----------------------------------------------------------------------------
DeviceExecutes ==
  /\ device.state = "busy"
  /\ \E length \in ReplyLengths :
       device' = [state |-> "ready", request |-> device.request, length |-> length]
  /\ executed' = [executed EXCEPT ![device.request] = @ + 1]
  /\ UNCHANGED <<resident, resets, answered>>

DeviceResets ==
  /\ resets < MaxResets
  /\ resets' = resets + 1
  /\ device' = Idle
  /\ UNCHANGED <<resident, executed, answered>>

ResidentStep ==
  SendW \/ PollAgain \/ PollIdle \/ PollReady \/ ReadReply \/ ReadFails

Next == BeginPacket \/ ResidentStep \/ DeviceExecutes \/ DeviceResets

(* SIO commands return (the OS gives each a timeout), so a started         *)
(* exchange keeps taking steps.  Nothing is assumed of the device.         *)
Spec == Init /\ [][Next]_vars /\ WF_vars(ResidentStep)

-----------------------------------------------------------------------------
(* A reply that passes validation is always the reply to the request the   *)
(* resident has just sent: the stale reply of an abandoned exchange is     *)
(* never taken for a newer one's, although frames carry no sequence number.*)
OwnReply == \A a \in answered : a[1] = a[2]

(* Recovery never repeats W: whatever is lost, a request is carried out at *)
(* most once, and an accepted one exactly once.                            *)
AtMostOnce ==
  \A r \in RequestIds : executed[r] <= 1 /\ (<<r, r>> \in answered => executed[r] = 1)

(* A cleared flag is never wrong: with nothing outstanding the device      *)
(* holds no transaction, whatever SIO command was lost or late, so the     *)
(* next W meets an empty device.                                           *)
ClearMeansEmpty == ~outstanding => device = Idle

(* Waiting is bounded: every exchange ends, however long the device is     *)
(* busy and whichever commands fail.                                       *)
ExchangeEnds == pc # "rest" ~> pc = "rest"

(* The request under preparation has not been handed to W yet.             *)
Prepared == pc = "W" \/ (pc \in {"P", "R"} /\ recovering)

(* The wire code implements the retained-reply promise.                    *)
Awaited == IF pc \in {"P", "R"} /\ ~recovering THEN request ELSE NoRequest
Transaction == [state |-> device.state, request |-> device.request]
Unsent == IF Prepared THEN request..MaxRequests ELSE (request + 1)..MaxRequests
Carried == {r \in RequestIds : executed[r] > 0}

Promise == INSTANCE RetainedReply WITH
  Requests <- RequestIds, NoRequest <- NoRequest,
  waiting <- Awaited, held <- Transaction, unsent <- Unsent,
  carried <- Carried, answered <- answered

KeepsPromise == Promise!Spec

=============================================================================

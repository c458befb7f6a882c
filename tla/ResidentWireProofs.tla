-------------------------- MODULE ResidentWireProofs --------------------------
(***************************************************************************)
(* Proofs about ResidentWire, for any number of requests, polls and device *)
(* restarts.  WireInv is the inductive invariant: it ties the flag and the *)
(* program counter to what the device holds, and numbers requests so that  *)
(* the one being prepared cannot have been carried out yet.                *)
(***************************************************************************)
EXTENDS ResidentWire, TLAPS

Waiting == pc \in {"P", "R"} /\ ~recovering

FlagInv ==
  /\ ClearMeansEmpty
  /\ pc = "W" => ~outstanding
  /\ pc \in {"P", "R"} => outstanding
  /\ pc = "P" => polls > 0
  /\ pc # "rest" => request > 0

DeviceInv ==
  /\ device.state = "idle" <=> device = Idle
  /\ device # Idle => device.request \in 1..request
  /\ Waiting /\ device # Idle => device.request = request
  /\ Prepared => device.request # request
  /\ pc = "R" => device.state # "busy"

ExecutedInv ==
  /\ \A r \in RequestIds : executed[r] <= 1
  /\ \A r \in RequestIds : r > request => executed[r] = 0
  /\ Prepared => executed[request] = 0
  /\ device.state = "busy" => executed[device.request] = 0
  /\ device.state = "ready" => executed[device.request] = 1

AnsweredInv == \A a \in answered : a[1] = a[2] /\ executed[a[1]] = 1

WireInv == TypeOK /\ FlagInv /\ DeviceInv /\ ExecutedInv /\ AnsweredInv

USE DEF NoRequest, RequestIds
USE WireAssumption DEF WireAssumption

-----------------------------------------------------------------------------
LEMMA WireInit == Init => WireInv
<1> SUFFICES ASSUME Init PROVE WireInv  OBVIOUS
<1> USE DEF Init
<1>1. TypeOK
  <2>1. device \in DeviceRecord  BY DEF DeviceRecord, Idle, ReplyLengths
  <2>2. executed \in [RequestIds -> Nat]  OBVIOUS
  <2>3. answered \subseteq RequestIds \X RequestIds  OBVIOUS
  <2>4. polls \in 0..MaxPolls /\ request \in 0..MaxRequests /\ resets \in 0..MaxResets
    OBVIOUS
  <2>5. QED  BY <2>1, <2>2, <2>3, <2>4 DEF TypeOK
<1>2. FlagInv  BY DEF FlagInv, ClearMeansEmpty
<1>3. DeviceInv  BY DEF DeviceInv, Idle, Waiting, Prepared
<1>4. ExecutedInv  BY DEF ExecutedInv, Idle, Prepared
<1>5. AnsweredInv  BY DEF AnsweredInv
<1>6. QED  BY <1>1, <1>2, <1>3, <1>4, <1>5 DEF WireInv

(* SendW meets an empty device, so it leaves nothing there but its own     *)
(* request.                                                                *)
LEMMA SendWMeetsIdle ==
  ASSUME WireInv, SendW
  PROVE  /\ device = Idle /\ request \in RequestIds
         /\ device' \in {Idle, Busy(request)}
BY DEF WireInv, TypeOK, FlagInv, ClearMeansEmpty, SendW, AfterW, Idle

LEMMA HeldRequest ==
  ASSUME WireInv, device.state # "idle"
  PROVE  device.request \in RequestIds /\ device.request <= request
BY DEF WireInv, TypeOK, DeviceRecord, DeviceInv, Idle

LEMMA TypeStep == WireInv /\ [Next]_vars => TypeOK'
<1> SUFFICES ASSUME WireInv, [Next]_vars PROVE TypeOK'  OBVIOUS
<1>1. TypeOK /\ FlagInv  BY DEF WireInv
<1> USE <1>1 DEF TypeOK, Goto, Finish
<1>2. CASE BeginPacket  BY <1>2 DEF BeginPacket, MustDrain
<1>3. CASE SendW
  <2>1. device' \in DeviceRecord
    BY <1>3, SendWMeetsIdle DEF DeviceRecord, Idle, Busy, ReplyLengths
  <2>2. (pc \in {"rest", "P"} /\ recovering \in BOOLEAN /\ polls = MaxPolls)'
    BY <1>3 DEF SendW, AfterFailedW
  <2>3. (verdict \in {"none", "reply", "failed"} /\ outstanding \in BOOLEAN)'
    BY <1>3 DEF SendW, AfterFailedW
  <2>4. UNCHANGED <<request, resets, executed, answered>>  BY <1>3 DEF SendW
  <2>5. QED  BY <2>1, <2>2, <2>3, <2>4
<1>4. CASE PollAgain  BY <1>4 DEF PollAgain, FlagInv
<1>5. CASE PollIdle  BY <1>5 DEF PollIdle
<1>6. CASE PollReady  BY <1>6 DEF PollReady
<1>7. CASE ReadReply
  <2>1. device' \in DeviceRecord  BY <1>7 DEF ReadReply, DeviceRecord, Idle, ReplyLengths
  <2>2. <<request, device.request>> \in RequestIds \X RequestIds
    BY <1>7, HeldRequest DEF ReadReply
  <2>3. QED  BY <1>7, <2>1, <2>2 DEF ReadReply
<1>8. CASE ReadFails
  <2>1. device' \in DeviceRecord  BY <1>8 DEF ReadFails, DeviceRecord, Idle, ReplyLengths
  <2>2. QED  BY <1>8, <2>1 DEF ReadFails
<1>9. CASE DeviceExecutes
  <2>1. device' \in DeviceRecord  BY <1>9 DEF DeviceExecutes, DeviceRecord
  <2>2. executed' \in [RequestIds -> Nat]  BY <1>9, HeldRequest DEF DeviceExecutes
  <2>3. QED  BY <1>9, <2>1, <2>2 DEF DeviceExecutes, resident
<1>10. CASE DeviceResets
  <2>1. device' \in DeviceRecord  BY <1>10 DEF DeviceResets, DeviceRecord, Idle, ReplyLengths
  <2>2. QED  BY <1>10, <2>1 DEF DeviceResets, resident
<1>11. CASE UNCHANGED vars  BY <1>11 DEF vars, resident
<1>12. QED
  BY <1>2, <1>3, <1>4, <1>5, <1>6, <1>7, <1>8, <1>9, <1>10, <1>11
     DEF Next, ResidentStep

LEMMA FlagStep == WireInv /\ [Next]_vars => FlagInv'
<1> SUFFICES ASSUME WireInv, [Next]_vars PROVE FlagInv'  OBVIOUS
<1>1. TypeOK /\ FlagInv /\ DeviceInv  BY DEF WireInv
<1> USE <1>1 DEF TypeOK, FlagInv, ClearMeansEmpty, Goto, Finish
<1>2. CASE BeginPacket  BY <1>2 DEF BeginPacket, MustDrain
<1>3. CASE SendW  BY <1>3 DEF SendW, AfterW, AfterFailedW, Busy
<1>4. CASE PollAgain  BY <1>4 DEF PollAgain
<1>5. CASE PollIdle  BY <1>5 DEF PollIdle, DeviceInv
<1>6. CASE PollReady  BY <1>6 DEF PollReady
<1>7. CASE ReadReply  BY <1>7 DEF ReadReply, CanBeValid
<1>8. CASE ReadFails  BY <1>8 DEF ReadFails
<1>9. CASE DeviceExecutes  BY <1>9 DEF DeviceExecutes, Idle, resident
<1>10. CASE DeviceResets  BY <1>10 DEF DeviceResets, resident
<1>11. CASE UNCHANGED vars  BY <1>11 DEF vars, resident
<1>12. QED
  BY <1>2, <1>3, <1>4, <1>5, <1>6, <1>7, <1>8, <1>9, <1>10, <1>11
     DEF Next, ResidentStep

LEMMA DeviceStep == WireInv /\ [Next]_vars => DeviceInv'
<1> SUFFICES ASSUME WireInv, [Next]_vars PROVE DeviceInv'  OBVIOUS
<1>1. TypeOK /\ FlagInv /\ DeviceInv  BY DEF WireInv
<1> USE <1>1 DEF TypeOK, FlagInv, ClearMeansEmpty, DeviceInv, Waiting, Prepared, Goto, Finish
<1>2. CASE BeginPacket  BY <1>2 DEF BeginPacket, MustDrain, DeviceRecord, Idle
<1>3. CASE SendW
  <2>1. device \in {Idle} /\ device' \in {Idle, Busy(request)} /\ request \in RequestIds
    BY <1>3, SendWMeetsIdle
  <2>2. pc = "W" /\ pc' \in {"rest", "P"} /\ recovering' = FALSE
    BY <1>3 DEF SendW, AfterFailedW
  <2>3. UNCHANGED <<request, executed>>  BY <1>3 DEF SendW
  <2>4. QED  BY <2>1, <2>2, <2>3 DEF Idle, Busy
<1>4. CASE PollAgain  BY <1>4 DEF PollAgain
<1>5. CASE PollIdle  BY <1>5 DEF PollIdle, Idle
<1>6. CASE PollReady  BY <1>6 DEF PollReady
<1>7. CASE ReadReply  BY <1>7 DEF ReadReply, Idle
<1>8. CASE ReadFails  BY <1>8 DEF ReadFails, Idle
<1>9. CASE DeviceExecutes
  <2>1. /\ device # Idle /\ device' # Idle /\ device'.state = "ready"
        /\ device'.request = device.request
    BY <1>9 DEF DeviceExecutes, DeviceRecord, Idle
  <2>2. QED  BY <1>9, <2>1 DEF DeviceExecutes, resident
<1>10. CASE DeviceResets  BY <1>10 DEF DeviceResets, Idle, resident
<1>11. CASE UNCHANGED vars  BY <1>11 DEF vars, resident
<1>12. QED
  BY <1>2, <1>3, <1>4, <1>5, <1>6, <1>7, <1>8, <1>9, <1>10, <1>11
     DEF Next, ResidentStep

LEMMA ExecutedStep == WireInv /\ [Next]_vars => ExecutedInv'
<1> SUFFICES ASSUME WireInv, [Next]_vars PROVE ExecutedInv'  OBVIOUS
<1>1. TypeOK /\ FlagInv /\ DeviceInv /\ ExecutedInv  BY DEF WireInv
<1> USE <1>1 DEF TypeOK, FlagInv, DeviceInv, ExecutedInv, Waiting, Prepared, Goto, Finish
<1>2. CASE BeginPacket  BY <1>2 DEF BeginPacket, MustDrain
<1>3. CASE SendW
  <2>1. device \in {Idle} /\ device' \in {Idle, Busy(request)} /\ request \in RequestIds
    BY <1>3, SendWMeetsIdle
  <2>2. pc = "W" /\ pc' \in {"rest", "P"} /\ recovering' = FALSE
    BY <1>3 DEF SendW, AfterFailedW
  <2>3. UNCHANGED <<request, executed>>  BY <1>3 DEF SendW
  <2>4. QED  BY <2>1, <2>2, <2>3 DEF Idle, Busy
<1>4. CASE PollAgain  BY <1>4 DEF PollAgain
<1>5. CASE PollIdle  BY <1>5 DEF PollIdle
<1>6. CASE PollReady  BY <1>6 DEF PollReady
<1>7. CASE ReadReply  BY <1>7 DEF ReadReply, Idle
<1>8. CASE ReadFails  BY <1>8 DEF ReadFails, Idle
<1>9. CASE DeviceExecutes
  <2>1. device.request \in RequestIds /\ device.request <= request
    BY <1>9, HeldRequest DEF DeviceExecutes
  <2>2. device'.request = device.request /\ device'.state = "ready"
    BY <1>9 DEF DeviceExecutes, DeviceRecord
  <2>3. executed[device.request] = 0  BY <1>9 DEF DeviceExecutes
  <2>4. executed' \in [RequestIds -> Nat] /\ executed'[device.request] = 1
        /\ \A r \in RequestIds : r # device.request => executed'[r] = executed[r]
    BY <1>9, <2>1, <2>3 DEF DeviceExecutes
  <2>5. request' = request /\ (Prepared' <=> Prepared)  BY <1>9 DEF DeviceExecutes, resident
  <2>6. QED  BY <2>1, <2>2, <2>3, <2>4, <2>5
<1>10. CASE DeviceResets  BY <1>10 DEF DeviceResets, Idle, resident
<1>11. CASE UNCHANGED vars  BY <1>11 DEF vars, resident
<1>12. QED
  BY <1>2, <1>3, <1>4, <1>5, <1>6, <1>7, <1>8, <1>9, <1>10, <1>11
     DEF Next, ResidentStep

LEMMA AnsweredStep == WireInv /\ [Next]_vars => AnsweredInv'
<1> SUFFICES ASSUME WireInv, [Next]_vars PROVE AnsweredInv'  OBVIOUS
<1>1. TypeOK /\ DeviceInv /\ ExecutedInv /\ AnsweredInv  BY DEF WireInv
<1> USE <1>1 DEF AnsweredInv, Goto, Finish
<1>2. CASE BeginPacket  BY <1>2 DEF BeginPacket, MustDrain
<1>3. CASE SendW  BY <1>3 DEF SendW, AfterW, AfterFailedW, Busy
<1>4. CASE PollAgain  BY <1>4 DEF PollAgain
<1>5. CASE PollIdle  BY <1>5 DEF PollIdle
<1>6. CASE PollReady  BY <1>6 DEF PollReady
<1>7. CASE ReadReply
  <2>1. CASE recovering  BY <1>7, <2>1 DEF ReadReply
  <2>2. CASE ~recovering
    <3>1. device.request = request  BY <1>7, <2>2 DEF ReadReply, DeviceInv, Waiting, Idle
    <3>2. executed[request] = 1  BY <1>7, <3>1 DEF ReadReply, ExecutedInv
    <3>3. QED  BY <1>7, <3>1, <3>2 DEF ReadReply
  <2>3. QED  BY <2>1, <2>2
<1>8. CASE ReadFails  BY <1>8 DEF ReadFails
<1>9. CASE DeviceExecutes
  <2>1. device.request \in RequestIds  BY <1>9, HeldRequest DEF DeviceExecutes
  <2>2. executed[device.request] = 0  BY <1>9 DEF DeviceExecutes, ExecutedInv
  <2>3. ASSUME NEW a \in answered PROVE a[1] = a[2] /\ executed'[a[1]] = 1
    <3>1. a[1] \in RequestIds /\ a[1] = a[2] /\ executed[a[1]] = 1  BY DEF TypeOK
    <3>2. a[1] # device.request  BY <2>2, <3>1
    <3>3. QED  BY <1>9, <2>1, <3>1, <3>2 DEF DeviceExecutes, TypeOK
  <2>4. QED  BY <1>9, <2>3 DEF DeviceExecutes
<1>10. CASE DeviceResets  BY <1>10 DEF DeviceResets, resident
<1>11. CASE UNCHANGED vars  BY <1>11 DEF vars, resident
<1>12. QED
  BY <1>2, <1>3, <1>4, <1>5, <1>6, <1>7, <1>8, <1>9, <1>10, <1>11
     DEF Next, ResidentStep

(* WireInv holds in every reachable state.                                 *)
THEOREM WireInvariance == Spec => []WireInv
<1>1. WireInv /\ [Next]_vars => WireInv'
  BY TypeStep, FlagStep, DeviceStep, ExecutedStep, AnsweredStep DEF WireInv
<1>2. QED  BY WireInit, <1>1, PTL DEF Spec

(* The types of ResidentWire; polls stays within its bound, so a receive   *)
(* polls at most MaxPolls times.                                           *)
THEOREM WireTypes == Spec => []TypeOK
<1>1. WireInv => TypeOK  BY DEF WireInv
<1>2. QED  BY WireInvariance, <1>1, PTL

(* A reply accepted by exchange is the reply to the request just sent.     *)
THEOREM AcceptsOwnReply == Spec => []OwnReply
<1>1. WireInv => OwnReply  BY DEF WireInv, AnsweredInv, OwnReply
<1>2. QED  BY WireInvariance, <1>1, PTL

(* W is never repeated: no request is carried out twice, and an accepted   *)
(* one was carried out.                                                    *)
THEOREM CarriedOutAtMostOnce == Spec => []AtMostOnce
<1>1. WireInv => AtMostOnce
  BY DEF WireInv, TypeOK, ExecutedInv, AnsweredInv, AtMostOnce
<1>2. QED  BY WireInvariance, <1>1, PTL

(* With the flag clear the device holds nothing.                           *)
THEOREM ClearFlagIsTrue == Spec => []ClearMeansEmpty
<1>1. WireInv => ClearMeansEmpty  BY DEF WireInv, FlagInv
<1>2. QED  BY WireInvariance, <1>1, PTL

-----------------------------------------------------------------------------
(* The refinement of RetainedReply: every step of the wire code is one step *)
(* of the promise or a stutter.                                            *)

PromiseVars == <<Awaited, Transaction, Unsent, Carried, answered>>

LEMMA PromiseInit == Init => Promise!Init
<1> SUFFICES ASSUME Init PROVE Promise!Init  OBVIOUS
<1> USE DEF Init
<1>1. Awaited = NoRequest  BY DEF Awaited
<1>2. Transaction = Promise!Idle  BY DEF Transaction, Promise!Idle, Idle
<1>3. Unsent = RequestIds  BY DEF Unsent, Prepared
<1>4. Carried = {}  BY DEF Carried
<1>5. QED  BY <1>1, <1>2, <1>3, <1>4 DEF Promise!Init

(* While nothing is sent to or carried out by the device, Carried stays.   *)
LEMMA CarriedKept == ASSUME UNCHANGED executed PROVE UNCHANGED Carried
BY DEF Carried

LEMMA BeginPacketStutters == ASSUME WireInv, BeginPacket PROVE UNCHANGED PromiseVars
<1> USE DEF BeginPacket, MustDrain, WireInv, TypeOK
<1>1. UNCHANGED Awaited  BY DEF Awaited
<1>2. UNCHANGED Transaction  BY DEF Transaction
<1>3. UNCHANGED Unsent  BY DEF Unsent, Prepared
<1>4. UNCHANGED Carried  BY CarriedKept
<1>5. QED  BY <1>1, <1>2, <1>3, <1>4 DEF PromiseVars

LEMMA SendWSends == ASSUME WireInv, SendW PROVE Promise!Send(request)
<1> USE DEF WireInv, TypeOK, SendW, AfterFailedW, Goto, Finish
<1>1. device = Idle /\ request \in RequestIds /\ device' \in {Idle, Busy(request)}
  BY SendWMeetsIdle
<1>2. Awaited = NoRequest /\ Transaction = Promise!Idle
  BY <1>1 DEF Awaited, Transaction, Promise!Idle, Idle
<1>3. request \in Unsent /\ Unsent' = Unsent \ {request}
  BY <1>1 DEF Unsent, Prepared
<1>4. \/ Transaction' = Promise!Idle /\ Awaited' = NoRequest
      \/ Transaction' = Promise!Held("busy", request) /\ Awaited' \in {request, NoRequest}
  <2>1. CASE pc' = "rest"
    BY <1>1, <2>1 DEF Awaited, Transaction, Promise!Idle, Promise!Held, Idle, Busy
  <2>2. CASE pc' = "P"
    <3>1. device' = Busy(request) /\ ~recovering'  BY <1>1, <2>2 DEF AfterW, Idle
    <3>2. QED  BY <2>2, <3>1 DEF Awaited, Transaction, Promise!Held, Busy
  <2>3. QED  BY <2>1, <2>2
<1>5. UNCHANGED Carried  BY CarriedKept
<1>6. QED  BY <1>2, <1>3, <1>4, <1>5 DEF Promise!Send

(* An exchange that ends without a verdict: the prepared request is        *)
(* abandoned, or the one that was sent is given up.                        *)
LEMMA EndsInFailure ==
  ASSUME WireInv, pc \in {"P", "R"}, Finish("failed"), Promise!MayDrop,
         UNCHANGED <<recovering, request, executed, answered>>
  PROVE  Promise!Abandon(request) \/ Promise!GiveUp
<1> USE DEF WireInv, TypeOK, Finish
<1>1. UNCHANGED Carried  BY CarriedKept
<1>2. Awaited' = NoRequest  BY DEF Awaited
<1>3. request \in RequestIds  BY DEF FlagInv
<1>4. CASE recovering
  <2>1. Awaited = NoRequest  BY <1>4 DEF Awaited
  <2>2. request \in Unsent /\ Unsent' = Unsent \ {request}
    BY <1>3, <1>4 DEF Unsent, Prepared
  <2>3. QED  BY <1>1, <1>2, <2>1, <2>2 DEF Promise!Abandon
<1>5. CASE ~recovering
  <2>1. Awaited # NoRequest  BY <1>3, <1>5 DEF Awaited
  <2>2. UNCHANGED Unsent  BY <1>5 DEF Unsent, Prepared
  <2>3. QED  BY <1>1, <1>2, <2>1, <2>2 DEF Promise!GiveUp
<1>6. QED  BY <1>4, <1>5

LEMMA DeviceKept == ASSUME UNCHANGED device PROVE Promise!MayDrop /\ UNCHANGED Transaction
BY DEF Promise!MayDrop, Transaction

(* A step that moves on inside a receive changes nothing the promise sees. *)
LEMMA MovesOn ==
  ASSUME pc \in {"P", "R"}, pc' \in {"P", "R"} \/ (pc' = "W" /\ recovering),
         WireInv, WireInv',
         UNCHANGED <<recovering, request, device, executed, answered>>
  PROVE  UNCHANGED PromiseVars
<1>1. UNCHANGED Carried  BY CarriedKept
<1>2. UNCHANGED Transaction  BY DeviceKept
<1>3. (recovering' <=> recovering)  OBVIOUS
<1>4. UNCHANGED Awaited  BY <1>3 DEF Awaited
<1>5. UNCHANGED Unsent  BY <1>3 DEF Unsent, Prepared
<1>6. QED  BY <1>1, <1>2, <1>4, <1>5 DEF PromiseVars

LEMMA ReadReplySteps ==
  ASSUME WireInv, ReadReply
  PROVE  Promise!Discard \/ Promise!Answer(request) \/ Promise!GiveUp
<1> USE DEF WireInv, TypeOK, ReadReply, Goto, Finish
<1>1. UNCHANGED Carried  BY CarriedKept
<1>2. Transaction.state = "ready" /\ Transaction' = Promise!Idle
  BY DEF Transaction, Promise!Idle, Idle
<1>3. request \in RequestIds  BY DEF FlagInv
<1>4. CASE recovering
  <2>1. Awaited = NoRequest /\ Awaited' = NoRequest  BY <1>4 DEF Awaited
  <2>2. UNCHANGED Unsent  BY <1>4 DEF Unsent, Prepared
  <2>3. QED  BY <1>1, <1>2, <1>4, <2>1, <2>2 DEF Promise!Discard
<1>5. CASE ~recovering
  <2>1. Awaited = request /\ Awaited' = NoRequest  BY <1>5 DEF Awaited
  <2>2. UNCHANGED Unsent  BY <1>5 DEF Unsent, Prepared
  <2>3. device.request = request  BY <1>5 DEF DeviceInv, Waiting, Idle
  <2>4. Transaction = Promise!Held("ready", request)
    BY <2>3 DEF Transaction, Promise!Held
  <2>5. CASE answered' = answered \cup {<<request, device.request>>}
    BY <1>1, <1>2, <2>1, <2>2, <2>3, <2>4, <2>5 DEF Promise!Answer
  <2>6. CASE answered' = answered
    BY <1>1, <1>2, <1>3, <2>1, <2>2, <2>6 DEF Promise!GiveUp, Promise!MayDrop
  <2>7. QED  BY <1>5, <2>5, <2>6
<1>6. QED  BY <1>4, <1>5

LEMMA DeviceExecutesCarries ==
  ASSUME WireInv, DeviceExecutes
  PROVE  Promise!Carry(device.request)
<1> USE DEF WireInv, TypeOK, DeviceExecutes
<1>1. device.request \in RequestIds /\ executed[device.request] = 0
  BY HeldRequest DEF ExecutedInv
<1>2. Transaction = Promise!Held("busy", device.request)
      /\ Transaction' = Promise!Held("ready", device.request)
  BY DEF Transaction, Promise!Held
<1>3. device.request \notin Carried /\ Carried' = Carried \cup {device.request}
  BY <1>1 DEF Carried
<1>4. (recovering' <=> recovering) /\ UNCHANGED <<pc, request, answered>>  BY DEF resident
<1>5. UNCHANGED <<Awaited, Unsent>>  BY <1>4 DEF Awaited, Unsent, Prepared
<1>6. QED  BY <1>2, <1>3, <1>4, <1>5 DEF Promise!Carry

LEMMA DeviceResetsForgets == ASSUME WireInv, DeviceResets PROVE Promise!Forget
<1> USE DEF DeviceResets
<1>1. Transaction' = Promise!Idle  BY DEF Transaction, Promise!Idle, Idle
<1>2. (recovering' <=> recovering) /\ UNCHANGED <<pc, request, answered>>  BY DEF resident
<1>3. UNCHANGED <<Awaited, Unsent>>  BY <1>2 DEF Awaited, Unsent, Prepared
<1>4. UNCHANGED Carried  BY CarriedKept
<1>5. QED  BY <1>1, <1>2, <1>3, <1>4 DEF Promise!Forget

LEMMA PromiseStep ==
  ASSUME WireInv, WireInv', [Next]_vars
  PROVE  [Promise!Next]_(Promise!vars)
<1>1. UNCHANGED PromiseVars => UNCHANGED Promise!vars
  BY DEF PromiseVars, Promise!vars
<1>2. CASE BeginPacket  BY <1>1, <1>2, BeginPacketStutters
<1>3. CASE SendW  BY <1>3, SendWSends, SendWMeetsIdle DEF Promise!Next
<1>4. ASSUME pc \in {"P", "R"}, Finish("failed"), Promise!MayDrop,
             UNCHANGED <<recovering, request, executed, answered>>
      PROVE  Promise!Next
  <2>1. request \in RequestIds  BY <1>4 DEF WireInv, TypeOK, FlagInv
  <2>2. QED  BY <1>4, <2>1, EndsInFailure DEF Promise!Next
<1>5. CASE PollAgain
  <2>1. CASE polls' = 0
    BY <1>4, <1>5, <2>1, DeviceKept DEF PollAgain
  <2>2. CASE polls' # 0
    BY <1>1, <1>5, <2>2, MovesOn DEF PollAgain, Goto
  <2>3. QED  BY <2>1, <2>2
<1>6. CASE PollIdle
  <2>1. CASE recovering  BY <1>1, <1>6, <2>1, MovesOn DEF PollIdle, Goto
  <2>2. CASE ~recovering  BY <1>4, <1>6, <2>2, DeviceKept DEF PollIdle
  <2>3. QED  BY <2>1, <2>2
<1>7. CASE PollReady
  <2>1. CASE CanRetire(device.length)  BY <1>1, <1>7, <2>1, MovesOn DEF PollReady, Goto
  <2>2. CASE ~CanRetire(device.length)  BY <1>4, <1>7, <2>2, DeviceKept DEF PollReady
  <2>3. QED  BY <2>1, <2>2
<1>8. CASE ReadReply
  <2>1. request \in RequestIds  BY <1>8 DEF WireInv, TypeOK, FlagInv, ReadReply
  <2>2. QED  BY <1>8, <2>1, ReadReplySteps DEF Promise!Next
<1>9. CASE ReadFails
  <2>1. CASE UNCHANGED device  BY <1>4, <1>9, <2>1, DeviceKept DEF ReadFails
  <2>2. CASE device' = Idle
    <3>1. device.state = "ready" \/ UNCHANGED device
      BY <1>9, <2>2 DEF ReadFails, WireInv, TypeOK, DeviceRecord, DeviceInv
    <3>2. Promise!MayDrop
      BY <2>2, <3>1 DEF Promise!MayDrop, Promise!Idle, Transaction, Idle
    <3>3. QED  BY <1>4, <1>9, <3>2 DEF ReadFails
  <2>3. QED  BY <1>9, <2>1, <2>2 DEF ReadFails
<1>10. CASE DeviceExecutes
  BY <1>10, DeviceExecutesCarries, HeldRequest DEF DeviceExecutes, Promise!Next
<1>11. CASE DeviceResets  BY <1>11, DeviceResetsForgets DEF Promise!Next
<1>12. CASE UNCHANGED vars
  BY <1>12 DEF vars, resident, Promise!vars, Awaited, Transaction, Unsent, Prepared, Carried
<1>13. QED
  BY <1>2, <1>3, <1>5, <1>6, <1>7, <1>8, <1>9, <1>10, <1>11, <1>12
     DEF Next, ResidentStep

(* The W/P/R code keeps the promise of RetainedReply: one transaction at   *)
(* the device, carried out at most once, answered only to its own request. *)
THEOREM KeepsThePromise == Spec => KeepsPromise
<1>1. WireInv /\ WireInv' /\ [Next]_vars => [Promise!Next]_(Promise!vars)
  BY PromiseStep
<1>2. QED  BY PromiseInit, WireInvariance, <1>1, PTL DEF Spec, KeepsPromise, Promise!Spec

-----------------------------------------------------------------------------
(* The P, R and W commands that the exchange in progress may still issue:  *)
(* its own polling and reading, before them the W, and before that, when   *)
(* it drains, the polling and reading of what was left.                    *)
Budget ==
  CASE pc = "rest" -> 0
    [] pc = "R" /\ ~recovering -> 1
    [] pc = "P" /\ ~recovering -> polls + 1
    [] pc = "W" -> MaxPolls + 2
    [] pc = "R" /\ recovering -> MaxPolls + 3
    [] pc = "P" /\ recovering -> MaxPolls + polls + 3

BudgetBounded == Budget \in 0..(2 * MaxPolls + 3) /\ (Budget = 0 <=> pc = "rest")

(* A command uses up some of the budget and only a new request restores it. *)
SpendsBudget ==
  \/ ResidentStep /\ Budget' < Budget
  \/ BeginPacket /\ Budget = 0
  \/ UNCHANGED resident

LEMMA BudgetFits == WireInv => BudgetBounded
<1> SUFFICES ASSUME WireInv PROVE BudgetBounded  OBVIOUS
<1>1. /\ pc \in {"rest", "W", "P", "R"} /\ recovering \in BOOLEAN /\ polls \in 0..MaxPolls
      /\ MaxPolls \in Nat
  BY DEF WireInv, TypeOK
<1>2. CASE pc = "rest"  BY <1>1, <1>2 DEF Budget, BudgetBounded
<1>3. CASE pc = "W"  BY <1>1, <1>3 DEF Budget, BudgetBounded
<1>4. CASE pc = "P"  BY <1>1, <1>4 DEF Budget, BudgetBounded
<1>5. CASE pc = "R"  BY <1>1, <1>5 DEF Budget, BudgetBounded
<1>6. QED  BY <1>1, <1>2, <1>3, <1>4, <1>5

LEMMA CommandSpends == WireInv /\ ResidentStep => Budget' < Budget
<1> SUFFICES ASSUME WireInv, ResidentStep PROVE Budget' < Budget  OBVIOUS
<1>1. /\ recovering \in BOOLEAN /\ polls \in 0..MaxPolls /\ MaxPolls \in Nat
      /\ pc = "P" => polls > 0
  BY DEF WireInv, TypeOK, FlagInv
<1> USE <1>1 DEF Budget, Goto, Finish
<1>2. CASE SendW
  <2>1. /\ pc = "W" /\ pc' \in {"rest", "P"} /\ recovering' = FALSE /\ polls' = MaxPolls
    BY <1>2 DEF SendW, AfterFailedW
  <2>2. QED  BY <2>1
<1>3. CASE PollAgain  BY <1>3 DEF PollAgain
<1>4. CASE PollIdle  BY <1>4 DEF PollIdle
<1>5. CASE PollReady  BY <1>5 DEF PollReady
<1>6. CASE ReadReply
  <2>1. /\ pc = "R" /\ UNCHANGED <<recovering, polls>>
        /\ pc' \in {"rest", "W"} /\ (~recovering => pc' = "rest")
    BY <1>6 DEF ReadReply
  <2>2. QED  BY <2>1
<1>7. CASE ReadFails
  <2>1. pc = "R" /\ pc' = "rest"  BY <1>7 DEF ReadFails
  <2>2. QED  BY <2>1
<1>8. QED  BY <1>2, <1>3, <1>4, <1>5, <1>6, <1>7 DEF ResidentStep

(* Waiting is bounded: an exchange issues at most 2 * MaxPolls + 3         *)
(* commands, the draining of an older reply included, however long the     *)
(* FujiNet is busy and whichever commands fail.  So it ends when each      *)
(* command returns, which is what fairness adds in ExchangeEnds.           *)
THEOREM ExchangesBounded == Spec => []BudgetBounded /\ [][SpendsBudget]_vars
<1>1. WireInv /\ [Next]_vars => [SpendsBudget]_vars
  <2> SUFFICES ASSUME WireInv, [Next]_vars PROVE [SpendsBudget]_vars  OBVIOUS
  <2>1. CASE ResidentStep  BY <2>1, CommandSpends DEF SpendsBudget
  <2>2. CASE BeginPacket  BY <2>2 DEF SpendsBudget, BeginPacket, Budget
  <2>3. CASE DeviceExecutes \/ DeviceResets
    BY <2>3 DEF SpendsBudget, DeviceExecutes, DeviceResets
  <2>4. QED  BY <2>1, <2>2, <2>3 DEF Next
<1>2. QED  BY WireInvariance, BudgetFits, <1>1, PTL DEF Spec

=============================================================================

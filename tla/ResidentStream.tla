---------------------------- MODULE ResidentStream ----------------------------
(***************************************************************************)
(* The CIO side of the resident N: handler (fnresident_asm.s): the five    *)
(* CIO calls OPEN, CLOSE, GET, PUT and STATUS of two owners, each with a   *)
(* byte cache, a stream offset and the terminal commit of a written body,  *)
(* over requests to a FujiNet that may lose, delay, refuse or half-accept  *)
(* them.  One call runs at a time (the gateway is not re-entrant); it      *)
(* makes zero or more exchanges, each taking the steps of RetainedReply:   *)
(* Recover (begin_packet drains what is outstanding), Send (W), and one of *)
(* Receive, Missing and NotCollected (P and R).  How those poll is the     *)
(* business of ResidentWire.                                               *)
(*                                                                         *)
(* A call that is refused without changing anything (IOCB not open or      *)
(* already open, wrong direction, no owner free, output already faulted or *)
(* committed, end of file reached before) is not an action.  POS is        *)
(* modelled for input only: while writing it is scratch of cache_index.    *)
(***************************************************************************)
EXTENDS Naturals, Sequences

CONSTANTS
  Iocbs,        \* the IOCBs that call the handler
  Free,         \* the value of OWN in an owner nobody uses ($ff)
  Bytes,        \* the byte values a program writes
  Content,      \* the bytes a session returns to a reader
  CacheSize,    \* capacity of an owner's cache (128)
  MaxSessions,  \* bound: sessions the FujiNet opens in a behaviour
  MaxPuts,      \* bound: bytes written to one session
  MaxResets     \* bound: restarts of the FujiNet

ASSUME StreamAssumption ==
  /\ Free \notin Iocbs
  /\ Content \in Seq(Bytes)
  /\ CacheSize \in Nat \ {0}
  /\ MaxSessions \in Nat
  /\ MaxPuts \in Nat
  /\ MaxResets \in Nat

VARIABLES
  owner,        \* the two owner records with their caches
  outstanding,  \* a transaction may still be at the device
  call,         \* the CIO call in progress, or NoCall
  device,       \* the transaction the FujiNet holds
  session,      \* the FujiNet's network sessions, by handle
  resets,
  puts,         \* history: bytes PUT took from the program, by handle
  gets,         \* history: bytes GET gave to the program, by handle
  told          \* history: what the program was told, by handle

local == <<owner, outstanding, call>>
history == <<puts, gets, told>>
vars == <<local, device, session, resets, history>>

Slots == {0, 1}
Handles == 1..MaxSessions
NoHandle == 0
Modes == {"get", "put", "post"}

NoCall == [op |-> "none", iocb |-> Free, slot |-> 0, mode |-> "get",
           stage |-> "none", sent |-> FALSE, result |-> TRUE]
Call(op, s) == [NoCall EXCEPT !.op = op, !.iocb = owner[s].iocb, !.slot = s]

FreeOwner == [iocb |-> Free, mode |-> "get", handle |-> NoHandle, offset |-> 0,
              cache |-> <<>>, pos |-> 0, eof |-> FALSE, fault |-> FALSE,
              committed |-> FALSE, reading |-> FALSE]

NoRequest == [command |-> "none", handle |-> NoHandle, mode |-> "get",
              offset |-> 0, data |-> <<>>]
NoReply == [good |-> FALSE, command |-> "none", handle |-> NoHandle,
            count |-> 0, data |-> <<>>, eof |-> FALSE]
Idle == [state |-> "idle", request |-> NoRequest, reply |-> NoReply]
Busy(request) == [state |-> "busy", request |-> request, reply |-> NoReply]

Init ==
  /\ owner = [s \in Slots |-> FreeOwner]
  /\ outstanding = FALSE
  /\ call = NoCall
  /\ device = Idle
  /\ session = [h \in Handles |-> [state |-> "none", mode |-> "get",
                                   body |-> <<>>, commits |-> 0]]
  /\ resets = 0
  /\ puts = [h \in Handles |-> <<>>]
  /\ gets = [h \in Handles |-> <<>>]
  /\ told = [h \in Handles |-> {}]

-----------------------------------------------------------------------------
(* Pieces of the handlers; c is the call in progress, o its owner record.  *)

Return == call' = NoCall
Exchange(c, stage) == call' = [c EXCEPT !.stage = stage, !.sent = FALSE]
Set(s, o) == owner' = [owner EXCEPT ![s] = o]
Tell(h, what) == told' = IF what = {} THEN told ELSE [told EXCEPT ![h] = @ \cup what]

RewindForgotten(o) == [o EXCEPT !.cache = <<>>, !.pos = 0, !.reading = TRUE]
RewindForReading(o) ==
  [o EXCEPT !.offset = 0, !.cache = <<>>, !.pos = 0, !.eof = FALSE, !.reading = TRUE]

(* What follows a finish_write that succeeded, by the call that needs it.  *)
AfterCommit(c, o) ==
  IF c.op = "get" THEN Set(c.slot, RewindForReading(o)) /\ Exchange(c, "read")
  ELSE Set(c.slot, o) /\ Exchange(c, IF c.op = "status" THEN "info" ELSE "close")

FinishWriteAgain(c, o) ==
  Set(c.slot, o) /\ Exchange(c, IF o.cache = <<>> THEN "commit" ELSE "write")

(* finish_write: flush what is cached, then commit, each at most once.     *)
FinishWrite(c, o) ==
  IF o.committed THEN AfterCommit(c, o)
  ELSE Set(c.slot, o) /\ Exchange(c, IF o.cache = <<>> THEN "commit" ELSE "write")

(* GET hands out the byte at POS.                                          *)
Deliver(s, o) ==
  /\ Set(s, [o EXCEPT !.pos = @ + 1])
  /\ gets' = [gets EXCEPT ![o.handle] = Append(@, o.cache[o.pos + 1])]
  /\ told' = told

(* An exchange of c failed.  A failed flush faults the owner for good; a   *)
(* failed CLOSE still frees it, after trying to close the remote session.  *)
AfterFailureUnfaulted(c, o) ==
  [o EXCEPT !.iocb = IF c.stage = "close" THEN Free ELSE @]
AfterFailure(c, o) ==
  [o EXCEPT !.fault = @ \/ c.stage \in {"write", "commit"},
            !.iocb = IF c.stage = "close" THEN Free ELSE @]

ExchangeFails(c) ==
  /\ Set(c.slot, AfterFailure(c, owner[c.slot]))
  /\ IF c.op = "close" /\ c.stage # "close"
     THEN call' = [c EXCEPT !.stage = "close", !.sent = FALSE, !.result = FALSE]
     ELSE Return
  /\ Tell(owner[c.slot].handle, IF c.stage \in {"write", "commit"} THEN {"failed"} ELSE {})
  /\ UNCHANGED <<puts, gets>>

-----------------------------------------------------------------------------
(* The CIO calls, up to their first exchange.                              *)

FreeSlot == IF owner[1].iocb = Free THEN 1 ELSE 0

NotOpenUnchecked(iocb) == TRUE
NotOpen(iocb) == \A s \in Slots : owner[s].iocb # iocb

Open(iocb, mode) ==
  /\ call = NoCall
  /\ NotOpen(iocb)
  /\ owner[FreeSlot].iocb = Free
  /\ call' = [NoCall EXCEPT !.op = "open", !.iocb = iocb, !.slot = FreeSlot,
                           !.mode = mode, !.stage = "open"]
  /\ UNCHANGED <<owner, outstanding, device, session, resets, history>>

Active(s) == call = NoCall /\ owner[s].iocb # Free

FullTooLate(o) == Len(o.cache) > CacheSize
Full(o) == Len(o.cache) = CacheSize

(* A full cache is flushed at once.                                        *)
Put(s, b) ==
  LET o == [owner[s] EXCEPT !.cache = Append(@, b)] IN
  /\ Active(s)
  /\ owner[s].mode # "get" /\ ~owner[s].fault /\ ~owner[s].committed
  /\ Len(puts[owner[s].handle]) < MaxPuts
  /\ Set(s, o)
  /\ puts' = [puts EXCEPT ![o.handle] = Append(@, b)]
  /\ IF Full(o) THEN Exchange(Call("put", s), "write") ELSE Return
  /\ UNCHANGED <<outstanding, device, session, resets, gets, told>>

Readable(o) == o.mode = "get" \/ o.reading

GetCached(s) ==
  /\ Active(s) /\ Readable(owner[s])
  /\ owner[s].pos < Len(owner[s].cache)
  /\ Deliver(s, owner[s])
  /\ UNCHANGED <<outstanding, call, device, session, resets, puts>>

GetAtEnd(s) ==
  /\ Active(s) /\ Readable(owner[s])
  /\ owner[s].pos >= Len(owner[s].cache) /\ owner[s].eof
  /\ Tell(owner[s].handle, {"eof"})
  /\ UNCHANGED <<local, device, session, resets, puts, gets>>

GetMore(s) ==
  /\ Active(s)
  /\ \/ /\ Readable(owner[s])
        /\ owner[s].pos >= Len(owner[s].cache) /\ ~owner[s].eof
        /\ Exchange(Call("get", s), "read") /\ owner' = owner
     \/ /\ owner[s].mode = "post" /\ ~owner[s].reading /\ ~owner[s].fault
        /\ FinishWrite(Call("get", s), owner[s])
  /\ UNCHANGED <<outstanding, device, session, resets, history>>

Status(s) ==
  /\ Active(s)
  /\ IF owner[s].mode = "get" THEN Exchange(Call("status", s), "info") /\ owner' = owner
     ELSE ~owner[s].fault /\ FinishWrite(Call("status", s), owner[s])
  /\ UNCHANGED <<outstanding, device, session, resets, history>>

(* CLOSE of a faulted output reports the error but still closes.           *)
Close(s) ==
  /\ Active(s)
  /\ CASE owner[s].mode = "get" ->
            Exchange(Call("close", s), "close") /\ owner' = owner
       [] owner[s].mode # "get" /\ ~owner[s].fault ->
            FinishWrite(Call("close", s), owner[s])
       [] OTHER ->
            /\ Exchange([Call("close", s) EXCEPT !.result = FALSE], "close")
            /\ owner' = owner
  /\ UNCHANGED <<outstanding, device, session, resets, history>>

-----------------------------------------------------------------------------
(* One exchange.                                                           *)

RequestOf(c) ==
  IF c.stage = "open" THEN [NoRequest EXCEPT !.command = "open", !.mode = c.mode]
  ELSE [command |-> IF c.stage = "commit" THEN "write" ELSE c.stage,
        handle |-> owner[c.slot].handle, mode |-> "get",
        offset |-> owner[c.slot].offset,
        data |-> IF c.stage = "write" THEN owner[c.slot].cache ELSE <<>>]

Pending == call # NoCall /\ ~call.sent
Waiting == call # NoCall /\ call.sent

MustDrain == outstanding

(* The reply leaves the device, though its R is reported failed.           *)
MayDrop == device' \in {device} \cup (IF device.state = "ready" THEN {Idle} ELSE {})

(* begin_packet: a late reply is read and dropped, or the device is seen   *)
(* idle; otherwise the call fails before anything new is sent.             *)
Recover ==
  /\ Pending /\ MustDrain /\ device.state # "busy"
  /\ device' = Idle /\ outstanding' = FALSE
  /\ UNCHANGED <<owner, call, session, resets, history>>

RecoverFails ==
  /\ Pending /\ MustDrain
  /\ MayDrop
  /\ ExchangeFails(call)
  /\ UNCHANGED <<outstanding, session, resets>>

(* The device name is examined between begin_packet and the W.             *)
BadName ==
  /\ Pending /\ ~MustDrain /\ call.stage = "open"
  /\ Return
  /\ UNCHANGED <<owner, outstanding, device, session, resets, history>>

Send ==
  /\ Pending /\ ~MustDrain
  /\ device' = Busy(RequestOf(call)) /\ outstanding' = TRUE
  /\ call' = [call EXCEPT !.sent = TRUE]
  /\ UNCHANGED <<owner, session, resets, history>>

(* W fails, whether or not the device got the request.                     *)
SendFails ==
  /\ Pending /\ ~MustDrain
  /\ device' \in {device, Busy(RequestOf(call))} /\ outstanding' = TRUE
  /\ ExchangeFails(call)
  /\ UNCHANGED <<session, resets>>

(* P says idle: the exchange is over and the request was lost.             *)
Missing ==
  /\ Waiting /\ device.state = "idle"
  /\ outstanding' = FALSE
  /\ ExchangeFails(call)
  /\ UNCHANGED <<device, session, resets>>

(* The polls run out, or R fails.                                          *)
NotCollected ==
  /\ Waiting
  /\ MayDrop
  /\ ExchangeFails(call)
  /\ UNCHANGED <<outstanding, session, resets>>

(* R brought a reply.  exchange checks frame, command and service status;  *)
(* check_rw the handle and the count of a READ or WRITE.                   *)
Collected == Waiting /\ device.state = "ready" /\ device' = Idle /\ outstanding' = FALSE

Valid(reply) ==
  /\ reply.good
  /\ reply.command = RequestOf(call).command
  /\ call.stage \in {"read", "write", "commit"} =>
       /\ reply.handle = owner[call.slot].handle
       /\ reply.count <= CacheSize

BadReply ==
  /\ Collected /\ ~Valid(device.reply)
  /\ ExchangeFails(call)
  /\ UNCHANGED <<session, resets>>

(* OPEN clears the whole record before it fills it in.                     *)
NewOwnerStale(c, h) ==
  [owner[c.slot] EXCEPT !.iocb = c.iocb, !.mode = c.mode, !.handle = h,
                        !.offset = 0, !.cache = <<>>, !.pos = 0]
NewOwner(c, h) == [FreeOwner EXCEPT !.iocb = c.iocb, !.mode = c.mode, !.handle = h]

OpenReply ==
  /\ Collected /\ Valid(device.reply) /\ call.stage = "open"
  /\ Set(call.slot, NewOwner(call, device.reply.handle))
  /\ Return
  /\ UNCHANGED <<session, resets, history>>

PartialOrNone(o, count) == count < Len(o.cache)
Partial(o, count) == count > 0 /\ count < Len(o.cache)

(* The acknowledged prefix leaves the cache.                               *)
AcknowledgeAll(o, count) == [o EXCEPT !.offset = @ + count, !.cache = <<>>]
AcknowledgeKept(o, count) ==
  [o EXCEPT !.offset = @ + count, !.cache = SubSeq(@, count, Len(@))]
Acknowledge(o, count) ==
  [o EXCEPT !.offset = @ + count, !.cache = SubSeq(@, count + 1, Len(@))]

WriteReply ==
  LET o == owner[call.slot]
      count == device.reply.count
  IN
  /\ Collected /\ Valid(device.reply) /\ call.stage \in {"write", "commit"}
  /\ CASE Partial(o, count) ->
            Set(call.slot, Acknowledge(o, count)) /\ Exchange(call, "write") /\ UNCHANGED history
       [] count = Len(o.cache) /\ call.stage = "commit" ->
            AfterCommit(call, [o EXCEPT !.committed = TRUE]) /\ UNCHANGED history
       [] count = Len(o.cache) /\ call.stage = "write" ->
            /\ Set(call.slot, Acknowledge(o, count))
            /\ IF call.op = "put" THEN Return ELSE Exchange(call, "commit")
            /\ UNCHANGED history
       [] OTHER -> ExchangeFails(call)
  /\ UNCHANGED <<session, resets>>

(* An empty READ is the end of the file, flagged or not.                   *)
ReadReply ==
  LET r == device.reply
      o == [owner[call.slot] EXCEPT !.eof = r.eof, !.cache = r.data, !.pos = 0,
                                    !.offset = @ + r.count]
  IN
  /\ Collected /\ Valid(r) /\ call.stage = "read"
  /\ IF r.count = 0 THEN Set(call.slot, o) /\ Tell(o.handle, {"eof"}) /\ gets' = gets
                    ELSE Deliver(call.slot, o)
  /\ Return
  /\ UNCHANGED <<session, resets, puts>>

InfoReply ==
  LET o == owner[call.slot] IN
  /\ Collected /\ Valid(device.reply) /\ call.stage = "info"
  /\ Tell(o.handle, (IF o.mode = "get" THEN {} ELSE {"committed"})
           \cup (IF o.mode # "put" /\ o.eof /\ o.pos >= Len(o.cache) THEN {"eof"} ELSE {}))
  /\ Return
  /\ UNCHANGED <<owner, session, resets, puts, gets>>

CloseReply ==
  LET o == owner[call.slot] IN
  /\ Collected /\ Valid(device.reply) /\ call.stage = "close"
  /\ Set(call.slot, [o EXCEPT !.iocb = Free])
  /\ Tell(o.handle, IF o.mode # "get" /\ call.result THEN {"committed"} ELSE {})
  /\ Return
  /\ UNCHANGED <<session, resets, puts, gets>>

-----------------------------------------------------------------------------
(* The FujiNet.  It trusts the order of the requests it gets: a WRITE is   *)
(* appended to the body and an empty WRITE commits it, whatever its offset.*)
(* Every request may also be refused, and any reply damaged.               *)

Replies(reply) ==
  device' \in {[device EXCEPT !.state = "ready", !.reply = r] :
                 r \in {NoReply, [reply EXCEPT !.good = TRUE,
                                             !.command = device.request.command,
                                             !.handle = device.request.handle]}}
Serving(command) == device.state = "busy" /\ device.request.command = command
IsOpen(h) == h \in Handles /\ session[h].state = "open"

ServeOpen ==
  /\ Serving("open")
  /\ \E h \in Handles :
       /\ session[h].state = "none" /\ \A g \in 1..(h - 1) : session[g].state # "none"
       /\ session' = [session EXCEPT ![h].state = "open", ![h].mode = device.request.mode]
       /\ device' \in {[device EXCEPT !.state = "ready", !.reply = r] :
                       r \in {NoReply, [NoReply EXCEPT !.good = TRUE, !.command = "open",
                                                      !.handle = h]}}
  /\ UNCHANGED <<local, resets, history>>

ServeWrite ==
  LET h == device.request.handle
      data == device.request.data
  IN
  /\ Serving("write") /\ IsOpen(h) /\ session[h].mode # "get"
  /\ \E k \in 0..Len(data) :
       /\ session' = [session EXCEPT ![h].body = @ \o SubSeq(data, 1, k),
                                     ![h].commits = IF data = <<>> THEN @ + 1 ELSE @]
       /\ Replies([NoReply EXCEPT !.count = k])
  /\ UNCHANGED <<local, resets, history>>

ServeRead ==
  LET h == device.request.handle
      from == device.request.offset
  IN
  /\ Serving("read") /\ IsOpen(h)
  /\ session[h].mode = "get" \/ (session[h].mode = "post" /\ session[h].commits > 0)
  /\ \E upto \in from..Len(Content) :
       /\ upto - from <= CacheSize
       /\ upto > from \/ upto = Len(Content)
       /\ \E eof \in {FALSE, upto = Len(Content)} :
            Replies([NoReply EXCEPT !.count = upto - from, !.eof = eof,
                                    !.data = SubSeq(Content, from + 1, upto)])
  /\ UNCHANGED <<local, session, resets, history>>

ServeInfo ==
  /\ Serving("info") /\ IsOpen(device.request.handle)
  /\ Replies(NoReply)
  /\ UNCHANGED <<local, session, resets, history>>

ServeClose ==
  LET h == device.request.handle IN
  /\ Serving("close") /\ IsOpen(h)
  /\ session' = [session EXCEPT ![h].state = "closed"]
  /\ Replies(NoReply)
  /\ UNCHANGED <<local, resets, history>>

Refuse ==
  /\ device.state = "busy"
  /\ device' = [device EXCEPT !.state = "ready"]
  /\ UNCHANGED <<local, session, resets, history>>

(* A restart forgets the transaction and ends every session.               *)
Restart ==
  /\ resets < MaxResets /\ resets' = resets + 1
  /\ device' = Idle
  /\ session' = [h \in Handles |-> IF session[h].state = "open"
                                   THEN [session[h] EXCEPT !.state = "closed"]
                                   ELSE session[h]]
  /\ UNCHANGED <<local, history>>

-----------------------------------------------------------------------------
CioCall ==
  \/ \E iocb \in Iocbs, mode \in Modes : Open(iocb, mode)
  \/ \E s \in Slots :
       \/ \E b \in Bytes : Put(s, b)
       \/ GetCached(s) \/ GetAtEnd(s) \/ GetMore(s) \/ Status(s) \/ Close(s)

Link == Recover \/ RecoverFails \/ Send \/ SendFails \/ Missing \/ NotCollected
Reply == BadReply \/ OpenReply \/ WriteReply \/ ReadReply \/ InfoReply \/ CloseReply
CallStep == Link \/ BadName \/ Reply
FujiNet == ServeOpen \/ ServeWrite \/ ServeRead \/ ServeInfo \/ ServeClose \/ Refuse

Next == CioCall \/ CallStep \/ FujiNet \/ Restart

(* A call in progress takes its next step: every wire exchange ends        *)
(* (ExchangeEnds of ResidentWire).  Nothing is assumed of the FujiNet.     *)
Spec == Init /\ [][Next]_vars /\ WF_vars(CallStep)

-----------------------------------------------------------------------------
IsPrefix(p, q) == Len(p) <= Len(q) /\ p = SubSeq(q, 1, Len(p))

OwnerRecord == [iocb : Iocbs \cup {Free}, mode : Modes, handle : Handles \cup {NoHandle},
                offset : Nat, cache : Seq(Bytes), pos : Nat, eof : BOOLEAN,
                fault : BOOLEAN, committed : BOOLEAN, reading : BOOLEAN]
CallRecord == [op : {"none", "open", "close", "get", "put", "status"},
               iocb : Iocbs \cup {Free}, slot : Slots, mode : Modes,
               stage : {"none", "open", "read", "write", "commit", "info", "close"},
               sent : BOOLEAN, result : BOOLEAN]
Commands == {"none", "open", "read", "write", "info", "close"}
RequestRecord == [command : Commands, handle : Handles \cup {NoHandle}, mode : Modes,
                  offset : Nat, data : Seq(Bytes)]
ReplyRecord == [good : BOOLEAN, command : Commands, handle : Handles \cup {NoHandle},
                count : Nat, data : Seq(Bytes), eof : BOOLEAN]
SessionRecord == [state : {"none", "open", "closed"}, mode : Modes,
                  body : Seq(Bytes), commits : Nat]

(* Types; and the cache never holds more than its size, POS never passes   *)
(* LEN.                                                                    *)
TypeOK ==
  /\ owner \in [Slots -> OwnerRecord]
  /\ \A s \in Slots : /\ Len(owner[s].cache) <= CacheSize
                       /\ owner[s].pos <= Len(owner[s].cache)
  /\ outstanding \in BOOLEAN
  /\ call \in CallRecord
  /\ device \in [state : {"idle", "busy", "ready"}, request : RequestRecord,
                 reply : ReplyRecord]
  /\ session \in [Handles -> SessionRecord]
  /\ resets \in 0..MaxResets
  /\ puts \in [Handles -> Seq(Bytes)]
  /\ gets \in [Handles -> Seq(Bytes)]
  /\ told \in [Handles -> SUBSET {"committed", "eof", "failed"}]

(* Every WRITE that reaches a session, at once or long after the resident  *)
(* gave up on it, carries the offset at which the body ends and continues  *)
(* the bytes the program PUT: no byte is skipped, repeated or reordered by *)
(* short acknowledgements, lost replies or late execution.                 *)
WriteContinues ==
  Serving("write") =>
    LET h == device.request.handle IN
    /\ device.request.offset = Len(session[h].body)
    /\ IsPrefix(session[h].body \o device.request.data, puts[h])

(* A session is committed at most once, and only when its body holds every *)
(* byte PUT accepted, whoever asked for the commit (STATUS, CLOSE or the   *)
(* first GET of a POST) and however often.                                 *)
CommitIsFinal == \A h \in Handles :
  session[h].commits > 0 => session[h].commits = 1 /\ session[h].body = puts[h]

(* A program that saw STATUS or CLOSE succeed on an output has all its     *)
(* bytes committed at the server; one that saw end of file has read the    *)
(* whole response.                                                         *)
ToldIsTrue == \A h \in Handles :
  /\ "committed" \in told[h] => session[h].commits = 1 /\ session[h].body = puts[h]
  /\ "eof" \in told[h] => gets[h] = Content

(* GET hands out the response from its first byte, each byte once and in   *)
(* order, across refills, failed READs and the switch from writing.        *)
ReadInOrder == \A h \in Handles : IsPrefix(gets[h], Content)

(* Once an exchange of an output failed, so that the program was told its  *)
(* bytes are in doubt, neither body nor commit is ever sent for that       *)
(* session again: not by STATUS, GET or CLOSE either.                      *)
FaultSilences ==
  [][device.state # "busy" /\ device'.state = "busy" /\ device'.request.command = "write"
     => "failed" \notin told[device'.request.handle]]_vars

(* No IOCB owns both records and no session is shared by two owners.       *)
OwnersApart == \A s, t \in Slots :
   s # t /\ owner[s].iocb # Free /\ owner[t].iocb # Free =>
     owner[s].iocb # owner[t].iocb /\ owner[s].handle # owner[t].handle

(* Every CIO call returns, whatever the FujiNet does or fails to do: short *)
(* acknowledgements cannot keep a flush going for ever.                    *)
CallsReturn == call # NoCall ~> call = NoCall

(* The handler implements the byte streams it promises.                    *)
Streams == INSTANCE ByteStreams WITH
  Sessions <- Handles,
  taken <- puts,
  body <- [h \in Handles |-> session[h].body],
  commits <- [h \in Handles |-> session[h].commits],
  given <- gets

KeepsStreams == Streams!Spec

=============================================================================

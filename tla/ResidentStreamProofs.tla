------------------------- MODULE ResidentStreamProofs -----------------------
(***************************************************************************)
(* ResidentStream keeps its types, continues every body where it ends,     *)
(* commits it once and whole, keeps its two owners apart and sends nothing *)
(* more after a fault, for every number of IOCBs and sessions, every cache *)
(* size, content and number of restarts.  The inductive invariant is       *)
(* StreamInv: a body is a start of what was PUT, and the cache of an owner *)
(* that may still write is the rest, from its offset on, but for what a    *)
(* WRITE in flight has brought already.                                    *)
(* The second part proves what is about reading and being told, and that   *)
(* the handler implements the byte streams of ByteStreams (ReadInv).       *)
(***************************************************************************)
EXTENDS ResidentStream, SequenceTheorems, TLAPS

-----------------------------------------------------------------------------
(* b is the start of p, and d what is left of it from n on.                *)
IsStart(b, p) == Len(b) <= Len(p) /\ b = SubSeq(p, 1, Len(b))
IsRest(d, n, p) == n \in 0..Len(p) /\ d = SubSeq(p, n + 1, Len(p))

LEMMA Rests ==
  ASSUME NEW S, NEW p \in Seq(S), NEW d, NEW n, IsRest(d, n, p)
  PROVE  /\ d \in Seq(S) /\ Len(d) = Len(p) - n /\ n \in Nat
         /\ \A i \in 1..Len(d) : d[i] = p[n + i]
<1>1. n \in Nat /\ n <= Len(p) /\ d = SubSeq(p, n + 1, Len(p)) /\ Len(p) \in Nat
  BY LenProperties DEF IsRest
<1>2. \A i \in (n + 1)..Len(p) : p[i] \in S
  BY <1>1, ElementOfSeq
<1>3. /\ d \in Seq(S) /\ Len(d) = IF n + 1 <= Len(p) THEN Len(p) - (n + 1) + 1 ELSE 0
      /\ \A i \in 1..(Len(p) - (n + 1) + 1) : d[i] = p[(n + 1) + i - 1]
  BY <1>1, <1>2, SubSeqProperties
<1>4. QED  BY <1>1, <1>3

LEMMA RestIs ==
  ASSUME NEW S, NEW p \in Seq(S), NEW d \in Seq(S), NEW n \in Nat,
         Len(d) = Len(p) - n, \A i \in 1..Len(d) : d[i] = p[n + i]
  PROVE  IsRest(d, n, p)
<1>1. Len(p) \in Nat /\ Len(d) \in Nat /\ n \in 0..Len(p)
  BY LenProperties
<1> DEFINE r == SubSeq(p, n + 1, Len(p))
<1>2. IsRest(r, n, p)
  BY <1>1 DEF IsRest
<1>3. r \in Seq(S) /\ Len(r) = Len(d) /\ \A i \in 1..Len(d) : r[i] = d[i]
  BY <1>2, Rests
<1> HIDE DEF r
<1>4. d = r
  BY <1>3, SeqEqual
<1>5. QED  BY <1>2, <1>4

LEMMA RestAppend ==
  ASSUME NEW S, NEW p \in Seq(S), NEW d, NEW n, IsRest(d, n, p), NEW x \in S
  PROVE  IsRest(Append(d, x), n, Append(p, x))
<1>1. d \in Seq(S) /\ Len(d) = Len(p) - n /\ n \in Nat /\ \A i \in 1..Len(d) : d[i] = p[n + i]
  BY Rests
<1> DEFINE dx == Append(d, x)  px == Append(p, x)
<1>2. Len(p) \in Nat /\ Len(d) \in Nat
  BY <1>1, LenProperties
<1>3. /\ dx \in Seq(S) /\ Len(dx) = Len(d) + 1 /\ px \in Seq(S) /\ Len(px) = Len(p) + 1
      /\ \A i \in 1..(Len(d) + 1) : dx[i] = px[n + i]
  BY <1>1
<1> HIDE DEF dx, px
<1>4. Len(dx) = Len(px) - n /\ \A i \in 1..Len(dx) : dx[i] = px[n + i]
  BY <1>1, <1>2, <1>3
<1>5. IsRest(dx, n, px)
  BY <1>1, <1>3, <1>4, RestIs
<1>6. QED  BY <1>5 DEF dx, px

LEMMA StartAppend ==
  ASSUME NEW S, NEW p \in Seq(S), NEW b \in Seq(S), IsStart(b, p), NEW x \in S
  PROVE  IsStart(b, Append(p, x))
<1>1. Len(p) \in Nat /\ Len(b) \in Nat /\ Len(b) <= Len(p) /\ b = SubSeq(p, 1, Len(b))
  BY LenProperties DEF IsStart
<1>2. Append(p, x) \in Seq(S) /\ Len(Append(p, x)) = Len(p) + 1
      /\ \A i \in 1..Len(b) : Append(p, x)[i] = p[i] /\ p[i] \in S
  BY <1>1
<1> DEFINE c == SubSeq(Append(p, x), 1, Len(b))
<1>3. Len(c) = Len(b) /\ c \in Seq(S) /\ \A i \in 1..Len(b) : c[i] = Append(p, x)[i]
  BY <1>1, <1>2, SubSeqProperties
<1>4. \A i \in 1..Len(b) : b[i] = p[i]
  BY <1>1, <1>2, SubSeqProperties
<1> HIDE DEF c
<1>5. c = b
  BY <1>2, <1>3, <1>4, SeqEqual
<1>6. QED  BY <1>1, <1>2, <1>5 DEF IsStart, c

LEMMA Starts ==
  ASSUME NEW S, NEW p \in Seq(S), NEW b \in Seq(S)
  PROVE  IsStart(b, p) <=> Len(b) <= Len(p) /\ \A i \in 1..Len(b) : b[i] = p[i]
<1>1. Len(p) \in Nat /\ Len(b) \in Nat /\ \A i \in 1..Len(p) : p[i] \in S
  BY LenProperties, ElementOfSeq
<1> DEFINE c == SubSeq(p, 1, Len(b))
<1>2. ASSUME Len(b) <= Len(p)
      PROVE  c \in Seq(S) /\ Len(c) = Len(b) /\ \A i \in 1..Len(b) : c[i] = p[i]
  BY <1>1, <1>2, SubSeqProperties
<1> HIDE DEF c
<1>3. ASSUME Len(b) <= Len(p), \A i \in 1..Len(b) : b[i] = p[i]
      PROVE  b = c
  BY <1>2, <1>3, SeqEqual
<1>4. QED  BY <1>1, <1>2, <1>3 DEF IsStart, c

(* The next k bytes of the rest continue the start.                        *)
LEMMA Advances ==
  ASSUME NEW S, NEW p \in Seq(S), NEW b \in Seq(S), NEW d,
         IsStart(b, p), IsRest(d, Len(b), p), NEW k \in 0..Len(d)
  PROVE  /\ b \o SubSeq(d, 1, k) \in Seq(S) /\ IsStart(b \o SubSeq(d, 1, k), p)
         /\ Len(b \o SubSeq(d, 1, k)) = Len(b) + k
<1>1. /\ Len(p) \in Nat /\ Len(b) \in Nat /\ Len(b) <= Len(p) /\ \A i \in 1..Len(b) : b[i] = p[i]
      /\ d \in Seq(S) /\ Len(d) = Len(p) - Len(b) /\ \A i \in 1..Len(d) : d[i] = p[Len(b) + i]
  BY LenProperties, Starts, Rests
<1>2. \A i \in 1..Len(d) : d[i] \in S
  BY <1>1, ElementOfSeq
<1> DEFINE e == SubSeq(d, 1, k)
<1>3. e \in Seq(S) /\ Len(e) = k /\ \A i \in 1..k : e[i] = d[i]
  BY <1>1, <1>2, SubSeqProperties
<1> HIDE DEF e
<1>4. /\ b \o e \in Seq(S) /\ Len(b \o e) = Len(b) + k
      /\ \A i \in 1..(Len(b) + k) : (b \o e)[i] = IF i <= Len(b) THEN b[i] ELSE e[i - Len(b)]
  BY <1>3, ConcatProperties
<1> DEFINE c == b \o e
<1> HIDE DEF c
<1>5. ASSUME NEW i \in 1..(Len(b) + k)
      PROVE  c[i] = p[i]
  <2>1. CASE i <= Len(b)
    BY <1>1, <1>4, <2>1 DEF c
  <2>2. CASE i > Len(b)
    <3>1. i - Len(b) \in 1..k /\ i - Len(b) \in 1..Len(d) /\ Len(b) + (i - Len(b)) = i
      BY <1>1, <2>2
    <3>2. c[i] = e[i - Len(b)]
      BY <1>1, <1>4, <2>2 DEF c
    <3>3. e[i - Len(b)] = d[i - Len(b)] /\ d[i - Len(b)] = p[Len(b) + (i - Len(b))]
      BY <1>1, <1>3, <3>1
    <3>4. QED  BY <3>1, <3>2, <3>3
  <2>3. QED  BY <1>1, <2>1, <2>2
<1>6. IsStart(c, p)
  <2>1. c \in Seq(S) /\ Len(c) = Len(b) + k /\ Len(c) <= Len(p)
    BY <1>1, <1>4 DEF c
  <2>2. \A i \in 1..Len(c) : c[i] = p[i]
    BY <1>5, <2>1
  <2>3. QED  BY <2>1, <2>2, Starts
<1>7. QED  BY <1>4, <1>6 DEF e, c

LEMMA RestOfRest ==
  ASSUME NEW S, NEW p \in Seq(S), NEW d, NEW n, IsRest(d, n, p), NEW k \in 0..Len(d)
  PROVE  /\ IsRest(SubSeq(d, k + 1, Len(d)), n + k, p)
         /\ Len(SubSeq(d, k + 1, Len(d))) = Len(d) - k
<1>1. /\ d \in Seq(S) /\ Len(d) = Len(p) - n /\ n \in Nat /\ Len(d) \in Nat /\ Len(p) \in Nat
      /\ \A i \in 1..Len(d) : d[i] = p[n + i]
  BY Rests, LenProperties
<1> DEFINE e == SubSeq(d, k + 1, Len(d))
<1>2. IsRest(e, k, d)
  BY <1>1 DEF IsRest
<1> HIDE DEF e
<1>3. e \in Seq(S) /\ Len(e) = Len(d) - k /\ \A i \in 1..Len(e) : e[i] = d[k + i]
  <2>1. d \in Seq(S)
    BY <1>1
  <2>2. QED  BY <1>2, <2>1, Rests
<1>4. ASSUME NEW i \in 1..Len(e) PROVE e[i] = p[(n + k) + i]
  <2>1. k + i \in 1..Len(d) /\ n + (k + i) = (n + k) + i
    BY <1>1, <1>3
  <2>2. QED  BY <1>1, <1>3, <2>1
<1>5. n + k \in Nat /\ Len(e) = Len(p) - (n + k)
  BY <1>1, <1>3
<1>6. IsRest(e, n + k, p)
  BY <1>3, <1>4, <1>5, RestIs
<1>7. QED  BY <1>3, <1>6 DEF e

LEMMA StartIsAll ==
  ASSUME NEW S, NEW p \in Seq(S), NEW b, IsStart(b, p), Len(b) = Len(p)
  PROVE  b = p
BY SubSeqFull DEF IsStart

LEMMA Whole ==
  ASSUME NEW S, NEW p \in Seq(S)
  PROVE  IsStart(<<>>, p) /\ IsStart(p, p) /\ IsRest(p, 0, p) /\ IsRest(<<>>, Len(p), p)
<1> DEFINE e == <<>>
<1>1. Len(p) \in Nat /\ e \in Seq(S) /\ Len(e) = 0
  BY EmptySeq, LenProperties
<1> HIDE DEF e
<1>2. IsStart(e, p)
  <2>1. Len(e) <= Len(p) /\ \A i \in 1..Len(e) : e[i] = p[i]
    BY <1>1
  <2>2. QED  BY <1>1, <2>1, Starts
<1>3. IsStart(p, p)
  BY <1>1, SubSeqFull DEF IsStart
<1>4. IsRest(p, 0, p)
  BY <1>1, SubSeqFull DEF IsRest
<1>5. IsRest(e, Len(p), p)
  <2>1. Len(e) = Len(p) - Len(p) /\ \A i \in 1..Len(e) : e[i] = p[Len(p) + i]
    BY <1>1
  <2>2. QED  BY <1>1, <2>1, RestIs
<1>6. QED  BY <1>2, <1>3, <1>4, <1>5 DEF e

-----------------------------------------------------------------------------
(* The parts of the inductive invariant.                                   *)
Used(s) == owner[s].iocb # Free
AtWrite == call.stage \in {"write", "commit"}
(* Bytes may still be sent for this owner.                                 *)
Writing(s) ==
  Used(s) /\ owner[s].mode # "get" /\ ~owner[s].fault /\ ~owner[s].committed
InFlight(s) == call # NoCall /\ call.sent /\ call.slot = s /\ AtWrite
DeviceWrites(h) == Serving("write") /\ device.request.handle = h

(* Nothing was ever done with a session.                                   *)
Fresh(h) ==
  /\ puts[h] = <<>> /\ gets[h] = <<>> /\ told[h] = {}
  /\ session[h].body = <<>> /\ session[h].commits = 0
  /\ ~DeviceWrites(h)
  /\ \A s \in Slots : Used(s) => owner[s].handle # h

TypeInv ==
  /\ owner \in [Slots -> OwnerRecord]
  /\ outstanding \in BOOLEAN
  /\ call \in CallRecord
  /\ device \in [state : {"idle", "busy", "ready"}, request : RequestRecord,
                 reply : ReplyRecord]
  /\ session \in [Handles -> SessionRecord]
  /\ resets \in 0..MaxResets
  /\ puts \in [Handles -> Seq(Bytes)]
  /\ gets \in [Handles -> Seq(Bytes)]
  /\ told \in [Handles -> SUBSET {"committed", "eof", "failed"}]

(* What the stage of a call says of the call and of its owner.             *)
CallInv ==
  /\ (call = NoCall) <=> (call.stage = "none")
  /\ call # NoCall /\ call.stage # "open" => Used(call.slot)
  /\ call.stage = "open" =>
       /\ call.op = "open" /\ ~Used(call.slot) /\ call.iocb # Free
       /\ \A s \in Slots : owner[s].iocb # call.iocb
  /\ AtWrite => /\ Writing(call.slot)
                /\ call.stage = "commit" <=> owner[call.slot].cache = <<>>
                /\ call.op = "put" => call.stage = "write"
                /\ call.op = "get" => owner[call.slot].mode = "post"
                /\ call.op \in {"put", "get", "status", "close"}
  /\ call.stage = "close" => call.op = "close"
  /\ call.stage \in {"info", "close"} /\ owner[call.slot].mode # "get" /\ call.result =>
       owner[call.slot].committed
  /\ ~call.result => call.stage = "close"
  /\ call.stage = "read" => ~Writing(call.slot)

(* The device holds nothing unless a transaction is outstanding; what it   *)
(* holds while a call waits is that call's.                                *)
LinkInv ==
  /\ ~outstanding => device.state = "idle"
  /\ call # NoCall /\ call.sent => outstanding
  /\ call # NoCall /\ call.sent /\ device.state # "idle" => device.request = RequestOf(call)
  /\ device.state = "busy" => device.reply = NoReply

(* Two owners share neither an IOCB nor a session.                         *)
OwnerInv ==
  /\ \A s \in Slots : Used(s) =>
       /\ owner[s].handle \in Handles /\ session[owner[s].handle].state # "none"
       /\ owner[s].reading => owner[s].committed /\ owner[s].mode = "post"
       /\ owner[s].committed => owner[s].mode # "get" /\ session[owner[s].handle].commits = 1
  /\ OwnersApart

(* A body is a start of what was put, committed only when it is all of it. *)
SessionInv ==
  \A h \in Handles :
    /\ IsStart(session[h].body, puts[h])
    /\ session[h].commits > 0 => session[h].commits = 1 /\ session[h].body = puts[h]
    /\ session[h].state = "none" => Fresh(h)
    /\ "committed" \in told[h] => session[h].commits = 1

(* A WRITE the device may carry out, however late, is what is left.        *)
DeviceInv ==
  /\ Serving("write") =>
       LET h == device.request.handle IN
       /\ h \in Handles /\ session[h].commits = 0
       /\ device.request.offset = Len(session[h].body)
       /\ IsRest(device.request.data, Len(session[h].body), puts[h])
       /\ \A s \in Slots : Writing(s) /\ owner[s].handle = h => InFlight(s)
  /\ device.state = "ready" /\ device.reply.good /\ device.request.command = "open" =>
       device.reply.handle \in Handles /\ (call # NoCall /\ call.sent =>
         Fresh(device.reply.handle) /\ session[device.reply.handle].state # "none")

(* The cache of an owner that may write is what its session lacks, but for *)
(* what a WRITE in flight has brought already.                             *)
CacheInv ==
  \A s \in Slots : Writing(s) =>
    LET o == owner[s]  h == owner[s].handle IN
    /\ IsRest(o.cache, o.offset, puts[h])
    /\ "failed" \notin told[h]
    /\ ~InFlight(s) => session[h].commits = 0 /\ Len(session[h].body) = o.offset
    /\ InFlight(s) /\ device.state = "busy" =>
         session[h].commits = 0 /\ Len(session[h].body) = o.offset
    /\ InFlight(s) /\ device.state = "ready" /\ device.reply.good =>
         /\ device.reply.count <= Len(o.cache)
         /\ Len(session[h].body) = o.offset + device.reply.count
         /\ session[h].commits = IF call.stage = "commit" THEN 1 ELSE 0

(* The caches keep their bounds.                                           *)
SizeInv ==
  /\ \A s \in Slots :
       /\ Len(owner[s].cache) <= CacheSize /\ owner[s].pos <= Len(owner[s].cache)
       /\ Writing(s) => owner[s].pos = 0
       /\ Writing(s) /\ ~(call.slot = s /\ AtWrite) => Len(owner[s].cache) < CacheSize
  /\ device.state = "ready" /\ device.reply.good /\ device.request.command = "read" =>
       Len(device.reply.data) = device.reply.count

StreamInv ==
  /\ TypeInv /\ CallInv /\ LinkInv /\ OwnerInv /\ SessionInv /\ DeviceInv /\ CacheInv /\ SizeInv

-----------------------------------------------------------------------------
(* Records: what the updates of an owner and of a call leave.              *)
Ops == {"none", "open", "close", "get", "put", "status"}
Stages == {"none", "open", "read", "write", "commit", "info", "close"}

LEMMA Sizes ==
  /\ CacheSize \in Nat /\ CacheSize > 0 /\ Content \in Seq(Bytes) /\ Free \notin Iocbs
  /\ MaxSessions \in Nat /\ <<>> \in Seq(Bytes) /\ Len(<<>>) = 0
  /\ NoHandle \notin Handles /\ Slots = {0, 1}
BY StreamAssumption, EmptySeq DEF NoHandle, Handles, Slots

LEMMA Lengths ==
  ASSUME NEW q \in Seq(Bytes)
  PROVE  Len(q) \in Nat /\ (q = <<>> <=> Len(q) = 0)
BY LenProperties, EmptySeq

LEMMA NoCallTypes ==
  /\ NoCall \in CallRecord /\ NoCall.stage = "none" /\ NoCall.op = "none" /\ ~NoCall.sent
  /\ NoCall.result /\ NoCall.slot = 0
BY DEF NoCall, CallRecord, Slots, Modes

LEMMA Calls ==
  ASSUME TypeInv, NEW s \in Slots, NEW op \in Ops
  PROVE  /\ Call(op, s) \in CallRecord /\ Call(op, s).op = op /\ Call(op, s).slot = s
         /\ Call(op, s).iocb = owner[s].iocb /\ Call(op, s).result
         /\ Call(op, s).stage = "none"
<1>1. owner[s].iocb \in Iocbs \cup {Free}
  BY DEF TypeInv, OwnerRecord
<1>2. QED  BY <1>1 DEF Call, NoCall, CallRecord, Slots, Modes, Ops

LEMMA Exchanges ==
  ASSUME NEW c \in CallRecord, NEW stage \in Stages, Exchange(c, stage)
  PROVE  /\ call' \in CallRecord /\ call'.stage = stage /\ ~call'.sent
         /\ call'.op = c.op /\ call'.slot = c.slot /\ call'.iocb = c.iocb
         /\ call'.result = c.result /\ call'.mode = c.mode
         /\ stage # "none" => call' # NoCall
BY DEF Exchange, CallRecord, Stages, NoCall

LEMMA Returns ==
  ASSUME Return
  PROVE  /\ call' = NoCall /\ call' \in CallRecord /\ call'.stage = "none" /\ ~call'.sent
         /\ call'.result /\ call'.op = "none"
BY NoCallTypes DEF Return

(* One owner changes.                                                      *)
LEMMA SetsOwner ==
  ASSUME owner \in [Slots -> OwnerRecord], NEW s \in Slots, NEW o \in OwnerRecord, Set(s, o)
  PROVE  /\ owner' \in [Slots -> OwnerRecord] /\ owner'[s] = o
         /\ \A t \in Slots : t # s => owner'[t] = owner[t]
BY DEF Set

(* An owner that changes only in what a program sees of its reading.       *)
SameWriter(o, p) ==
  /\ o.iocb = p.iocb /\ o.handle = p.handle /\ o.mode = p.mode
  /\ o.fault = p.fault /\ o.committed = p.committed

LEMMA Rewinds ==
  ASSUME NEW o \in OwnerRecord
  PROVE  /\ RewindForReading(o) \in OwnerRecord /\ SameWriter(RewindForReading(o), o)
         /\ RewindForReading(o).reading /\ RewindForReading(o).cache = <<>>
         /\ RewindForReading(o).pos = 0 /\ RewindForReading(o).offset = 0
         /\ ~RewindForReading(o).eof
<1> DEFINE p == [o EXCEPT !.offset = 0]  q == [p EXCEPT !.cache = <<>>]
           r == [q EXCEPT !.pos = 0]     t == [r EXCEPT !.eof = FALSE]
           u == [t EXCEPT !.reading = TRUE]
<1>1. RewindForReading(o) = u
  BY DEF RewindForReading, OwnerRecord
<1>2. p \in OwnerRecord /\ SameWriter(p, o) /\ p.offset = 0
  BY DEF OwnerRecord, SameWriter
<1>3. q \in OwnerRecord /\ SameWriter(q, p) /\ q.cache = <<>> /\ q.offset = p.offset
  BY <1>2, Sizes DEF OwnerRecord, SameWriter
<1>4. r \in OwnerRecord /\ SameWriter(r, q) /\ r.cache = q.cache /\ r.pos = 0
      /\ r.offset = q.offset
  BY <1>3 DEF OwnerRecord, SameWriter
<1>5. t \in OwnerRecord /\ SameWriter(t, r) /\ t.cache = r.cache /\ t.pos = r.pos
      /\ t.offset = r.offset /\ ~t.eof
  BY <1>4 DEF OwnerRecord, SameWriter
<1>6. u \in OwnerRecord /\ SameWriter(u, t) /\ u.cache = t.cache /\ u.pos = t.pos /\ u.reading
      /\ u.offset = t.offset /\ ~u.eof
  BY <1>5 DEF OwnerRecord, SameWriter
<1> HIDE DEF p, q, r, t, u
<1>7. QED  BY <1>1, <1>2, <1>3, <1>4, <1>5, <1>6 DEF SameWriter

LEMMA Fails ==
  ASSUME NEW o \in OwnerRecord, NEW c
  PROVE  /\ AfterFailure(c, o) \in OwnerRecord
         /\ AfterFailure(c, o).iocb = IF c.stage = "close" THEN Free ELSE o.iocb
         /\ AfterFailure(c, o).fault = (o.fault \/ c.stage \in {"write", "commit"})
         /\ AfterFailure(c, o).handle = o.handle /\ AfterFailure(c, o).mode = o.mode
         /\ AfterFailure(c, o).committed = o.committed /\ AfterFailure(c, o).reading = o.reading
         /\ AfterFailure(c, o).cache = o.cache /\ AfterFailure(c, o).pos = o.pos
         /\ AfterFailure(c, o).offset = o.offset /\ AfterFailure(c, o).eof = o.eof
<1> DEFINE p == [o EXCEPT !.fault = @ \/ c.stage \in {"write", "commit"}]
           q == [p EXCEPT !.iocb = IF c.stage = "close" THEN Free ELSE @]
<1>1. AfterFailure(c, o) = q
  BY DEF AfterFailure, OwnerRecord
<1>2. /\ p \in OwnerRecord /\ p.iocb = o.iocb
      /\ p.fault = (o.fault \/ c.stage \in {"write", "commit"})
      /\ p.handle = o.handle /\ p.mode = o.mode /\ p.committed = o.committed
      /\ p.reading = o.reading /\ p.cache = o.cache /\ p.pos = o.pos /\ p.offset = o.offset
      /\ p.eof = o.eof
  BY DEF OwnerRecord
<1> HIDE DEF p
<1>3. /\ q \in OwnerRecord /\ q.iocb = IF c.stage = "close" THEN Free ELSE p.iocb
      /\ q.fault = p.fault
      /\ q.handle = p.handle /\ q.mode = p.mode /\ q.committed = p.committed
      /\ q.reading = p.reading /\ q.cache = p.cache /\ q.pos = p.pos /\ q.offset = p.offset
      /\ q.eof = p.eof
  <2> DEFINE new == IF c.stage = "close" THEN Free ELSE p.iocb
  <2>1. q = [p EXCEPT !.iocb = new] /\ new \in Iocbs \cup {Free}
    BY <1>2 DEF OwnerRecord
  <2> HIDE DEF new, q
  <2>2. QED  BY <1>2, <2>1 DEF OwnerRecord, new
<1> HIDE DEF q
<1>4. QED  BY <1>1, <1>2, <1>3

LEMMA Requests ==
  ASSUME TypeInv, call # NoCall, call.slot \in Slots, call.stage # "none"
  PROVE  /\ RequestOf(call) \in RequestRecord
         /\ RequestOf(call).command = IF AtWrite THEN "write" ELSE call.stage
         /\ call.stage # "open" => /\ RequestOf(call).handle = owner[call.slot].handle
                                   /\ RequestOf(call).offset = owner[call.slot].offset
                                   /\ RequestOf(call).data = IF call.stage = "write"
                                        THEN owner[call.slot].cache ELSE <<>>
<1>1. /\ call \in CallRecord /\ owner[call.slot] \in OwnerRecord
  BY DEF TypeInv
<1>2. CASE call.stage = "open"
  BY <1>1, <1>2, Sizes DEF RequestOf, NoRequest, RequestRecord, CallRecord, Commands, AtWrite
<1>3. CASE call.stage # "open"
  <2>1. /\ owner[call.slot].handle \in Handles \cup {NoHandle}
        /\ owner[call.slot].offset \in Nat /\ owner[call.slot].cache \in Seq(Bytes)
        /\ call.stage \in Stages \ {"none", "open"} /\ "get" \in Modes
    BY <1>1, <1>3 DEF OwnerRecord, CallRecord, Stages, Modes
  <2>2. QED
    BY <1>3, <2>1, Sizes DEF RequestOf, RequestRecord, Commands, AtWrite, Stages
<1>4. QED  BY <1>2, <1>3


-----------------------------------------------------------------------------
(* A step that leaves the sessions, and what may still be written to them, *)
(* alone; owners may be freed, faulted or change in what they read.        *)
Steady(s) ==
  /\ owner'[s].iocb \in {owner[s].iocb, Free}
  /\ owner'[s].handle = owner[s].handle /\ owner'[s].mode = owner[s].mode
  /\ owner'[s].committed = owner[s].committed
  /\ owner[s].fault => owner'[s].fault
  /\ owner'[s].reading => owner[s].reading \/ (owner[s].committed /\ owner[s].mode = "post")
  /\ (Writing(s))' => /\ ~InFlight(s)
                      /\ owner'[s].cache = owner[s].cache
                      /\ owner'[s].pos = owner[s].pos
                      /\ owner'[s].offset = owner[s].offset
                      /\ "failed" \notin told'[owner[s].handle]

History ==
  /\ gets' \in [Handles -> Seq(Bytes)]
  /\ told' \in [Handles -> SUBSET {"committed", "eof", "failed"}]
  /\ \A h \in Handles :
       /\ gets'[h] # gets[h] \/ told'[h] # told[h] => session[h].state # "none"
       /\ "committed" \in told'[h] => "committed" \in told[h] \/ session[h].commits = 1

LEMMA SteadyWriters ==
  ASSUME NEW s \in Slots, Steady(s), (Writing(s))'
  PROVE  Writing(s)
BY DEF Steady, Writing, Used

LEMMA Quiet ==
  ASSUME StreamInv, owner' \in [Slots -> OwnerRecord], \A s \in Slots : Steady(s),
         call' # NoCall => ~call'.sent,
         UNCHANGED <<session, puts>>, History,
         (Serving("write"))' =>
           device' = device \/ session[device'.request.handle].state # "none"
  PROVE  OwnerInv' /\ SessionInv' /\ CacheInv'
<1>1. session' = session /\ puts' = puts
  OBVIOUS
<1>2. \A s \in Slots : /\ owner'[s].handle = owner[s].handle
                       /\ (Used(s))' => Used(s)
                       /\ (Writing(s))' => Writing(s)
                       /\ ~(InFlight(s))'
  BY SteadyWriters DEF Steady, Used, InFlight
<1>3. OwnerInv'
  <2>1. OwnersApart'
    BY <1>2 DEF StreamInv, OwnerInv, OwnersApart, Steady, Used
  <2>2. ASSUME NEW s \in Slots, (Used(s))'
        PROVE  /\ owner'[s].handle \in Handles /\ session'[owner'[s].handle].state # "none"
               /\ owner'[s].reading => owner'[s].committed /\ owner'[s].mode = "post"
               /\ owner'[s].committed => /\ owner'[s].mode # "get"
                                         /\ session'[owner'[s].handle].commits = 1
    BY <1>1, <1>2, <2>2 DEF StreamInv, OwnerInv, Steady
  <2>3. QED  BY <2>1, <2>2 DEF OwnerInv
<1>4. SessionInv'
  <2> SUFFICES ASSUME NEW h \in Handles
               PROVE  /\ IsStart(session'[h].body, puts'[h])
                      /\ session'[h].commits > 0 => /\ session'[h].commits = 1
                                                    /\ session'[h].body = puts'[h]
                      /\ session'[h].state = "none" => (Fresh(h))'
                      /\ "committed" \in told'[h] => session'[h].commits = 1
    BY DEF SessionInv
  <2>1. /\ IsStart(session[h].body, puts[h])
        /\ session[h].commits > 0 => session[h].commits = 1 /\ session[h].body = puts[h]
        /\ session[h].state = "none" => Fresh(h)
        /\ "committed" \in told[h] => session[h].commits = 1
    BY DEF StreamInv, SessionInv
  <2>2. ASSUME session[h].state = "none" PROVE (Fresh(h))'
    <3>1. Fresh(h) /\ gets'[h] = gets[h] /\ told'[h] = told[h]
      BY <2>1, <2>2 DEF History
    <3>2. ~(DeviceWrites(h))'
      BY <2>2, <3>1 DEF DeviceWrites, Serving, Fresh
    <3>3. \A s \in Slots : (Used(s))' => owner'[s].handle # h
      BY <1>2, <3>1 DEF Fresh
    <3>4. QED  BY <1>1, <3>1, <3>2, <3>3 DEF Fresh
  <2>3. QED  BY <1>1, <2>1, <2>2 DEF History
<1>5. CacheInv'
  <2> SUFFICES ASSUME NEW s \in Slots, (Writing(s))'
               PROVE  /\ IsRest(owner'[s].cache, owner'[s].offset, puts'[owner'[s].handle])
                      /\ "failed" \notin told'[owner'[s].handle]
                      /\ session'[owner'[s].handle].commits = 0
                      /\ Len(session'[owner'[s].handle].body) = owner'[s].offset
    BY <1>2 DEF CacheInv
  <2>1. Writing(s) /\ ~InFlight(s) /\ owner'[s].cache = owner[s].cache
        /\ owner'[s].offset = owner[s].offset /\ owner'[s].handle = owner[s].handle
        /\ "failed" \notin told'[owner[s].handle]
    BY SteadyWriters DEF Steady
  <2>2. /\ IsRest(owner[s].cache, owner[s].offset, puts[owner[s].handle])
        /\ session[owner[s].handle].commits = 0
        /\ Len(session[owner[s].handle].body) = owner[s].offset
    BY <2>1 DEF StreamInv, CacheInv
  <2>3. QED  BY <1>1, <2>1, <2>2
<1>6. QED  BY <1>3, <1>4, <1>5

LEMMA QuietDevice ==
  ASSUME StreamInv, owner' \in [Slots -> OwnerRecord], \A s \in Slots : Steady(s),
         call' # NoCall => ~call'.sent,
         UNCHANGED <<session, puts>>,
         device' = device \/ (device'.state # "ready" /\ ~(Serving("write"))')
  PROVE  DeviceInv'
<1>1. CASE device' # device
  BY <1>1 DEF DeviceInv
<1>2. CASE device' = device
  <2>1. ASSUME device'.state = "ready", device'.reply.good, device'.request.command = "open"
        PROVE  device'.reply.handle \in Handles
    BY <1>2, <2>1 DEF StreamInv, DeviceInv
  <2>2. ASSUME (Serving("write"))'
        PROVE  LET h == device'.request.handle IN
               /\ h \in Handles /\ session'[h].commits = 0
               /\ device'.request.offset = Len(session'[h].body)
               /\ IsRest(device'.request.data, Len(session'[h].body), puts'[h])
               /\ \A s \in Slots : (Writing(s))' => owner'[s].handle # h
    <3>1. Serving("write") /\ device' = device /\ session' = session /\ puts' = puts
      BY <1>2, <2>2 DEF Serving
    <3>2. \A s \in Slots : (Writing(s))' => owner[s].handle # device.request.handle
      BY <3>1, SteadyWriters DEF StreamInv, DeviceInv, Steady
    <3>3. QED  BY <3>1, <3>2 DEF StreamInv, DeviceInv, Steady
  <2>3. QED  BY <2>1, <2>2 DEF DeviceInv
<1>3. QED  BY <1>1, <1>2

Flushing(s) == call.slot = s /\ AtWrite

(* A step after which nothing is in flight.                                *)
QuietStep ==
  /\ owner' \in [Slots -> OwnerRecord]
  /\ \A s \in Slots :
       /\ Steady(s)
       /\ Len(owner'[s].cache) <= CacheSize /\ owner'[s].pos <= Len(owner'[s].cache)
       /\ (Writing(s))' /\ Flushing(s) => (Flushing(s))'
  /\ call' \in CallRecord /\ ~call'.sent /\ CallInv'
  /\ UNCHANGED <<session, resets, puts>> /\ History
  /\ outstanding' \in BOOLEAN /\ (~outstanding' => device'.state = "idle")

DeviceRecord == [state : {"idle", "busy", "ready"}, request : RequestRecord, reply : ReplyRecord]

LEMMA Devices ==
  /\ Idle \in DeviceRecord /\ Idle.state = "idle"
  /\ \A r \in RequestRecord : /\ Busy(r) \in DeviceRecord /\ Busy(r).state = "busy"
                              /\ Busy(r).request = r /\ Busy(r).reply = NoReply
<1>1. NoReply \in ReplyRecord /\ NoRequest \in RequestRecord
  BY Sizes DEF NoReply, ReplyRecord, NoRequest, RequestRecord, Commands, Modes
<1>2. QED  BY <1>1 DEF Idle, Busy, DeviceRecord

LEMMA QuietRest ==
  ASSUME StreamInv, QuietStep, device' \in DeviceRecord,
         device'.state = "ready" => device' = device,
         device'.state = "busy" => device'.reply = NoReply,
         DeviceInv',
         (Serving("write"))' =>
           device' = device \/ session[device'.request.handle].state # "none"
  PROVE  StreamInv'
<1>1. TypeInv'
  BY DEF StreamInv, TypeInv, QuietStep, History, DeviceRecord
<1>2. OwnerInv' /\ SessionInv' /\ CacheInv'
  BY Quiet DEF QuietStep
<1>3. LinkInv'
  BY DEF QuietStep, LinkInv
<1>4. SizeInv'
  <2>1. ASSUME NEW s \in Slots, (Writing(s))', ~(Flushing(s))'
        PROVE  Len(owner'[s].cache) < CacheSize
    <3>1. Writing(s) /\ ~Flushing(s) /\ owner'[s].cache = owner[s].cache
      BY <2>1, SteadyWriters DEF QuietStep, Steady
    <3>2. QED  BY <3>1 DEF StreamInv, SizeInv, Flushing
  <2>2. device'.state = "ready" /\ device'.reply.good /\ device'.request.command = "read" =>
          Len(device'.reply.data) = device'.reply.count
    BY DEF StreamInv, SizeInv
  <2>3. ASSUME NEW s \in Slots, (Writing(s))' PROVE owner'[s].pos = 0
    BY <2>3, SteadyWriters DEF QuietStep, Steady, StreamInv, SizeInv
  <2>4. QED  BY <2>1, <2>2, <2>3 DEF QuietStep, SizeInv, Flushing
<1>5. QED  BY <1>1, <1>2, <1>3, <1>4 DEF StreamInv, QuietStep

LEMMA QuietKeeps ==
  ASSUME StreamInv, QuietStep, device' \in {device, Idle}
  PROVE  StreamInv'
<1>1. /\ device' \in DeviceRecord
      /\ device'.state = "ready" => device' = device
      /\ device'.state = "busy" => device'.reply = NoReply
      /\ device' = device \/ (device'.state # "ready" /\ ~(Serving("write"))')
      /\ (Serving("write"))' => device' = device
  BY Devices DEF StreamInv, TypeInv, DeviceRecord, Serving, LinkInv
<1>2. DeviceInv'
  BY <1>1, QuietDevice DEF QuietStep
<1>3. QED  BY <1>1, <1>2, QuietRest

(* What holds of a call in progress.                                       *)
LEMMA InCall ==
  ASSUME StreamInv, call # NoCall
  PROVE  /\ call \in CallRecord /\ call.slot \in Slots /\ owner[call.slot] \in OwnerRecord
         /\ call.stage \in Stages \ {"none"} /\ call.op \in Ops
         /\ call.stage # "open" => Used(call.slot)
BY DEF StreamInv, TypeInv, CallInv, CallRecord, Stages, Ops

LEMMA InUse ==
  ASSUME StreamInv, NEW s \in Slots
  PROVE  /\ owner[s] \in OwnerRecord /\ owner[s].cache \in Seq(Bytes)
         /\ Len(owner[s].cache) \in Nat /\ owner[s].pos \in Nat /\ owner[s].offset \in Nat
         /\ Len(owner[s].cache) <= CacheSize /\ owner[s].pos <= Len(owner[s].cache)
         /\ Used(s) => /\ owner[s].handle \in Handles
                       /\ session[owner[s].handle].state # "none"
<1>1. owner[s] \in OwnerRecord
  BY DEF StreamInv, TypeInv
<1>2. QED  BY <1>1, Lengths DEF StreamInv, SizeInv, OwnerInv, OwnerRecord

(* Nothing changes in the histories, or one of them grows.                 *)
LEMMA SameHistory ==
  ASSUME StreamInv, UNCHANGED <<gets, told>>
  PROVE  History
BY DEF StreamInv, TypeInv, SessionInv, History

LEMMA Tells ==
  ASSUME StreamInv, NEW h \in Handles, session[h].state # "none",
         NEW what \in SUBSET {"committed", "eof", "failed"}, Tell(h, what),
         "committed" \in what => session[h].commits = 1,
         gets' \in [Handles -> Seq(Bytes)],
         \A g \in Handles : gets'[g] # gets[g] => session[g].state # "none"
  PROVE  /\ History
         /\ \A g \in Handles : told'[g] = IF g = h THEN told[g] \cup what ELSE told[g]
<1>1. told \in [Handles -> SUBSET {"committed", "eof", "failed"}]
  BY DEF StreamInv, TypeInv
<1>2. \A g \in Handles : told'[g] = IF g = h THEN told[g] \cup what ELSE told[g]
  BY <1>1 DEF Tell
<1>3. told' \in [Handles -> SUBSET {"committed", "eof", "failed"}]
  BY <1>1 DEF Tell
<1>4. QED  BY <1>1, <1>2, <1>3 DEF History

LEMMA SteadyOwner ==
  ASSUME StreamInv, UNCHANGED <<owner, told>>, NEW s \in Slots,
         Writing(s) => ~InFlight(s)
  PROVE  /\ Steady(s)
         /\ Len(owner'[s].cache) <= CacheSize /\ owner'[s].pos <= Len(owner'[s].cache)
<1>1. (Writing(s))' => Writing(s) /\ owner[s].handle \in Handles
  BY InUse DEF Writing, Used
<1>2. QED  BY <1>1, InUse DEF StreamInv, CacheInv, Steady

LEMMA NothingInFlight ==
  ASSUME call = NoCall \/ ~call.sent
  PROVE  \A s \in Slots : ~InFlight(s)
BY DEF InFlight

-----------------------------------------------------------------------------
(* The CIO calls.                                                          *)
LEMMA NoCallIdle ==
  ASSUME StreamInv, call = NoCall
  PROVE  /\ call.stage = "none" /\ ~call.sent /\ ~AtWrite
         /\ \A s \in Slots : ~Flushing(s) /\ ~InFlight(s)
BY NoCallTypes DEF AtWrite, Flushing, InFlight

LEMMA OpenKeeps ==
  ASSUME StreamInv, NEW iocb \in Iocbs, NEW mode \in Modes, Open(iocb, mode)
  PROVE  StreamInv'
<1>1. /\ call = NoCall /\ owner' = owner /\ outstanding' = outstanding /\ device' = device
      /\ session' = session /\ resets' = resets /\ puts' = puts /\ gets' = gets /\ told' = told
      /\ \A s \in Slots : owner[s].iocb # iocb
      /\ owner[FreeSlot].iocb = Free /\ FreeSlot \in Slots
  BY DEF Open, NotOpen, history, FreeSlot, Slots
<1>2. call' \in CallRecord /\ call'.stage = "open" /\ ~call'.sent /\ call'.iocb = iocb
      /\ call'.slot = FreeSlot /\ call'.op = "open" /\ call'.result
  BY <1>1 DEF Open, NoCall, CallRecord
<1>3. call' # NoCall /\ iocb # Free
  BY <1>2, NoCallTypes, Sizes
<1>4. CallInv'
  BY <1>1, <1>2, <1>3 DEF CallInv, Used, AtWrite
<1>5. History
  BY <1>1, SameHistory
<1>6. QuietStep
  <2>1. outstanding \in BOOLEAN /\ owner \in [Slots -> OwnerRecord]
        /\ (~outstanding => device.state = "idle")
    BY DEF StreamInv, TypeInv, LinkInv
  <2>2. \A s \in Slots :
          /\ Steady(s)
          /\ Len(owner'[s].cache) <= CacheSize /\ owner'[s].pos <= Len(owner'[s].cache)
          /\ ~Flushing(s)
    BY <1>1, NoCallIdle, SteadyOwner
  <2>3. QED  BY <1>1, <1>2, <1>4, <1>5, <2>1, <2>2 DEF QuietStep
<1>7. QED  BY <1>1, <1>6, QuietKeeps

LEMMA SameCallInv ==
  ASSUME StreamInv, call' = call, owner' \in [Slots -> OwnerRecord],
         \A s \in Slots : /\ owner'[s].iocb = owner[s].iocb /\ owner'[s].mode = owner[s].mode
                          /\ owner'[s].cache = owner[s].cache
                          /\ owner'[s].fault = owner[s].fault
                          /\ owner'[s].committed = owner[s].committed
  PROVE  CallInv'
<1>1. call.slot \in Slots
  BY DEF StreamInv, TypeInv, CallRecord
<1>2. \A s \in Slots : ((Used(s))' <=> Used(s)) /\ ((Writing(s))' <=> Writing(s))
  BY DEF Used, Writing
<1>3. AtWrite' <=> AtWrite
  BY DEF AtWrite
<1>4. QED  BY <1>1, <1>2, <1>3 DEF StreamInv, CallInv

LEMMA GetCachedKeeps ==
  ASSUME StreamInv, NEW s \in Slots, GetCached(s)
  PROVE  StreamInv'
<1> DEFINE o == owner[s]  new == [owner[s] EXCEPT !.pos = @ + 1]
<1>1. /\ call = NoCall /\ Used(s) /\ o.pos < Len(o.cache) /\ told' = told
      /\ Set(s, new) /\ gets' = [gets EXCEPT ![o.handle] = Append(@, o.cache[o.pos + 1])]
      /\ outstanding' = outstanding /\ device' = device /\ call' = call
      /\ session' = session /\ resets' = resets /\ puts' = puts
  BY DEF GetCached, Deliver, Active, Used
<1>2. /\ o \in OwnerRecord /\ o.cache \in Seq(Bytes) /\ Len(o.cache) \in Nat /\ o.pos \in Nat
      /\ Len(o.cache) <= CacheSize /\ o.handle \in Handles
      /\ session[o.handle].state # "none"
  BY <1>1, InUse
<1>3. o.pos + 1 \in 1..Len(o.cache)
  BY <1>1, <1>2
<1>4. /\ new \in OwnerRecord /\ new.pos = o.pos + 1 /\ new.cache = o.cache /\ new.iocb = o.iocb
      /\ new.mode = o.mode /\ new.handle = o.handle /\ new.offset = o.offset
      /\ new.fault = o.fault /\ new.committed = o.committed /\ new.reading = o.reading
  BY <1>2 DEF OwnerRecord
<1> HIDE DEF new
<1>5. /\ owner' \in [Slots -> OwnerRecord] /\ owner'[s] = new
      /\ \A t \in Slots : t # s => owner'[t] = owner[t]
  <2>1. owner \in [Slots -> OwnerRecord]
    BY DEF StreamInv, TypeInv
  <2>2. QED  BY <1>1, <1>4, <2>1, SetsOwner
<1>6. History
  <2>1. gets \in [Handles -> Seq(Bytes)] /\ o.cache[o.pos + 1] \in Bytes
    BY <1>2, <1>3, ElementOfSeq DEF StreamInv, TypeInv
  <2>2. gets' \in [Handles -> Seq(Bytes)] /\ \A h \in Handles : h # o.handle => gets'[h] = gets[h]
    BY <1>1, <1>2, <2>1
  <2>3. QED  BY <1>1, <1>2, <2>2 DEF History, StreamInv, TypeInv, SessionInv
<1>7. CallInv'
  BY <1>1, <1>4, <1>5, SameCallInv
<1>8. ASSUME NEW t \in Slots
      PROVE  /\ Steady(t) /\ ~Flushing(t)
             /\ Len(owner'[t].cache) <= CacheSize /\ owner'[t].pos <= Len(owner'[t].cache)
  <2>1. ~Flushing(t) /\ ~InFlight(t)
    BY <1>1, NoCallIdle
  <2>2. (Writing(t))' => "failed" \notin told'[owner[t].handle]
    BY <1>1, <1>4, <1>5 DEF StreamInv, CacheInv, Writing, Used
  <2>3. ~Writing(s)
    BY <1>1 DEF GetCached, Readable, Writing, StreamInv, OwnerInv
  <2>4. ~(Writing(s))'
    BY <1>4, <1>5, <2>3 DEF Writing, Used
  <2>5. QED  BY <1>2, <1>3, <1>4, <1>5, <2>1, <2>2, <2>4, InUse DEF Steady
<1>9. QuietStep
  <2>1. outstanding \in BOOLEAN /\ call \in CallRecord /\ ~call.sent
        /\ (~outstanding => device.state = "idle")
    BY <1>1, NoCallTypes DEF StreamInv, TypeInv, LinkInv
  <2>2. QED  BY <1>1, <1>5, <1>6, <1>7, <1>8, <2>1 DEF QuietStep
<1>10. QED  BY <1>1, <1>9, QuietKeeps

LEMMA GetAtEndKeeps ==
  ASSUME StreamInv, NEW s \in Slots, GetAtEnd(s)
  PROVE  StreamInv'
<1> DEFINE h == owner[s].handle
<1>1. /\ call = NoCall /\ Used(s) /\ Tell(h, {"eof"})
      /\ owner' = owner /\ outstanding' = outstanding /\ device' = device /\ call' = call
      /\ session' = session /\ resets' = resets /\ puts' = puts /\ gets' = gets
  BY DEF GetAtEnd, Active, Used, local
<1>2. h \in Handles /\ session[h].state # "none"
  BY <1>1, InUse
<1>3. gets \in [Handles -> Seq(Bytes)] /\ owner \in [Slots -> OwnerRecord]
      /\ outstanding \in BOOLEAN /\ call \in CallRecord /\ ~call.sent
      /\ (~outstanding => device.state = "idle")
  BY <1>1, NoCallTypes DEF StreamInv, TypeInv, LinkInv
<1>4. History /\ \A g \in Handles : told'[g] = IF g = h THEN told[g] \cup {"eof"} ELSE told[g]
  BY <1>1, <1>2, <1>3, Tells
<1>5. CallInv'
  BY <1>1, <1>3, SameCallInv
<1>6. ASSUME NEW t \in Slots
      PROVE  /\ Steady(t) /\ ~Flushing(t)
             /\ Len(owner'[t].cache) <= CacheSize /\ owner'[t].pos <= Len(owner'[t].cache)
  <2>1. ~Flushing(t) /\ ~InFlight(t)
    BY <1>1, NoCallIdle
  <2>2. ASSUME (Writing(t))' PROVE "failed" \notin told'[owner[t].handle]
    <3>1. Writing(t) /\ owner[t].handle \in Handles
      BY <1>1, <2>2, InUse DEF Writing, Used
    <3>2. "failed" \notin told[owner[t].handle]
      BY <3>1 DEF StreamInv, CacheInv
    <3>3. \/ told'[owner[t].handle] = told[owner[t].handle] \cup {"eof"}
          \/ told'[owner[t].handle] = told[owner[t].handle]
      BY <1>4, <3>1
    <3>4. QED  BY <3>2, <3>3
  <2>3. QED  BY <1>1, <2>1, <2>2, InUse DEF Steady
<1>7. QuietStep
  BY <1>1, <1>3, <1>4, <1>5, <1>6 DEF QuietStep
<1>8. QED  BY <1>1, <1>7, QuietKeeps

LEMMA SetsSame ==
  ASSUME owner \in [Slots -> OwnerRecord], NEW s \in Slots, Set(s, owner[s])
  PROVE  owner' = owner
BY DEF Set

(* A call makes its first exchange.                                        *)
LEMMA Begins ==
  ASSUME StreamInv, call = NoCall, NEW s \in Slots, Used(s), NEW c \in CallRecord, c.slot = s,
         NEW stage \in Stages \ {"none", "open"}, Exchange(c, stage),
         \/ owner' = owner
         \/ /\ owner[s].committed /\ owner[s].mode = "post"
            /\ Set(s, RewindForReading(owner[s])),
         UNCHANGED <<outstanding, device, session, resets, puts, gets, told>>,
         stage \in {"write", "commit"} =>
           /\ owner' = owner /\ Writing(s) /\ (stage = "commit" <=> owner[s].cache = <<>>)
           /\ c.op \in {"get", "status", "close"}
           /\ c.op = "get" => owner[s].mode = "post",
         stage = "close" => c.op = "close",
         stage \in {"info", "close"} /\ owner[s].mode # "get" /\ c.result => owner[s].committed,
         ~c.result => stage = "close",
         stage = "read" => ~Writing(s)
  PROVE  StreamInv'
<1>1. /\ outstanding' = outstanding /\ device' = device /\ session' = session
      /\ resets' = resets /\ puts' = puts /\ gets' = gets /\ told' = told
  OBVIOUS
<1>2. /\ owner \in [Slots -> OwnerRecord] /\ owner[s] \in OwnerRecord
      /\ outstanding \in BOOLEAN /\ (~outstanding => device.state = "idle")
  BY DEF StreamInv, TypeInv, LinkInv
<1>3. /\ call' \in CallRecord /\ call'.stage = stage /\ ~call'.sent /\ call'.slot = s
      /\ call'.op = c.op /\ call'.iocb = c.iocb /\ call'.result = c.result
      /\ call' # NoCall
  BY Exchanges DEF Stages
<1>4. /\ owner' \in [Slots -> OwnerRecord]
      /\ \A t \in Slots : SameWriter(owner'[t], owner[t])
      /\ \A t \in Slots : owner'[t] = owner[t] \/ (/\ t = s /\ owner[t].committed
                                                   /\ owner[t].mode = "post"
                                                   /\ owner'[t].cache = <<>> /\ owner'[t].pos = 0)
  <2>1. CASE owner' = owner
    BY <1>2, <2>1 DEF SameWriter
  <2>2. CASE owner' # owner
    <3> DEFINE new == RewindForReading(owner[s])
    <3>1. /\ owner[s].committed /\ owner[s].mode = "post" /\ Set(s, new)
          /\ new \in OwnerRecord /\ SameWriter(new, owner[s]) /\ new.cache = <<>> /\ new.pos = 0
      BY <1>2, <2>2, Rewinds
    <3> HIDE DEF new
    <3>2. /\ owner' \in [Slots -> OwnerRecord] /\ owner'[s] = new
          /\ \A t \in Slots : t # s => owner'[t] = owner[t]
      BY <1>2, <3>1, SetsOwner
    <3>3. QED  BY <3>1, <3>2 DEF SameWriter
  <2>3. QED  BY <2>1, <2>2
<1>5. History
  BY <1>1, SameHistory
<1>6. CallInv'
  <2>1. \A t \in Slots : ((Used(t))' <=> Used(t)) /\ ((Writing(t))' <=> Writing(t))
    BY <1>4 DEF Used, Writing, SameWriter
  <2>2. AtWrite' <=> stage \in {"write", "commit"}
    BY <1>3 DEF AtWrite
  <2>3. owner'[s].mode = owner[s].mode /\ owner'[s].committed = owner[s].committed
    BY <1>4 DEF SameWriter
  <2>4. stage # "none" /\ stage # "open"
    OBVIOUS
  <2>5. AtWrite' => /\ (Writing(s))' /\ (stage = "commit" <=> owner'[s].cache = <<>>)
                    /\ c.op # "put" /\ (c.op = "get" => owner'[s].mode = "post")
                    /\ c.op \in {"put", "get", "status", "close"}
    BY <2>1, <2>2, <2>3
  <2>6. QED  BY <1>3, <2>1, <2>2, <2>3, <2>4, <2>5 DEF CallInv
<1>7. ASSUME NEW t \in Slots
      PROVE  /\ Steady(t) /\ ~Flushing(t)
             /\ Len(owner'[t].cache) <= CacheSize /\ owner'[t].pos <= Len(owner'[t].cache)
  <2>1. ~Flushing(t) /\ ~InFlight(t)
    BY NoCallIdle
  <2>2. Len(owner'[t].cache) <= CacheSize /\ owner'[t].pos <= Len(owner'[t].cache)
    BY <1>4, InUse, Sizes
  <2>3. ASSUME (Writing(t))'
        PROVE  owner'[t] = owner[t] /\ "failed" \notin told'[owner[t].handle]
    <3>1. Writing(t) /\ owner'[t] = owner[t]
      BY <1>4, <2>3 DEF Writing, Used, SameWriter
    <3>2. QED  BY <1>1, <3>1 DEF StreamInv, CacheInv
  <2>4. owner'[t].reading => owner[t].reading \/ (owner[t].committed /\ owner[t].mode = "post")
    BY <1>4
  <2>5. QED  BY <1>4, <2>1, <2>2, <2>3, <2>4 DEF Steady, SameWriter
<1>8. QuietStep
  BY <1>1, <1>2, <1>3, <1>4, <1>5, <1>6, <1>7 DEF QuietStep
<1>9. QED  BY <1>1, <1>8, QuietKeeps

LEMMA FinishWriteBegins ==
  ASSUME StreamInv, call = NoCall, NEW s \in Slots, Used(s),
         NEW op \in {"get", "status", "close"},
         owner[s].mode # "get", ~owner[s].fault, op = "get" => owner[s].mode = "post",
         FinishWrite(Call(op, s), owner[s]),
         UNCHANGED <<outstanding, device, session, resets, puts, gets, told>>
  PROVE  StreamInv'
<1> DEFINE c == Call(op, s)
<1>1. /\ c \in CallRecord /\ c.slot = s /\ c.op = op /\ c.result
  BY Calls DEF StreamInv, Ops
<1>2. owner \in [Slots -> OwnerRecord]
  BY DEF StreamInv, TypeInv
<1> HIDE DEF c
<1>3. CASE owner[s].committed
  <2>1. AfterCommit(c, owner[s]) /\ ~Writing(s)
    BY <1>3 DEF FinishWrite, c, Writing
  <2>2. CASE op = "get"
    <3>1. Set(s, RewindForReading(owner[s])) /\ Exchange(c, "read")
      BY <1>1, <2>1, <2>2 DEF AfterCommit
    <3>2. "read" \in Stages \ {"none", "open"}
      BY DEF Stages
    <3>3. QED  BY <1>1, <1>3, <2>1, <2>2, <3>1, <3>2, Begins
  <2>3. CASE op # "get"
    <3> DEFINE stage == IF op = "status" THEN "info" ELSE "close"
    <3>1. Set(s, owner[s]) /\ Exchange(c, stage)
      BY <1>1, <2>1, <2>3 DEF AfterCommit
    <3>2. owner' = owner
      BY <1>2, <3>1, SetsSame
    <3>3. stage \in Stages \ {"none", "open"} /\ (stage = "close" => op = "close")
          /\ stage \notin {"write", "commit", "read"}
      BY <2>3 DEF Stages
    <3> HIDE DEF stage
    <3>4. QED  BY <1>1, <1>3, <3>1, <3>2, <3>3, Begins
  <2>4. QED  BY <2>2, <2>3
<1>4. CASE ~owner[s].committed
  <2> DEFINE stage == IF owner[s].cache = <<>> THEN "commit" ELSE "write"
  <2>1. Set(s, owner[s]) /\ Exchange(c, stage) /\ Writing(s)
    BY <1>1, <1>4 DEF FinishWrite, c, Writing
  <2>2. owner' = owner
    BY <1>2, <2>1, SetsSame
  <2>3. stage \in Stages \ {"none", "open"} /\ stage \notin {"info", "close", "read"}
        /\ (stage = "commit" <=> owner[s].cache = <<>>)
    BY DEF Stages
  <2> HIDE DEF stage
  <2>4. QED  BY <1>1, <2>1, <2>2, <2>3, Begins
<1>5. QED  BY <1>3, <1>4

LEMMA GetMoreKeeps ==
  ASSUME StreamInv, NEW s \in Slots, GetMore(s)
  PROVE  StreamInv'
<1>1. /\ call = NoCall /\ Used(s) /\ outstanding' = outstanding /\ device' = device
      /\ session' = session /\ resets' = resets /\ puts' = puts /\ gets' = gets /\ told' = told
  BY DEF GetMore, Active, Used, history
<1>2. /\ Call("get", s) \in CallRecord /\ Call("get", s).slot = s /\ Call("get", s).result
      /\ "read" \in Stages \ {"none", "open"}
  BY Calls DEF StreamInv, Ops, Stages
<1>3. CASE Readable(owner[s]) /\ Exchange(Call("get", s), "read") /\ owner' = owner
  <2>1. ~Writing(s)
    BY <1>1, <1>3 DEF Readable, Writing, StreamInv, OwnerInv
  <2>2. QED  BY <1>1, <1>2, <1>3, <2>1, Begins
<1>4. CASE owner[s].mode = "post" /\ ~owner[s].fault /\ FinishWrite(Call("get", s), owner[s])
  BY <1>1, <1>4, FinishWriteBegins
<1>5. QED  BY <1>3, <1>4 DEF GetMore

LEMMA StatusKeeps ==
  ASSUME StreamInv, NEW s \in Slots, Status(s)
  PROVE  StreamInv'
<1>1. /\ call = NoCall /\ Used(s) /\ outstanding' = outstanding /\ device' = device
      /\ session' = session /\ resets' = resets /\ puts' = puts /\ gets' = gets /\ told' = told
  BY DEF Status, Active, Used, history
<1>2. /\ Call("status", s) \in CallRecord /\ Call("status", s).slot = s
      /\ Call("status", s).result /\ "info" \in Stages \ {"none", "open"}
  BY Calls DEF StreamInv, Ops, Stages
<1>3. CASE owner[s].mode = "get" /\ Exchange(Call("status", s), "info") /\ owner' = owner
  BY <1>1, <1>2, <1>3, Begins
<1>4. CASE owner[s].mode # "get" /\ ~owner[s].fault /\ FinishWrite(Call("status", s), owner[s])
  BY <1>1, <1>4, FinishWriteBegins
<1>5. QED  BY <1>3, <1>4 DEF Status

LEMMA CloseKeeps ==
  ASSUME StreamInv, NEW s \in Slots, Close(s)
  PROVE  StreamInv'
<1> DEFINE c == Call("close", s)  d == [c EXCEPT !.result = FALSE]
<1>1. /\ call = NoCall /\ Used(s) /\ outstanding' = outstanding /\ device' = device
      /\ session' = session /\ resets' = resets /\ puts' = puts /\ gets' = gets /\ told' = told
  BY DEF Close, Active, Used, history
<1>2. /\ c \in CallRecord /\ c.slot = s /\ c.op = "close" /\ "close" \in Stages \ {"none", "open"}
  BY Calls DEF StreamInv, Ops, Stages
<1>3. d \in CallRecord /\ d.slot = s /\ d.op = "close" /\ ~d.result
  BY <1>2 DEF CallRecord
<1>4. \/ owner[s].mode = "get" /\ Exchange(c, "close") /\ owner' = owner
      \/ owner[s].mode # "get" /\ ~owner[s].fault /\ FinishWrite(c, owner[s])
      \/ Exchange(d, "close") /\ owner' = owner
  BY DEF Close
<1> HIDE DEF c, d
<1>5. CASE owner[s].mode = "get" /\ Exchange(c, "close") /\ owner' = owner
  BY <1>1, <1>2, <1>5, Begins
<1>6. CASE owner[s].mode # "get" /\ ~owner[s].fault /\ FinishWrite(c, owner[s])
  BY <1>1, <1>6, FinishWriteBegins DEF c
<1>7. CASE Exchange(d, "close") /\ owner' = owner
  BY <1>1, <1>2, <1>3, <1>7, Begins
<1>8. QED  BY <1>4, <1>5, <1>6, <1>7

LEMMA PutKeeps ==
  ASSUME StreamInv, NEW s \in Slots, NEW b \in Bytes, Put(s, b)
  PROVE  StreamInv'
<1> DEFINE o == owner[s]  h == owner[s].handle  new == [owner[s] EXCEPT !.cache = Append(@, b)]
<1>1. /\ call = NoCall /\ Writing(s) /\ Set(s, new)
      /\ puts' = [puts EXCEPT ![h] = Append(@, b)]
      /\ outstanding' = outstanding /\ device' = device
      /\ session' = session /\ resets' = resets /\ gets' = gets /\ told' = told
  <2>1. new.handle = h
    BY InUse DEF OwnerRecord
  <2>2. QED  BY <2>1 DEF Put, Active, Writing, Used
<1>2. /\ o \in OwnerRecord /\ o.cache \in Seq(Bytes) /\ Len(o.cache) \in Nat /\ o.pos \in Nat
      /\ o.pos <= Len(o.cache) /\ o.offset \in Nat /\ h \in Handles
      /\ session[h].state # "none"
  BY <1>1, InUse DEF Writing
<1>3. \A t \in Slots : ~Flushing(t) /\ ~InFlight(t)
  BY <1>1, NoCallIdle
<1>4. /\ Len(o.cache) < CacheSize /\ CacheSize \in Nat
      /\ IsRest(o.cache, o.offset, puts[h]) /\ "failed" \notin told[h]
      /\ session[h].commits = 0 /\ Len(session[h].body) = o.offset
      /\ o.pos = 0
  BY <1>1, <1>3, Sizes DEF StreamInv, SizeInv, CacheInv, Flushing
<1>5. /\ new \in OwnerRecord /\ new.cache = Append(o.cache, b) /\ new.pos = o.pos
      /\ new.iocb = o.iocb /\ new.mode = o.mode /\ new.handle = o.handle
      /\ new.offset = o.offset /\ new.fault = o.fault /\ new.committed = o.committed
      /\ new.reading = o.reading /\ Len(new.cache) = Len(o.cache) + 1 /\ new.cache # <<>>
  <2> DEFINE cache == Append(o.cache, b)
  <2>1. new = [o EXCEPT !.cache = cache]
    BY <1>2 DEF OwnerRecord
  <2>2. cache \in Seq(Bytes) /\ Len(cache) = Len(o.cache) + 1 /\ cache # <<>>
    <3>1. cache \in Seq(Bytes) /\ Len(cache) = Len(o.cache) + 1
      BY <1>2
    <3> HIDE DEF cache
    <3>2. QED  BY <1>2, <3>1, Lengths
  <2> HIDE DEF cache, new
  <2>3. /\ new \in OwnerRecord /\ new.cache = cache /\ new.pos = o.pos
        /\ new.iocb = o.iocb /\ new.mode = o.mode /\ new.handle = o.handle
        /\ new.offset = o.offset /\ new.fault = o.fault /\ new.committed = o.committed
        /\ new.reading = o.reading
    BY <1>2, <2>1, <2>2 DEF OwnerRecord
  <2>4. QED  BY <2>2, <2>3 DEF cache
<1>6. \/ Exchange(Call("put", s), "write") /\ Len(new.cache) = CacheSize
      \/ Return /\ Len(new.cache) # CacheSize
  BY DEF Put, Full
<1> HIDE DEF new
<1>7. /\ owner' \in [Slots -> OwnerRecord] /\ owner'[s] = new
      /\ \A t \in Slots : t # s => owner'[t] = owner[t]
  BY <1>1, <1>5, SetsOwner DEF StreamInv, TypeInv
<1>8. /\ puts \in [Handles -> Seq(Bytes)] /\ puts' \in [Handles -> Seq(Bytes)]
      /\ puts'[h] = Append(puts[h], b) /\ \A g \in Handles : g # h => puts'[g] = puts[g]
  BY <1>1, <1>2 DEF StreamInv, TypeInv
<1>9. \A t \in Slots : /\ owner'[t].iocb = owner[t].iocb /\ owner'[t].mode = owner[t].mode
                       /\ owner'[t].handle = owner[t].handle /\ owner'[t].fault = owner[t].fault
                       /\ owner'[t].committed = owner[t].committed
                       /\ owner'[t].reading = owner[t].reading
                       /\ owner'[t].offset = owner[t].offset
                       /\ ((Used(t))' <=> Used(t)) /\ ((Writing(t))' <=> Writing(t))
  BY <1>5, <1>7 DEF Used, Writing
<1>10. ASSUME NEW t \in Slots, t # s, Used(t) PROVE owner[t].handle # h
  BY <1>1, <1>10 DEF StreamInv, OwnerInv, OwnersApart, Writing, Used
<1>11. /\ call' \in CallRecord /\ ~call'.sent
       /\ \/ /\ call' # NoCall /\ call'.stage = "write" /\ call'.op = "put" /\ call'.slot = s
             /\ call'.result /\ Len(new.cache) = CacheSize
          \/ call' = NoCall /\ Len(new.cache) # CacheSize
  <2>1. CASE Exchange(Call("put", s), "write") /\ Len(new.cache) = CacheSize
    <3>1. /\ Call("put", s) \in CallRecord /\ Call("put", s).op = "put"
          /\ Call("put", s).slot = s /\ Call("put", s).result
      BY Calls DEF StreamInv, Ops
    <3>2. QED  BY <2>1, <3>1, Exchanges DEF Stages
  <2>2. CASE Return /\ Len(new.cache) # CacheSize
    BY <2>2, Returns
  <2>3. QED  BY <1>6, <2>1, <2>2
<1>12. TypeInv'
  BY <1>1, <1>7, <1>8, <1>11 DEF StreamInv, TypeInv
<1>13. CallInv'
  <2>1. CASE call' = NoCall
    BY <2>1, NoCallTypes DEF CallInv, AtWrite
  <2>2. CASE call' # NoCall
    BY <1>1, <1>5, <1>7, <1>9, <1>11, <2>2 DEF CallInv, AtWrite, Writing
  <2>3. QED  BY <2>1, <2>2
<1>14. LinkInv'
  BY <1>1, <1>11 DEF StreamInv, LinkInv
<1>15. OwnerInv'
  BY <1>1, <1>9 DEF StreamInv, OwnerInv, OwnersApart, Used
<1>16. SessionInv'
  <2> SUFFICES ASSUME NEW g \in Handles
               PROVE  /\ IsStart(session'[g].body, puts'[g])
                      /\ session'[g].commits > 0 => /\ session'[g].commits = 1
                                                    /\ session'[g].body = puts'[g]
                      /\ session'[g].state = "none" => (Fresh(g))'
                      /\ "committed" \in told'[g] => session'[g].commits = 1
    BY DEF SessionInv
  <2>1. /\ IsStart(session[g].body, puts[g])
        /\ session[g].commits > 0 => session[g].commits = 1 /\ session[g].body = puts[g]
        /\ session[g].state = "none" => Fresh(g)
        /\ "committed" \in told[g] => session[g].commits = 1
        /\ session[g].body \in Seq(Bytes) /\ puts[g] \in Seq(Bytes)
    BY DEF StreamInv, SessionInv, TypeInv, SessionRecord
  <2>2. CASE g = h
    <3>1. IsStart(session[g].body, puts'[g])
      <4> DEFINE p == puts[g]  q == session[g].body
      <4>1. p \in Seq(Bytes) /\ q \in Seq(Bytes) /\ IsStart(q, p) /\ puts'[g] = Append(p, b)
        BY <1>8, <2>1, <2>2
      <4> HIDE DEF p, q
      <4>2. IsStart(q, Append(p, b))
        BY <4>1, StartAppend
      <4>3. QED  BY <4>1, <4>2 DEF q
    <3>2. QED  BY <1>1, <1>2, <1>4, <2>1, <2>2, <3>1
  <2>3. CASE g # h
    <3>1. puts'[g] = puts[g]
      BY <1>8, <2>3
    <3>2. session[g].state = "none" => (Fresh(g))'
      BY <1>1, <1>9, <2>1, <3>1 DEF Fresh, DeviceWrites, Serving
    <3>3. QED  BY <1>1, <2>1, <3>1, <3>2
  <2>4. QED  BY <2>2, <2>3
<1>17. DeviceInv'
  <2>1. ASSUME (Serving("write"))'
        PROVE  LET g == device'.request.handle IN
               /\ g \in Handles /\ session'[g].commits = 0
               /\ device'.request.offset = Len(session'[g].body)
               /\ IsRest(device'.request.data, Len(session'[g].body), puts'[g])
               /\ \A t \in Slots : (Writing(t))' => owner'[t].handle # g
    <3>1. Serving("write") /\ device' = device /\ session' = session
      BY <1>1, <2>1 DEF Serving
    <3>2. \A t \in Slots : Writing(t) => owner[t].handle # device.request.handle
      BY <1>3, <3>1 DEF StreamInv, DeviceInv
    <3>3. device.request.handle # h
      BY <1>1, <3>2
    <3>4. QED  BY <1>8, <1>9, <3>1, <3>2, <3>3 DEF StreamInv, DeviceInv
  <2>2. ASSUME device'.state = "ready", device'.reply.good, device'.request.command = "open"
        PROVE  device'.reply.handle \in Handles
    BY <1>1, <2>2 DEF StreamInv, DeviceInv
  <2>3. QED  BY <1>11, <2>1, <2>2 DEF DeviceInv
<1>18. CacheInv'
  <2> SUFFICES ASSUME NEW t \in Slots, (Writing(t))'
               PROVE  /\ IsRest(owner'[t].cache, owner'[t].offset, puts'[owner'[t].handle])
                      /\ "failed" \notin told'[owner'[t].handle]
                      /\ session'[owner'[t].handle].commits = 0
                      /\ Len(session'[owner'[t].handle].body) = owner'[t].offset
    BY <1>11 DEF CacheInv, InFlight
  <2>1. CASE t = s
    <3>1. IsRest(new.cache, o.offset, Append(puts[h], b))
      <4>1. puts[h] \in Seq(Bytes)
        BY <1>2, <1>8
      <4>2. QED  BY <1>4, <1>5, <4>1, RestAppend
    <3>2. QED  BY <1>1, <1>4, <1>5, <1>7, <1>8, <2>1, <3>1
  <2>2. CASE t # s
    <3>1. Writing(t) /\ owner'[t] = owner[t] /\ owner[t].handle # h /\ owner[t].handle \in Handles
      BY <1>7, <1>9, <1>10, <2>2, InUse DEF Writing
    <3>2. /\ IsRest(owner[t].cache, owner[t].offset, puts[owner[t].handle])
          /\ "failed" \notin told[owner[t].handle]
          /\ session[owner[t].handle].commits = 0
          /\ Len(session[owner[t].handle].body) = owner[t].offset
      BY <1>3, <3>1 DEF StreamInv, CacheInv
    <3>3. QED  BY <1>1, <1>8, <3>1, <3>2
  <2>3. QED  BY <2>1, <2>2
<1>19. SizeInv'
  <2>1. ASSUME NEW t \in Slots
        PROVE  /\ Len(owner'[t].cache) <= CacheSize /\ owner'[t].pos <= Len(owner'[t].cache)
               /\ (Writing(t))' => owner'[t].pos = 0
               /\ (Writing(t))' /\ ~(Flushing(t))' => Len(owner'[t].cache) < CacheSize
    <3>1. CASE t = s
      BY <1>2, <1>4, <1>5, <1>7, <1>11, <3>1 DEF Flushing, AtWrite
    <3>2. CASE t # s
      BY <1>3, <1>7, <1>9, <3>2 DEF StreamInv, SizeInv, Flushing
    <3>3. QED  BY <3>1, <3>2
  <2>2. QED  BY <1>1, <2>1 DEF StreamInv, SizeInv, Flushing
<1>20. QED
  BY <1>12, <1>13, <1>14, <1>15, <1>16, <1>17, <1>18, <1>19 DEF StreamInv

-----------------------------------------------------------------------------
(* The exchanges.                                                          *)
LEMMA RecoverKeeps ==
  ASSUME StreamInv, Recover
  PROVE  StreamInv'
<1>1. /\ call # NoCall /\ ~call.sent /\ device' = Idle /\ outstanding' = FALSE
      /\ owner' = owner /\ call' = call /\ session' = session /\ resets' = resets
      /\ puts' = puts /\ gets' = gets /\ told' = told
  BY DEF Recover, Pending, history
<1>2. owner \in [Slots -> OwnerRecord] /\ call \in CallRecord
  BY DEF StreamInv, TypeInv
<1>3. CallInv'
  BY <1>1, <1>2, SameCallInv
<1>4. \A s \in Slots :
        /\ Steady(s)
        /\ Len(owner'[s].cache) <= CacheSize /\ owner'[s].pos <= Len(owner'[s].cache)
        /\ (Writing(s))' /\ Flushing(s) => (Flushing(s))'
  BY <1>1, NothingInFlight, SteadyOwner DEF Flushing, AtWrite
<1>5. QuietStep
  BY <1>1, <1>2, <1>3, <1>4, SameHistory, Devices DEF QuietStep
<1>6. QED  BY <1>1, <1>5, QuietKeeps

LEMMA NoCallInv ==
  ASSUME call' = NoCall
  PROVE  CallInv' /\ call' \in CallRecord /\ ~call'.sent
BY NoCallTypes DEF CallInv, AtWrite

LEMMA BadNameKeeps ==
  ASSUME StreamInv, BadName
  PROVE  StreamInv'
<1>1. /\ ~call.sent /\ call.stage = "open" /\ device' = device
      /\ outstanding' = outstanding
      /\ owner' = owner /\ call' = NoCall /\ session' = session /\ resets' = resets
      /\ puts' = puts /\ gets' = gets /\ told' = told
  BY DEF BadName, Pending, Return, history
<1>2. owner \in [Slots -> OwnerRecord] /\ outstanding \in BOOLEAN
      /\ (~outstanding => device.state = "idle")
  BY DEF StreamInv, TypeInv, LinkInv
<1>3. \A s \in Slots :
        /\ Steady(s)
        /\ Len(owner'[s].cache) <= CacheSize /\ owner'[s].pos <= Len(owner'[s].cache)
        /\ ~Flushing(s)
  BY <1>1, NothingInFlight, SteadyOwner DEF Flushing, AtWrite
<1>4. QuietStep
  BY <1>1, <1>2, <1>3, SameHistory, NoCallInv DEF QuietStep
<1>5. QED  BY <1>1, <1>4, QuietKeeps

(* An exchange that fails frees or faults its owner and leaves the rest.   *)
LEMMA FailureIsQuiet ==
  ASSUME StreamInv, call # NoCall, ExchangeFails(call), UNCHANGED <<session, resets>>,
         outstanding' \in BOOLEAN, ~outstanding' => device'.state = "idle"
  PROVE  QuietStep /\ \A s \in Slots : Flushing(s) => ~(Writing(s))'
<1> SUFFICES ASSUME NEW s \in Slots, s = call.slot
             PROVE  QuietStep /\ (AtWrite => ~(Writing(s))')
  BY InCall DEF Flushing
<1> DEFINE o == owner[s]  h == owner[s].handle  new == AfterFailure(call, owner[s])
           what == IF call.stage \in {"write", "commit"} THEN {"failed"} ELSE {}
<1>1. /\ Set(s, new) /\ Tell(h, what) /\ puts' = puts /\ gets' = gets
      /\ session' = session /\ resets' = resets
      /\ \/ /\ call.op = "close" /\ call.stage # "close"
            /\ call' = [call EXCEPT !.stage = "close", !.sent = FALSE, !.result = FALSE]
         \/ call' = NoCall
  BY DEF ExchangeFails, Return
<1>2. /\ call \in CallRecord /\ s \in Slots /\ o \in OwnerRecord
      /\ call.stage \in Stages \ {"none"} /\ (call.stage # "open" => Used(s))
      /\ (Used(s) => h \in Handles /\ session[h].state # "none")
      /\ (AtWrite => call.stage # "open" /\ call.stage # "close")
      /\ (call.stage = "open" => call.op = "open")
  BY InCall, InUse DEF AtWrite, StreamInv, CallInv
<1>3. /\ new \in OwnerRecord /\ new.iocb = IF call.stage = "close" THEN Free ELSE o.iocb
      /\ new.fault = (o.fault \/ AtWrite)
      /\ new.handle = o.handle /\ new.mode = o.mode /\ new.committed = o.committed
      /\ new.reading = o.reading /\ new.cache = o.cache /\ new.pos = o.pos
      /\ new.offset = o.offset
  BY <1>2, Fails DEF AtWrite
<1>4. what \in SUBSET {"committed", "eof", "failed"} /\ "committed" \notin what
      /\ (what # {} => AtWrite)
  BY DEF AtWrite
<1>5. gets \in [Handles -> Seq(Bytes)] /\ owner \in [Slots -> OwnerRecord]
  BY DEF StreamInv, TypeInv
<1> HIDE DEF new, what
<1>6. /\ owner' \in [Slots -> OwnerRecord] /\ owner'[s] = new
      /\ \A t \in Slots : t # s => owner'[t] = owner[t]
  BY <1>1, <1>2, <1>3, <1>5, SetsOwner
<1>7. History /\ \A g \in Handles : told'[g] # told[g] => g = h /\ AtWrite
  <2>1. CASE AtWrite
    BY <1>1, <1>2, <1>4, <1>5, <2>1, Tells
  <2>2. CASE ~AtWrite
    BY <1>1, <1>4, <2>2, SameHistory DEF Tell
  <2>3. QED  BY <2>1, <2>2
<1>8. call' \in CallRecord /\ ~call'.sent /\ CallInv'
  <2>1. CASE call' = NoCall
    BY <2>1, NoCallInv
  <2>2. CASE /\ call.op = "close" /\ call.stage # "close"
             /\ call' = [call EXCEPT !.stage = "close", !.sent = FALSE, !.result = FALSE]
    <3>1. /\ call' \in CallRecord /\ call'.stage = "close" /\ ~call'.sent /\ ~call'.result
          /\ call'.slot = s /\ call'.op = "close"
      BY <1>2, <2>2 DEF CallRecord
    <3>2. call' # NoCall /\ (Used(s))'
      BY <1>2, <1>3, <1>6, <2>2, <3>1, NoCallTypes DEF Used
    <3>3. QED  BY <3>1, <3>2 DEF CallInv, AtWrite
  <2>3. QED  BY <1>1, <2>1, <2>2
<1>9. AtWrite => ~(Writing(s))'
  <2> SUFFICES ASSUME AtWrite PROVE owner'[s].fault
    BY DEF Writing
  <2>1. owner'[s].fault = (o.fault \/ AtWrite)
    BY <1>3, <1>6
  <2>2. QED  BY <2>1
<1>10. ASSUME NEW t \in Slots
       PROVE  /\ Steady(t)
              /\ Len(owner'[t].cache) <= CacheSize /\ owner'[t].pos <= Len(owner'[t].cache)
              /\ ~((Writing(t))' /\ Flushing(t))
  <2>1. /\ owner'[t].iocb \in {owner[t].iocb, Free}
        /\ owner'[t].handle = owner[t].handle /\ owner'[t].mode = owner[t].mode
        /\ owner'[t].committed = owner[t].committed /\ owner'[t].cache = owner[t].cache
        /\ owner'[t].pos = owner[t].pos /\ owner'[t].offset = owner[t].offset
        /\ owner'[t].reading = owner[t].reading /\ (owner[t].fault => owner'[t].fault)
    BY <1>3, <1>6
  <2>2. ~((Writing(t))' /\ Flushing(t))
    BY <1>9 DEF Flushing
  <2>3. ASSUME (Writing(t))' PROVE "failed" \notin told'[owner[t].handle]
    <3>1. Writing(t) /\ owner[t].handle \in Handles
      BY <2>1, <2>3, InUse DEF Writing, Used
    <3>2. "failed" \notin told[owner[t].handle]
      BY <3>1 DEF StreamInv, CacheInv
    <3>3. ~(AtWrite /\ owner[t].handle = h)
      <4>1. SUFFICES ASSUME AtWrite, owner[t].handle = h PROVE FALSE
        OBVIOUS
      <4>2. t # s /\ Used(t) /\ Used(s)
        BY <1>2, <1>9, <2>3, <3>1, <4>1 DEF Writing
      <4>3. QED  BY <1>2, <4>1, <4>2 DEF StreamInv, OwnerInv, OwnersApart, Used
    <3>4. QED  BY <1>7, <3>1, <3>2, <3>3
  <2>4. QED  BY <2>1, <2>2, <2>3, InUse DEF Steady, InFlight, Flushing
<1>11. QED  BY <1>1, <1>6, <1>7, <1>8, <1>9, <1>10 DEF QuietStep

LEMMA FailureKeeps ==
  ASSUME StreamInv, RecoverFails \/ Missing \/ NotCollected \/ BadReply
  PROVE  StreamInv'
<1>1. /\ call # NoCall /\ ExchangeFails(call) /\ session' = session /\ resets' = resets
      /\ device' \in {device, Idle} /\ outstanding' \in BOOLEAN
      /\ ~outstanding' => device'.state = "idle"
  <2>1. outstanding \in BOOLEAN /\ (~outstanding => device.state = "idle")
    BY DEF StreamInv, TypeInv, LinkInv
  <2>2. CASE RecoverFails
    BY <2>1, <2>2, Devices DEF RecoverFails, Pending, MustDrain, MayDrop
  <2>3. CASE Missing
    BY <2>1, <2>3, Devices DEF Missing, Waiting
  <2>4. CASE NotCollected
    BY <2>1, <2>4, Devices DEF NotCollected, Waiting, MayDrop
  <2>5. CASE BadReply
    BY <2>1, <2>5, Devices DEF BadReply, Collected, Waiting
  <2>6. QED  BY <2>2, <2>3, <2>4, <2>5
<1>2. QuietStep
  BY <1>1, FailureIsQuiet
<1>3. QED  BY <1>1, <1>2, QuietKeeps

(* What a WRITE carries when it is sent.                                   *)
LEMMA Requested ==
  ASSUME StreamInv, Pending, AtWrite, NEW h, h = owner[call.slot].handle
  PROVE  /\ h \in Handles /\ session[h].state # "none" /\ session[h].commits = 0
         /\ RequestOf(call).handle = h
         /\ RequestOf(call).offset = Len(session[h].body)
         /\ IsRest(RequestOf(call).data, Len(session[h].body), puts[h])
         /\ "failed" \notin told[h]
         /\ \A s \in Slots : Writing(s) /\ owner[s].handle = h => s = call.slot
<1>1. /\ call # NoCall /\ ~call.sent /\ call.stage # "open" /\ call.stage # "none"
      /\ call.stage \in {"write", "commit"}
  BY DEF Pending, AtWrite
<1>2. /\ Writing(call.slot) /\ call.slot \in Slots /\ ~InFlight(call.slot)
      /\ (call.stage = "commit" <=> owner[call.slot].cache = <<>>)
  BY <1>1, InCall DEF StreamInv, CallInv, InFlight
<1>3. /\ IsRest(owner[call.slot].cache, owner[call.slot].offset, puts[h])
      /\ "failed" \notin told[h] /\ session[h].commits = 0
      /\ Len(session[h].body) = owner[call.slot].offset
  BY <1>2 DEF StreamInv, CacheInv
<1>4. h \in Handles /\ session[h].state # "none"
  BY <1>2, InUse DEF Writing
<1>5. /\ RequestOf(call).handle = h /\ RequestOf(call).offset = owner[call.slot].offset
      /\ RequestOf(call).data = owner[call.slot].cache
  BY <1>1, <1>2, Requests DEF StreamInv
<1>6. \A s \in Slots : Writing(s) /\ owner[s].handle = h => s = call.slot
  BY <1>2 DEF StreamInv, OwnerInv, OwnersApart, Writing, Used
<1>7. QED  BY <1>3, <1>4, <1>5, <1>6

LEMMA RequestIs ==
  ASSUME StreamInv, Pending
  PROVE  /\ RequestOf(call) \in RequestRecord
         /\ RequestOf(call).command = "write" <=> AtWrite
  <1>1. call # NoCall /\ call.slot \in Slots /\ call.stage # "none" /\ TypeInv
    BY InCall DEF Pending, StreamInv
  <1>2. QED  BY <1>1, Requests DEF AtWrite

LEMMA SendFailsKeeps ==
  ASSUME StreamInv, SendFails
  PROVE  StreamInv'
<1>1. /\ Pending /\ call # NoCall /\ ~call.sent /\ outstanding' = TRUE /\ ExchangeFails(call)
      /\ session' = session /\ resets' = resets
      /\ device' = device \/ device' = Busy(RequestOf(call))
  BY DEF SendFails, Pending
<1>2. QuietStep /\ \A s \in Slots : Flushing(s) => ~(Writing(s))'
  BY <1>1, FailureIsQuiet
<1>3. CASE device' = device
  BY <1>2, <1>3, QuietKeeps
<1>4. CASE device' = Busy(RequestOf(call))
  <2> DEFINE r == RequestOf(call)
  <2>1. r \in RequestRecord /\ (r.command = "write" <=> AtWrite)
    BY <1>1, RequestIs
  <2>2. /\ device' \in DeviceRecord /\ device'.state = "busy" /\ device'.request = r
        /\ device'.reply = NoReply
    BY <1>4, <2>1, Devices
  <2>3. puts' = puts
    BY <1>2 DEF QuietStep
  <2> HIDE DEF r
  <2>4. ASSUME (Serving("write"))'
        PROVE  /\ LET h == device'.request.handle IN
                  /\ h \in Handles /\ session'[h].commits = 0
                  /\ device'.request.offset = Len(session'[h].body)
                  /\ IsRest(device'.request.data, Len(session'[h].body), puts'[h])
                  /\ \A s \in Slots : (Writing(s))' => owner'[s].handle # h
               /\ session[device'.request.handle].state # "none"
    <3>1. AtWrite
      BY <2>1, <2>2, <2>4 DEF Serving
    <3>2. PICK h : h = owner[call.slot].handle
      OBVIOUS
    <3>3. /\ h \in Handles /\ session[h].state # "none" /\ session[h].commits = 0
          /\ r.handle = h /\ r.offset = Len(session[h].body)
          /\ IsRest(r.data, Len(session[h].body), puts[h])
          /\ \A s \in Slots : Writing(s) /\ owner[s].handle = h => s = call.slot
      BY <1>1, <3>1, <3>2, Requested DEF r
    <3>4. \A s \in Slots : (Writing(s))' => owner'[s].handle # h
      <4> SUFFICES ASSUME NEW s \in Slots, (Writing(s))', owner'[s].handle = h PROVE FALSE
        OBVIOUS
      <4>1. Writing(s) /\ owner[s].handle = h
        BY <1>2, SteadyWriters DEF QuietStep, Steady
      <4>2. Flushing(s)
        BY <3>1, <3>3, <4>1 DEF Flushing
      <4>3. QED  BY <1>2, <4>2
    <3>5. QED  BY <1>1, <2>2, <2>3, <3>3, <3>4
  <2>5. DeviceInv'
    BY <2>2, <2>4 DEF DeviceInv
  <2>6. QED  BY <1>2, <2>2, <2>4, <2>5, QuietRest
<1>5. QED  BY <1>1, <1>3, <1>4

LEMMA SendKeeps ==
  ASSUME StreamInv, Send
  PROVE  StreamInv'
<1> DEFINE r == RequestOf(call)
<1>1. /\ Pending /\ call # NoCall /\ ~call.sent /\ outstanding' = TRUE
      /\ owner' = owner /\ session' = session /\ resets' = resets
      /\ puts' = puts /\ gets' = gets /\ told' = told
      /\ device' = Busy(r) /\ call' = [call EXCEPT !.sent = TRUE]
  BY DEF Send, Pending, history
<1>2. /\ call \in CallRecord /\ call.stage # "none" /\ call.slot \in Slots
      /\ (call.stage # "open" => Used(call.slot))
  BY <1>1, InCall
<1>3. /\ call' \in CallRecord /\ call'.sent /\ call'.op = call.op /\ call'.iocb = call.iocb
      /\ call'.slot = call.slot /\ call'.mode = call.mode /\ call'.stage = call.stage
      /\ call'.result = call.result
  BY <1>1, <1>2 DEF CallRecord
<1>4. call' # NoCall /\ (AtWrite' <=> AtWrite)
  BY <1>2, <1>3, NoCallTypes DEF AtWrite
<1>5. (RequestOf(call))' = r
  BY <1>1, <1>3 DEF RequestOf
<1>6. r \in RequestRecord /\ (r.command = "write" <=> AtWrite)
  BY <1>1, RequestIs
<1> HIDE DEF r
<1>7. /\ device' \in DeviceRecord /\ device'.state = "busy" /\ device'.request = r
      /\ device'.reply = NoReply
  BY <1>1, <1>6, Devices
<1>8. PICK h : h = owner[call.slot].handle
  OBVIOUS
<1>9. ASSUME AtWrite
      PROVE  /\ h \in Handles /\ session[h].state # "none" /\ session[h].commits = 0
             /\ r.handle = h /\ r.offset = Len(session[h].body)
             /\ IsRest(r.data, Len(session[h].body), puts[h])
             /\ \A s \in Slots : Writing(s) /\ owner[s].handle = h => s = call.slot
  BY <1>1, <1>8, <1>9, Requested DEF r
<1>10. \A s \in Slots : /\ ((Used(s))' <=> Used(s)) /\ ((Writing(s))' <=> Writing(s))
                        /\ ~InFlight(s) /\ ((Flushing(s))' <=> Flushing(s))
                        /\ ((InFlight(s))' <=> Flushing(s))
  BY <1>1, <1>3, <1>4 DEF Used, Writing, InFlight, Flushing
<1>11. TypeInv'
  BY <1>1, <1>3, <1>7 DEF StreamInv, TypeInv, DeviceRecord
<1>12. CallInv'
  BY <1>1, <1>2, <1>3, <1>4, <1>10 DEF StreamInv, CallInv
<1>13. LinkInv'
  BY <1>1, <1>5, <1>7 DEF LinkInv
<1>14. OwnerInv'
  BY <1>1, <1>10 DEF StreamInv, OwnerInv, OwnersApart
<1>15. SessionInv'
  <2>1. ASSUME NEW g \in Handles, session[g].state = "none" PROVE (Fresh(g))'
    <3>1. Fresh(g)
      BY <2>1 DEF StreamInv, SessionInv
    <3>2. ~(DeviceWrites(g))'
      BY <1>6, <1>7, <1>9, <2>1 DEF DeviceWrites, Serving
    <3>3. QED  BY <1>1, <1>10, <3>1, <3>2 DEF Fresh
  <2>2. QED  BY <1>1, <2>1 DEF StreamInv, SessionInv
<1>16. DeviceInv'
  <2>1. ASSUME (Serving("write"))'
        PROVE  /\ h \in Handles /\ session'[h].commits = 0
               /\ device'.request.handle = h
               /\ device'.request.offset = Len(session'[h].body)
               /\ IsRest(device'.request.data, Len(session'[h].body), puts'[h])
               /\ \A s \in Slots : (Writing(s))' /\ owner'[s].handle = h => (InFlight(s))'
    <3>1. AtWrite
      BY <1>6, <1>7, <2>1 DEF Serving
    <3>2. QED  BY <1>1, <1>7, <1>9, <1>10, <3>1 DEF Flushing
  <2>2. QED  BY <1>7, <2>1 DEF DeviceInv
<1>17. CacheInv'
  <2> SUFFICES ASSUME NEW s \in Slots, (Writing(s))'
               PROVE  /\ IsRest(owner'[s].cache, owner'[s].offset, puts'[owner'[s].handle])
                      /\ "failed" \notin told'[owner'[s].handle]
                      /\ session'[owner'[s].handle].commits = 0
                      /\ Len(session'[owner'[s].handle].body) = owner'[s].offset
    BY <1>7 DEF CacheInv
  <2>1. QED  BY <1>1, <1>10 DEF StreamInv, CacheInv
<1>18. SizeInv'
  <2>1. \A s \in Slots : (call'.slot = s /\ AtWrite') <=> (call.slot = s /\ AtWrite)
    BY <1>3, <1>4
  <2>2. QED  BY <1>1, <1>7, <1>10, <2>1 DEF StreamInv, SizeInv
<1>19. QED
  BY <1>11, <1>12, <1>13, <1>14, <1>15, <1>16, <1>17, <1>18 DEF StreamInv

-----------------------------------------------------------------------------
(* The replies.                                                            *)
LEMMA Replied ==
  ASSUME StreamInv, Collected, Valid(device.reply)
  PROVE  /\ call # NoCall /\ call.sent /\ call \in CallRecord /\ call.slot \in Slots
         /\ device.state = "ready" /\ device.reply.good /\ device.reply \in ReplyRecord
         /\ device.request.command = IF AtWrite THEN "write" ELSE call.stage
         /\ call.stage \in {"read", "write", "commit"} => device.reply.count <= CacheSize
         /\ device' = Idle /\ outstanding' = FALSE
         /\ call.stage # "open" => Used(call.slot)
<1>1. /\ call # NoCall /\ call.sent /\ device.state = "ready" /\ device.reply.good
      /\ device' = Idle /\ outstanding' = FALSE
      /\ call.stage \in {"read", "write", "commit"} => device.reply.count <= CacheSize
  BY DEF Collected, Waiting, Valid
<1>2. /\ call \in CallRecord /\ call.slot \in Slots /\ call.stage # "none"
      /\ (call.stage # "open" => Used(call.slot))
  BY <1>1, InCall
<1>3. device.request = RequestOf(call) /\ device.reply \in ReplyRecord
  BY <1>1 DEF StreamInv, LinkInv, TypeInv
<1>4. RequestOf(call).command = IF AtWrite THEN "write" ELSE call.stage
  BY <1>1, <1>2, Requests DEF StreamInv
<1>5. QED  BY <1>1, <1>2, <1>3, <1>4

(* An owner o changes to new in what it reads, or is freed.                *)
LEMMA SteadyBut ==
  ASSUME StreamInv, NEW s \in Slots, NEW new \in OwnerRecord, Set(s, new),
         new.iocb \in {owner[s].iocb, Free}, new.handle = owner[s].handle,
         new.mode = owner[s].mode, new.committed = owner[s].committed,
         new.fault = owner[s].fault, new.reading = owner[s].reading,
         Len(new.cache) <= CacheSize, new.pos <= Len(new.cache),
         new.iocb = Free \/ ~Writing(s), ~AtWrite,
         \A t \in Slots : Writing(t) => "failed" \notin told'[owner[t].handle]
  PROVE  /\ owner' \in [Slots -> OwnerRecord]
         /\ \A t \in Slots :
              /\ Steady(t)
              /\ Len(owner'[t].cache) <= CacheSize /\ owner'[t].pos <= Len(owner'[t].cache)
              /\ ~Flushing(t)
<1>1. /\ owner' \in [Slots -> OwnerRecord] /\ owner'[s] = new
      /\ \A t \in Slots : t # s => owner'[t] = owner[t]
  BY SetsOwner DEF StreamInv, TypeInv
<1>2. ASSUME NEW t \in Slots
      PROVE  /\ Steady(t) /\ ~Flushing(t)
             /\ Len(owner'[t].cache) <= CacheSize /\ owner'[t].pos <= Len(owner'[t].cache)
  <2>1. ~Flushing(t) /\ ~InFlight(t)
    BY DEF Flushing, InFlight
  <2>2. (Writing(t))' => Writing(t) /\ t # s
    BY <1>1 DEF Writing, Used
  <2>3. QED  BY <1>1, <2>1, <2>2, InUse DEF Steady
<1>3. QED  BY <1>1, <1>2

LEMMA NotFailed ==
  ASSUME StreamInv, NEW h \in Handles, NEW what, "failed" \notin what,
         \A g \in Handles : told'[g] = IF g = h THEN told[g] \cup what ELSE told[g]
  PROVE  \A t \in Slots : Writing(t) => "failed" \notin told'[owner[t].handle]
<1> SUFFICES ASSUME NEW t \in Slots, Writing(t) PROVE "failed" \notin told'[owner[t].handle]
  OBVIOUS
<1>1. owner[t].handle \in Handles /\ "failed" \notin told[owner[t].handle]
  BY InUse DEF Writing, StreamInv, CacheInv
<1>2. \/ told'[owner[t].handle] = told[owner[t].handle] \cup what
      \/ told'[owner[t].handle] = told[owner[t].handle]
  BY <1>1
<1>3. QED  BY <1>1, <1>2

LEMMA ReadReplyKeeps ==
  ASSUME StreamInv, ReadReply
  PROVE  StreamInv'
<1> SUFFICES ASSUME NEW s \in Slots, s = call.slot PROVE StreamInv'
  BY Replied DEF ReadReply
<1> DEFINE r == device.reply  o == owner[s]  h == owner[s].handle
           a == [owner[s] EXCEPT !.eof = r.eof]  b == [a EXCEPT !.cache = r.data]
           d == [b EXCEPT !.pos = 0]  e == [d EXCEPT !.offset = @ + r.count]
           f == [e EXCEPT !.pos = @ + 1]
<1>1. /\ Collected /\ Valid(r) /\ call.stage = "read" /\ Return
      /\ session' = session /\ resets' = resets /\ puts' = puts
  BY DEF ReadReply
<1>2. /\ call # NoCall /\ r \in ReplyRecord /\ device' = Idle /\ outstanding' = FALSE
      /\ ~AtWrite /\ Used(s) /\ ~Writing(s)
      /\ r.count \in Nat /\ r.count <= CacheSize /\ Len(r.data) = r.count
      /\ r.data \in Seq(Bytes) /\ r.eof \in BOOLEAN
  <2>1. ~AtWrite /\ device.request.command = "read"
    BY <1>1, Replied DEF AtWrite
  <2>2. QED  BY <1>1, <2>1, Replied DEF ReplyRecord, StreamInv, SizeInv, CallInv
<1>3. /\ o \in OwnerRecord /\ h \in Handles /\ session[h].state # "none"
  BY <1>2, InUse
<1>4. /\ e \in OwnerRecord /\ e.iocb = o.iocb /\ e.handle = h /\ e.mode = o.mode
      /\ e.committed = o.committed /\ e.fault = o.fault /\ e.reading = o.reading
      /\ e.cache = r.data /\ e.pos = 0
  <2>1. a \in OwnerRecord /\ SameWriter(a, o) /\ a.reading = o.reading
    BY <1>2, <1>3 DEF OwnerRecord, SameWriter
  <2> HIDE DEF a
  <2>2. b \in OwnerRecord /\ SameWriter(b, a) /\ b.reading = a.reading /\ b.cache = r.data
    BY <1>2, <2>1 DEF OwnerRecord, SameWriter
  <2> HIDE DEF b
  <2>3. d \in OwnerRecord /\ SameWriter(d, b) /\ d.reading = b.reading /\ d.cache = b.cache
        /\ d.pos = 0
    BY <2>2 DEF OwnerRecord, SameWriter
  <2> HIDE DEF d
  <2>4. e \in OwnerRecord /\ SameWriter(e, d) /\ e.reading = d.reading /\ e.cache = d.cache
        /\ e.pos = d.pos
    <3> DEFINE n == d.offset + r.count
    <3>1. e = [d EXCEPT !.offset = n] /\ n \in Nat
      BY <1>2, <2>3 DEF OwnerRecord
    <3> HIDE DEF n, e
    <3>2. QED  BY <2>3, <3>1 DEF OwnerRecord, SameWriter
  <2> HIDE DEF e
  <2>5. QED  BY <2>1, <2>2, <2>3, <2>4 DEF SameWriter
<1>5. /\ r.count = 0 => Set(s, e) /\ Tell(e.handle, {"eof"}) /\ gets' = gets
      /\ r.count # 0 => Deliver(s, e)
  <2>1. e = [o EXCEPT !.eof = r.eof, !.cache = r.data, !.pos = 0, !.offset = @ + r.count]
    BY <1>3 DEF OwnerRecord
  <2> HIDE DEF e
  <2>2. QED  BY <2>1 DEF ReadReply
<1> HIDE DEF e
<1>6. \E new \in OwnerRecord :
        /\ Set(s, new)
        /\ new.iocb = o.iocb /\ new.handle = h /\ new.mode = o.mode
        /\ new.committed = o.committed /\ new.fault = o.fault /\ new.reading = o.reading
        /\ Len(new.cache) <= CacheSize /\ new.pos <= Len(new.cache)
        /\ History /\ \A t \in Slots : Writing(t) => "failed" \notin told'[owner[t].handle]
  <2>1. gets \in [Handles -> Seq(Bytes)]
    BY DEF StreamInv, TypeInv
  <2>2. CASE r.count = 0
    <3>1. Set(s, e) /\ Tell(h, {"eof"}) /\ gets' = gets
      BY <1>4, <1>5, <2>2
    <3>2. History /\ \A g \in Handles : told'[g] = IF g = h THEN told[g] \cup {"eof"} ELSE told[g]
      BY <1>3, <2>1, <3>1, Tells
    <3>3. \A t \in Slots : Writing(t) => "failed" \notin told'[owner[t].handle]
      <4>1. "failed" \notin {"eof"}
        OBVIOUS
      <4>2. QED  BY <1>3, <3>2, <4>1, NotFailed
    <3>4. QED  BY <1>2, <1>4, <2>2, <3>1, <3>2, <3>3
  <2>3. CASE r.count # 0
    <3>1. /\ Set(s, f) /\ told' = told
          /\ gets' = [gets EXCEPT ![h] = Append(@, r.data[1])]
      BY <1>4, <1>5, <2>3 DEF Deliver
    <3>2. /\ f \in OwnerRecord /\ f.iocb = e.iocb /\ f.handle = e.handle /\ f.mode = e.mode
          /\ f.committed = e.committed /\ f.fault = e.fault /\ f.reading = e.reading
          /\ f.cache = e.cache /\ f.pos = 1
      BY <1>4 DEF OwnerRecord
    <3> HIDE DEF f
    <3>3. r.data[1] \in Bytes
      BY <1>2, <2>3, ElementOfSeq
    <3>4. gets' \in [Handles -> Seq(Bytes)] /\ \A g \in Handles : g # h => gets'[g] = gets[g]
      BY <1>3, <2>1, <3>1, <3>3
    <3>5. History
      BY <1>3, <3>1, <3>4 DEF History, StreamInv, TypeInv, SessionInv
    <3>6. \A t \in Slots : Writing(t) => "failed" \notin told'[owner[t].handle]
      BY <3>1 DEF StreamInv, CacheInv
    <3>7. QED  BY <1>2, <1>4, <2>3, <3>1, <3>2, <3>5, <3>6
  <2>4. QED  BY <2>2, <2>3
<1>7. PICK new \in OwnerRecord :
        /\ Set(s, new)
        /\ new.iocb = o.iocb /\ new.handle = h /\ new.mode = o.mode
        /\ new.committed = o.committed /\ new.fault = o.fault /\ new.reading = o.reading
        /\ Len(new.cache) <= CacheSize /\ new.pos <= Len(new.cache)
        /\ History /\ \A t \in Slots : Writing(t) => "failed" \notin told'[owner[t].handle]
  BY <1>6
<1>8. /\ owner' \in [Slots -> OwnerRecord]
      /\ \A t \in Slots :
           /\ Steady(t)
           /\ Len(owner'[t].cache) <= CacheSize /\ owner'[t].pos <= Len(owner'[t].cache)
           /\ ~Flushing(t)
  BY <1>2, <1>7, SteadyBut
<1>9. QuietStep
  BY <1>1, <1>2, <1>7, <1>8, NoCallInv, Devices DEF QuietStep, Return
<1>10. QED  BY <1>2, <1>9, QuietKeeps

LEMMA InfoReplyKeeps ==
  ASSUME StreamInv, InfoReply
  PROVE  StreamInv'
<1> SUFFICES ASSUME NEW s \in Slots, s = call.slot PROVE StreamInv'
  BY Replied DEF InfoReply
<1> DEFINE o == owner[s]  h == owner[s].handle
           what == (IF o.mode = "get" THEN {} ELSE {"committed"})
             \cup (IF o.mode # "put" /\ o.eof /\ o.pos >= Len(o.cache) THEN {"eof"} ELSE {})
<1>1. /\ Collected /\ Valid(device.reply) /\ call.stage = "info" /\ Return
      /\ Tell(h, what) /\ owner' = owner /\ session' = session /\ resets' = resets
      /\ puts' = puts /\ gets' = gets
  BY DEF InfoReply
<1>2. /\ call # NoCall /\ device' = Idle /\ outstanding' = FALSE /\ ~AtWrite /\ Used(s)
      /\ call.result
  BY <1>1, Replied DEF AtWrite, StreamInv, CallInv
<1>3. h \in Handles /\ session[h].state # "none" /\ owner \in [Slots -> OwnerRecord]
      /\ gets \in [Handles -> Seq(Bytes)]
  BY <1>2, InUse DEF StreamInv, TypeInv
<1>4. /\ what \in SUBSET {"committed", "eof", "failed"} /\ "failed" \notin what
      /\ "committed" \in what => session[h].commits = 1
  BY <1>1, <1>2 DEF StreamInv, CallInv, OwnerInv
<1> HIDE DEF what
<1>5. History /\ \A g \in Handles : told'[g] = IF g = h THEN told[g] \cup what ELSE told[g]
  BY <1>1, <1>3, <1>4, Tells
<1>6. \A t \in Slots : Writing(t) => "failed" \notin told'[owner[t].handle]
  BY <1>3, <1>4, <1>5, NotFailed
<1>7. ASSUME NEW t \in Slots
      PROVE  /\ Steady(t) /\ ~Flushing(t)
             /\ Len(owner'[t].cache) <= CacheSize /\ owner'[t].pos <= Len(owner'[t].cache)
  <2>1. ~Flushing(t) /\ ~InFlight(t) /\ ((Writing(t))' <=> Writing(t))
    BY <1>1, <1>2 DEF Flushing, InFlight, Writing, Used
  <2>2. QED  BY <1>1, <1>6, <2>1, InUse DEF Steady
<1>8. QuietStep
  BY <1>1, <1>2, <1>3, <1>5, <1>7, NoCallInv, Devices DEF QuietStep, Return
<1>9. QED  BY <1>2, <1>8, QuietKeeps

LEMMA CloseReplyKeeps ==
  ASSUME StreamInv, CloseReply
  PROVE  StreamInv'
<1> SUFFICES ASSUME NEW s \in Slots, s = call.slot PROVE StreamInv'
  BY Replied DEF CloseReply
<1> DEFINE o == owner[s]  h == owner[s].handle  new == [owner[s] EXCEPT !.iocb = Free]
           what == IF o.mode # "get" /\ call.result THEN {"committed"} ELSE {}
<1>1. /\ Collected /\ Valid(device.reply) /\ call.stage = "close" /\ Return
      /\ Set(s, new) /\ Tell(h, what) /\ session' = session /\ resets' = resets
      /\ puts' = puts /\ gets' = gets
  BY DEF CloseReply
<1>2. /\ call # NoCall /\ device' = Idle /\ outstanding' = FALSE /\ ~AtWrite /\ Used(s)
  BY <1>1, Replied DEF AtWrite
<1>3. /\ o \in OwnerRecord /\ h \in Handles /\ session[h].state # "none"
      /\ gets \in [Handles -> Seq(Bytes)]
      /\ Len(o.cache) <= CacheSize /\ o.pos <= Len(o.cache)
  BY <1>2, InUse DEF StreamInv, TypeInv
<1>4. /\ what \in SUBSET {"committed", "eof", "failed"} /\ "failed" \notin what
      /\ "committed" \in what => session[h].commits = 1
  BY <1>1, <1>2 DEF StreamInv, CallInv, OwnerInv
<1> HIDE DEF what
<1>5. History /\ \A g \in Handles : told'[g] = IF g = h THEN told[g] \cup what ELSE told[g]
  BY <1>1, <1>3, <1>4, Tells
<1>6. \A t \in Slots : Writing(t) => "failed" \notin told'[owner[t].handle]
  BY <1>3, <1>4, <1>5, NotFailed
<1>7. /\ new \in OwnerRecord /\ new.iocb = Free /\ new.handle = h /\ new.mode = o.mode
      /\ new.committed = o.committed /\ new.fault = o.fault /\ new.reading = o.reading
      /\ new.cache = o.cache /\ new.pos = o.pos
  BY <1>3 DEF OwnerRecord
<1> HIDE DEF new
<1>8. /\ owner' \in [Slots -> OwnerRecord]
      /\ \A t \in Slots :
           /\ Steady(t)
           /\ Len(owner'[t].cache) <= CacheSize /\ owner'[t].pos <= Len(owner'[t].cache)
           /\ ~Flushing(t)
  BY <1>1, <1>2, <1>3, <1>6, <1>7, SteadyBut
<1>9. QuietStep
  BY <1>1, <1>2, <1>5, <1>8, NoCallInv, Devices DEF QuietStep, Return
<1>10. QED  BY <1>2, <1>9, QuietKeeps

LEMMA NewOwners ==
  ASSUME call.iocb \in Iocbs, call.mode \in Modes, NEW h \in Handles
  PROVE  LET new == NewOwner(call, h) IN
         /\ new \in OwnerRecord /\ new.iocb = call.iocb /\ new.mode = call.mode /\ new.handle = h
         /\ new.offset = 0 /\ new.cache = <<>> /\ new.pos = 0 /\ ~new.fault /\ ~new.committed
         /\ ~new.reading /\ ~new.eof
<1> DEFINE new == NewOwner(call, h)
<1>1. FreeOwner \in OwnerRecord
  BY Sizes DEF FreeOwner, OwnerRecord, Modes
<1> DEFINE a == [FreeOwner EXCEPT !.iocb = call.iocb]  b == [a EXCEPT !.mode = call.mode]
           d == [b EXCEPT !.handle = h]
<1>2. new = d
  BY DEF NewOwner, FreeOwner
<1>3. /\ a \in OwnerRecord /\ a.iocb = call.iocb /\ a.offset = 0 /\ a.cache = <<>> /\ a.pos = 0
      /\ ~a.fault /\ ~a.committed /\ ~a.reading /\ ~a.eof
  BY <1>1 DEF OwnerRecord, FreeOwner
<1> HIDE DEF a
<1>4. /\ b \in OwnerRecord /\ b.iocb = a.iocb /\ b.mode = call.mode
      /\ b.offset = 0 /\ b.cache = <<>> /\ b.pos = 0
      /\ ~b.fault /\ ~b.committed /\ ~b.reading /\ ~b.eof
  BY <1>3 DEF OwnerRecord
<1> HIDE DEF b
<1>5. /\ d \in OwnerRecord /\ d.iocb = b.iocb /\ d.mode = b.mode /\ d.handle = h
      /\ d.offset = 0 /\ d.cache = <<>> /\ d.pos = 0
      /\ ~d.fault /\ ~d.committed /\ ~d.reading /\ ~d.eof
  BY <1>4 DEF OwnerRecord
<1> HIDE DEF d, new
<1>6. new \in OwnerRecord /\ new.iocb = call.iocb /\ new.mode = call.mode /\ new.handle = h
  BY <1>2, <1>3, <1>4, <1>5
<1>7. QED  BY <1>2, <1>5, <1>6 DEF new

LEMMA OpenReplyKeeps ==
  ASSUME StreamInv, OpenReply
  PROVE  StreamInv'
<1> SUFFICES ASSUME NEW s \in Slots, s = call.slot PROVE StreamInv'
  BY Replied DEF OpenReply
<1> DEFINE h == device.reply.handle  new == NewOwner(call, device.reply.handle)
<1>1. /\ Collected /\ Valid(device.reply) /\ call.stage = "open" /\ call' = NoCall
      /\ Set(s, new) /\ session' = session /\ resets' = resets
      /\ puts' = puts /\ gets' = gets /\ told' = told
  BY DEF OpenReply, Return, history
<1>2. /\ call # NoCall /\ call.sent /\ device' = Idle /\ outstanding' = FALSE /\ ~AtWrite
      /\ call \in CallRecord
      /\ device.state = "ready" /\ device.reply.good /\ device.request.command = "open"
  BY <1>1, Replied DEF AtWrite
<1>3. /\ ~Used(s) /\ call.iocb # Free /\ \A t \in Slots : owner[t].iocb # call.iocb
      /\ call.iocb \in Iocbs /\ call.mode \in Modes
  BY <1>1, <1>2 DEF StreamInv, CallInv, CallRecord
<1>4. h \in Handles /\ Fresh(h) /\ session[h].state # "none"
  BY <1>2 DEF StreamInv, DeviceInv
<1>5. /\ new \in OwnerRecord /\ new.iocb = call.iocb /\ new.mode = call.mode /\ new.handle = h
      /\ new.offset = 0 /\ new.cache = <<>> /\ new.pos = 0 /\ ~new.fault /\ ~new.committed
      /\ ~new.reading
  BY <1>3, <1>4, NewOwners
<1> HIDE DEF new
<1>6. /\ owner' \in [Slots -> OwnerRecord] /\ owner'[s] = new
      /\ \A t \in Slots : t # s => owner'[t] = owner[t]
  BY <1>1, <1>5, SetsOwner DEF StreamInv, TypeInv
<1>7. \A t \in Slots : /\ ~Flushing(t) /\ ~InFlight(t)
                       /\ t # s => ((Used(t))' <=> Used(t)) /\ ((Writing(t))' <=> Writing(t))
                       /\ t # s /\ Used(t) => owner[t].handle # h
  BY <1>2, <1>4, <1>6 DEF Used, Writing, Flushing, InFlight, Fresh
<1>8. device'.state = "idle" /\ device' \in DeviceRecord
  BY <1>2, Devices
<1>9. TypeInv'
  BY <1>1, <1>2, <1>6, <1>8, NoCallTypes DEF StreamInv, TypeInv, DeviceRecord
<1>10. CallInv' /\ LinkInv' /\ DeviceInv'
  BY <1>1, <1>8, NoCallInv DEF LinkInv, DeviceInv, Serving
<1>11. OwnerInv'
  <2>1. OwnersApart'
    BY <1>3, <1>5, <1>6, <1>7 DEF StreamInv, OwnerInv, OwnersApart, Used
  <2>2. ASSUME NEW t \in Slots, (Used(t))'
        PROVE  /\ owner'[t].handle \in Handles /\ session'[owner'[t].handle].state # "none"
               /\ owner'[t].reading => owner'[t].committed /\ owner'[t].mode = "post"
               /\ owner'[t].committed => /\ owner'[t].mode # "get"
                                         /\ session'[owner'[t].handle].commits = 1
    <3>1. CASE t = s
      BY <1>1, <1>4, <1>5, <1>6, <3>1
    <3>2. CASE t # s
      BY <1>1, <1>6, <1>7, <2>2, <3>2 DEF StreamInv, OwnerInv
    <3>3. QED  BY <3>1, <3>2
  <2>3. QED  BY <2>1, <2>2 DEF OwnerInv
<1>12. SessionInv'
  <2>1. ASSUME NEW g \in Handles, session[g].state = "none" PROVE (Fresh(g))'
    <3>1. Fresh(g) /\ g # h
      BY <1>4, <2>1 DEF StreamInv, SessionInv
    <3>2. \A t \in Slots : (Used(t))' => owner'[t].handle # g
      BY <1>5, <1>6, <1>7, <3>1 DEF Fresh
    <3>3. QED  BY <1>1, <1>8, <3>1, <3>2 DEF Fresh, DeviceWrites, Serving
  <2>2. QED  BY <1>1, <2>1 DEF StreamInv, SessionInv
<1>13. CacheInv'
  <2> SUFFICES ASSUME NEW t \in Slots, (Writing(t))'
               PROVE  /\ IsRest(owner'[t].cache, owner'[t].offset, puts'[owner'[t].handle])
                      /\ "failed" \notin told'[owner'[t].handle]
                      /\ session'[owner'[t].handle].commits = 0
                      /\ Len(session'[owner'[t].handle].body) = owner'[t].offset
    BY <1>8 DEF CacheInv
  <2>1. CASE t = s
    <3>1. /\ puts[h] = <<>> /\ told[h] = {} /\ session[h].commits = 0
          /\ session[h].body = <<>>
      BY <1>4 DEF Fresh
    <3>2. IsRest(<<>>, 0, <<>>)
      BY Sizes, Whole
    <3>3. QED  BY <1>1, <1>5, <1>6, <2>1, <3>1, <3>2, Sizes
  <2>2. CASE t # s
    BY <1>1, <1>6, <1>7, <2>2 DEF StreamInv, CacheInv
  <2>3. QED  BY <2>1, <2>2
<1>14. SizeInv'
  <2>1. ASSUME NEW t \in Slots
        PROVE  /\ Len(owner'[t].cache) <= CacheSize /\ owner'[t].pos <= Len(owner'[t].cache)
               /\ (Writing(t))' => owner'[t].pos = 0 /\ Len(owner'[t].cache) < CacheSize
    <3>1. CASE t = s
      BY <1>5, <1>6, <3>1, Sizes
    <3>2. CASE t # s
      BY <1>6, <1>7, <3>2 DEF StreamInv, SizeInv, Flushing
    <3>3. QED  BY <3>1, <3>2
  <2>2. QED  BY <1>8, <2>1 DEF SizeInv
<1>15. QED  BY <1>9, <1>10, <1>11, <1>12, <1>13, <1>14 DEF StreamInv

(* The owner of a WRITE that was answered changes to new.                  *)
Settled(s, new) ==
  /\ new.iocb = owner[s].iocb /\ new.handle = owner[s].handle /\ new.mode = owner[s].mode
  /\ new.reading => new.committed /\ new.mode = "post"
  /\ new.committed => session[owner[s].handle].commits = 1
  /\ ~new.committed => /\ new.pos = 0 /\ IsRest(new.cache, new.offset, puts[owner[s].handle])
                       /\ session[owner[s].handle].commits = 0
                       /\ Len(session[owner[s].handle].body) = new.offset
  /\ Len(new.cache) <= CacheSize /\ new.pos <= Len(new.cache)

LEMMA Settles ==
  ASSUME StreamInv, NEW s \in Slots, NEW new \in OwnerRecord, Set(s, new),
         Writing(s), Flushing(s), device' = Idle, outstanding' = FALSE,
         UNCHANGED <<session, resets, puts, gets, told>>,
         Settled(s, new),
         call' \in CallRecord, ~call'.sent, CallInv',
         ~new.committed => (call'.slot = s /\ AtWrite') \/ Len(new.cache) < CacheSize
  PROVE  StreamInv'
<1> USE DEF Settled
<1> DEFINE h == owner[s].handle
<1>1. /\ session' = session /\ resets' = resets /\ puts' = puts /\ gets' = gets /\ told' = told
      /\ device' \in DeviceRecord /\ device'.state = "idle"
  BY Devices
<1>2. /\ owner' \in [Slots -> OwnerRecord] /\ owner'[s] = new
      /\ \A t \in Slots : t # s => owner'[t] = owner[t]
  BY SetsOwner DEF StreamInv, TypeInv
<1>3. /\ h \in Handles /\ session[h].state # "none" /\ owner[s].mode # "get"
      /\ "failed" \notin told[h]
  BY InUse DEF Writing, StreamInv, CacheInv
<1>4. \A t \in Slots : /\ owner'[t].iocb = owner[t].iocb /\ owner'[t].handle = owner[t].handle
                       /\ ((Used(t))' <=> Used(t)) /\ ~(InFlight(t))'
                       /\ t # s => ((Writing(t))' <=> Writing(t)) /\ ~Flushing(t) /\ ~InFlight(t)
  BY <1>2 DEF Used, Writing, Flushing, InFlight
<1>5. TypeInv'
  BY <1>1, <1>2 DEF StreamInv, TypeInv, DeviceRecord
<1>6. LinkInv' /\ DeviceInv'
  BY <1>1 DEF LinkInv, DeviceInv, Serving
<1>7. OwnerInv'
  <2>1. OwnersApart'
    BY <1>4 DEF StreamInv, OwnerInv, OwnersApart, Used
  <2>2. ASSUME NEW t \in Slots, (Used(t))'
        PROVE  /\ owner'[t].handle \in Handles /\ session'[owner'[t].handle].state # "none"
               /\ owner'[t].reading => owner'[t].committed /\ owner'[t].mode = "post"
               /\ owner'[t].committed => /\ owner'[t].mode # "get"
                                         /\ session'[owner'[t].handle].commits = 1
    <3>1. CASE t = s
      BY <1>1, <1>2, <1>3, <3>1
    <3>2. CASE t # s
      BY <1>1, <1>2, <1>4, <2>2, <3>2 DEF StreamInv, OwnerInv
    <3>3. QED  BY <3>1, <3>2
  <2>3. QED  BY <2>1, <2>2 DEF OwnerInv
<1>8. SessionInv'
  <2>1. ASSUME NEW g \in Handles, session[g].state = "none" PROVE (Fresh(g))'
    <3>1. Fresh(g)
      BY <2>1 DEF StreamInv, SessionInv
    <3>2. QED  BY <1>1, <1>4, <3>1 DEF Fresh, DeviceWrites, Serving
  <2>2. QED  BY <1>1, <2>1 DEF StreamInv, SessionInv
<1>9. CacheInv'
  <2> SUFFICES ASSUME NEW t \in Slots, (Writing(t))'
               PROVE  /\ IsRest(owner'[t].cache, owner'[t].offset, puts'[owner'[t].handle])
                      /\ "failed" \notin told'[owner'[t].handle]
                      /\ session'[owner'[t].handle].commits = 0
                      /\ Len(session'[owner'[t].handle].body) = owner'[t].offset
    BY <1>4 DEF CacheInv
  <2>1. CASE t = s
    <3>1. ~new.committed
      BY <1>2, <2>1 DEF Writing
    <3>2. QED  BY <1>1, <1>2, <1>3, <2>1, <3>1
  <2>2. CASE t # s
    BY <1>1, <1>2, <1>4, <2>2 DEF StreamInv, CacheInv
  <2>3. QED  BY <2>1, <2>2
<1>10. SizeInv'
  <2>1. ASSUME NEW t \in Slots
        PROVE  /\ Len(owner'[t].cache) <= CacheSize /\ owner'[t].pos <= Len(owner'[t].cache)
               /\ (Writing(t))' => owner'[t].pos = 0
               /\ (Writing(t))' /\ ~(Flushing(t))' => Len(owner'[t].cache) < CacheSize
    <3>1. CASE t = s
      BY <1>2, <3>1 DEF Writing, Flushing
    <3>2. CASE t # s
      BY <1>2, <1>4, <3>2 DEF StreamInv, SizeInv, Flushing
    <3>3. QED  BY <3>1, <3>2
  <2>2. QED  BY <1>1, <2>1 DEF SizeInv, Flushing
<1>11. QED  BY <1>5, <1>6, <1>7, <1>8, <1>9, <1>10 DEF StreamInv

LEMMA Acknowledged ==
  ASSUME NEW o \in OwnerRecord, NEW count \in Nat, count <= Len(o.cache)
  PROVE  /\ Acknowledge(o, count) \in OwnerRecord
         /\ SameWriter(Acknowledge(o, count), o)
         /\ Acknowledge(o, count).reading = o.reading /\ Acknowledge(o, count).pos = o.pos
         /\ Acknowledge(o, count).eof = o.eof
         /\ Acknowledge(o, count).offset = o.offset + count
         /\ Acknowledge(o, count).cache = SubSeq(o.cache, count + 1, Len(o.cache))
         /\ Len(Acknowledge(o, count).cache) = Len(o.cache) - count
<1> DEFINE cache == SubSeq(o.cache, count + 1, Len(o.cache))  n == o.offset + count
           a == [o EXCEPT !.offset = n]  b == [a EXCEPT !.cache = cache]
<1>1. o.cache \in Seq(Bytes) /\ o.offset \in Nat /\ n \in Nat
  BY DEF OwnerRecord
<1>2. cache \in Seq(Bytes) /\ Len(cache) = Len(o.cache) - count
  <2> DEFINE p == o.cache
  <2>1. p \in Seq(Bytes) /\ IsRest(cache, count, p)
    BY <1>1, LenProperties DEF IsRest
  <2> HIDE DEF cache, p
  <2>2. cache \in Seq(Bytes) /\ Len(cache) = Len(p) - count
    BY <2>1, Rests
  <2>3. QED  BY <2>2 DEF p
<1>3. Acknowledge(o, count) = b
  BY DEF Acknowledge, OwnerRecord
<1> HIDE DEF cache, n
<1>4. a \in OwnerRecord /\ SameWriter(a, o) /\ a.reading = o.reading /\ a.pos = o.pos
      /\ a.offset = n /\ a.eof = o.eof
  BY <1>1 DEF OwnerRecord, SameWriter
<1> HIDE DEF a
<1>5. b \in OwnerRecord /\ SameWriter(b, a) /\ b.reading = a.reading /\ b.pos = a.pos
      /\ b.offset = a.offset /\ b.cache = cache /\ b.eof = a.eof
  BY <1>2, <1>4 DEF OwnerRecord, SameWriter
<1> HIDE DEF b
<1>6. QED  BY <1>2, <1>3, <1>4, <1>5 DEF SameWriter, n, cache

LEMMA WriteReplyKeeps ==
  ASSUME StreamInv, WriteReply
  PROVE  StreamInv'
<1> SUFFICES ASSUME NEW s \in Slots, s = call.slot PROVE StreamInv'
  BY Replied DEF WriteReply
<1> DEFINE o == owner[s]  h == owner[s].handle  count == device.reply.count
<1>1. /\ Collected /\ Valid(device.reply) /\ call.stage \in {"write", "commit"}
      /\ session' = session /\ resets' = resets
  BY DEF WriteReply
<1>2. /\ call # NoCall /\ call.sent /\ device' = Idle /\ outstanding' = FALSE
      /\ call \in CallRecord /\ device.state = "ready" /\ device.reply.good
      /\ count \in Nat
  BY <1>1, Replied DEF ReplyRecord
<1>3. /\ AtWrite /\ Writing(s) /\ Flushing(s) /\ InFlight(s) /\ call.result
      /\ (call.stage = "commit" <=> o.cache = <<>>) /\ (call.op = "put" => call.stage = "write")
      /\ (call.op = "get" => o.mode = "post") /\ call.op \in {"put", "get", "status", "close"}
  BY <1>1, <1>2 DEF StreamInv, CallInv, AtWrite, Flushing, InFlight
<1>4. /\ o \in OwnerRecord /\ h \in Handles /\ session[h].state # "none"
      /\ o.cache \in Seq(Bytes) /\ Len(o.cache) \in Nat /\ Len(o.cache) <= CacheSize
      /\ o.offset \in Nat
      /\ o.pos = 0 /\ ~o.committed /\ ~o.reading /\ o.mode # "get"
      /\ Used(s)
  BY <1>3, InUse DEF Writing, StreamInv, OwnerInv, SizeInv
<1>5. /\ IsRest(o.cache, o.offset, puts[h]) /\ count <= Len(o.cache)
      /\ Len(session[h].body) = o.offset + count
      /\ session[h].commits = IF call.stage = "commit" THEN 1 ELSE 0
      /\ puts \in [Handles -> Seq(Bytes)]
  BY <1>2, <1>3 DEF StreamInv, CacheInv, TypeInv
<1>6. o.cache # <<>> => Len(o.cache) > 0
  BY <1>4, Lengths
<1>7. CASE /\ call.stage = "commit" /\ AfterCommit(call, [o EXCEPT !.committed = TRUE])
           /\ UNCHANGED <<puts, gets, told>>
  <2> DEFINE new == [o EXCEPT !.committed = TRUE]
  <2>0. UNCHANGED <<session, resets, puts, gets, told>>
    BY <1>1, <1>7
  <2>1. /\ new \in OwnerRecord /\ new.iocb = o.iocb /\ new.handle = h /\ new.mode = o.mode
        /\ new.fault = o.fault /\ new.committed /\ new.cache = o.cache /\ new.pos = o.pos
        /\ ~new.reading
    BY <1>4 DEF OwnerRecord
  <2>2. AfterCommit(call, new) /\ session[h].commits = 1 /\ call.op # "put"
    BY <1>3, <1>5, <1>7
  <2> HIDE DEF new
  <2>3. CASE call.op = "get"
    <3> DEFINE r == RewindForReading(new)
    <3>1. Set(s, r) /\ Exchange(call, "read")
      BY <2>2, <2>3 DEF AfterCommit
    <3>2. /\ r \in OwnerRecord /\ SameWriter(r, new) /\ r.reading /\ r.cache = <<>> /\ r.pos = 0
      BY <2>1, Rewinds
    <3> HIDE DEF r
    <3>3. /\ call' \in CallRecord /\ call'.stage = "read" /\ ~call'.sent /\ call'.op = "get"
          /\ call'.slot = s /\ call'.result /\ call' # NoCall
      BY <1>2, <1>3, <2>3, <3>1, Exchanges DEF Stages
    <3>4. owner'[s] = r
      BY <3>1, <3>2, SetsOwner DEF StreamInv, TypeInv
    <3>5. CallInv'
      BY <1>4, <2>1, <3>2, <3>3, <3>4 DEF CallInv, AtWrite, Used, Writing, SameWriter
    <3>6. Len(r.cache) <= CacheSize /\ r.pos <= Len(r.cache)
      BY <3>2, Sizes
    <3>7. r.iocb = o.iocb /\ r.handle = h /\ r.mode = o.mode /\ r.committed /\ r.mode = "post"
      BY <1>3, <2>1, <2>3, <3>2 DEF SameWriter
    <3>8. QED
      <4>1. Settled(s, r)
        BY <2>2, <3>6, <3>7 DEF Settled
      <4>2. QED  BY <1>2, <1>3, <2>0, <3>1, <3>2, <3>3, <3>5, <3>7, <4>1, Settles
  <2>4. CASE call.op # "get"
    <3> DEFINE stage == IF call.op = "status" THEN "info" ELSE "close"
    <3>1. Set(s, new) /\ Exchange(call, stage)
      BY <2>2, <2>4 DEF AfterCommit
    <3>2. stage \in Stages /\ stage \in {"info", "close"} /\ (stage = "close" => call.op = "close")
      BY <1>3, <2>2, <2>4 DEF Stages
    <3> HIDE DEF stage
    <3>3. /\ call' \in CallRecord /\ call'.stage = stage /\ ~call'.sent /\ call'.op = call.op
          /\ call'.slot = s /\ call'.result /\ call' # NoCall
      BY <1>2, <1>3, <3>1, <3>2, Exchanges
    <3>4. owner'[s] = new
      BY <2>1, <3>1, SetsOwner DEF StreamInv, TypeInv
    <3>5. CallInv'
      BY <1>4, <2>1, <3>2, <3>3, <3>4 DEF CallInv, AtWrite, Used
    <3>6. Len(new.cache) <= CacheSize /\ new.pos <= Len(new.cache)
      BY <1>4, <2>1
    <3>7. QED
      <4>1. Settled(s, new)
        BY <2>1, <2>2, <3>6 DEF Settled
      <4>2. QED  BY <1>2, <1>3, <2>0, <2>1, <3>1, <3>3, <3>5, <4>1, Settles
  <2>5. QED  BY <2>3, <2>4
<1> DEFINE new == Acknowledge(o, count)
<1>8. /\ new \in OwnerRecord /\ new.iocb = o.iocb /\ new.handle = h /\ new.mode = o.mode
      /\ new.fault = o.fault /\ ~new.committed /\ ~new.reading /\ new.pos = o.pos
      /\ new.offset = o.offset + count /\ Len(new.cache) = Len(o.cache) - count
      /\ IsRest(new.cache, new.offset, puts[h])
  <2>1. /\ new \in OwnerRecord /\ SameWriter(new, o) /\ new.reading = o.reading
        /\ new.pos = o.pos /\ new.offset = o.offset + count
        /\ new.cache = SubSeq(o.cache, count + 1, Len(o.cache))
        /\ Len(new.cache) = Len(o.cache) - count
    BY <1>2, <1>4, <1>5, Acknowledged
  <2>2. puts[h] \in Seq(Bytes) /\ count \in 0..Len(o.cache)
    BY <1>2, <1>4, <1>5
  <2> HIDE DEF new
  <2>3. IsRest(SubSeq(o.cache, count + 1, Len(o.cache)), o.offset + count, puts[h])
    BY <1>5, <2>2, RestOfRest
  <2>4. QED  BY <1>4, <2>1, <2>3 DEF SameWriter
<1> HIDE DEF new
<1>9. CASE /\ Partial(o, count) /\ Set(s, new) /\ Exchange(call, "write")
           /\ UNCHANGED <<puts, gets, told>>
  <2>1. /\ count > 0 /\ count < Len(o.cache)
    BY <1>9 DEF Partial
  <2>2. o.cache # <<>> /\ call.stage = "write" /\ session[h].commits = 0
    <3>1. Len(o.cache) # 0
      BY <1>2, <1>4, <2>1
    <3>2. o.cache # <<>>
      BY <1>4, <3>1, Lengths
    <3>3. QED  BY <1>1, <1>3, <1>5, <3>2
  <2>3. Settled(s, new)
    <3>1. Len(new.cache) <= CacheSize /\ new.pos = 0 /\ new.pos <= Len(new.cache)
      <4>1. /\ Len(new.cache) = Len(o.cache) - count /\ count < Len(o.cache) /\ count > 0
            /\ Len(o.cache) <= CacheSize
        BY <1>4, <1>8, <2>1
      <4>2. Len(o.cache) \in Nat /\ count \in Nat /\ CacheSize \in Nat
        BY <1>2, <1>4, Sizes
      <4>3. new.pos = 0
        BY <1>4, <1>8
      <4> DEFINE m == Len(o.cache)  n == Len(new.cache)
      <4> HIDE DEF m, n
      <4>4. n = m - count /\ count < m /\ count > 0 /\ m <= CacheSize /\ m \in Nat
        BY <4>1, <4>2 DEF m, n
      <4>5. n <= CacheSize /\ 0 <= n
        BY <4>2, <4>4
      <4>6. QED  BY <4>3, <4>5 DEF n
    <3>2. Len(session[h].body) = new.offset
      BY <1>5, <1>8
    <3>3. QED  BY <1>8, <2>2, <3>1, <3>2 DEF Settled
  <2>4. /\ call' \in CallRecord /\ call'.stage = "write" /\ ~call'.sent /\ call'.op = call.op
        /\ call'.slot = s /\ call'.result /\ call' # NoCall
    BY <1>2, <1>3, <1>9, Exchanges DEF Stages
  <2>5. owner'[s] = new
    BY <1>8, <1>9, SetsOwner DEF StreamInv, TypeInv
  <2>6. (Used(s))' /\ (Writing(s))' /\ owner'[s].cache # <<>> /\ owner'[s].mode = o.mode
    <3>1. new.cache \in Seq(Bytes) /\ Len(new.cache) # 0
      BY <1>2, <1>4, <1>8, <2>1 DEF OwnerRecord
    <3>2. new.cache # <<>>
      BY <3>1, Lengths
    <3>3. QED  BY <1>3, <1>8, <2>5, <3>2 DEF Used, Writing
  <2>7. CallInv'
    BY <1>3, <2>4, <2>6 DEF CallInv, AtWrite
  <2>8. UNCHANGED <<session, resets, puts, gets, told>>
    BY <1>1, <1>9
  <2>9. call'.slot = s /\ AtWrite'
    BY <2>4 DEF AtWrite
  <2>10. QED  BY <1>2, <1>3, <1>8, <1>9, <2>3, <2>4, <2>7, <2>8, <2>9, Settles
<1>10. CASE /\ count = Len(o.cache) /\ call.stage = "write" /\ Set(s, new)
            /\ IF call.op = "put" THEN Return ELSE Exchange(call, "commit")
            /\ UNCHANGED <<puts, gets, told>>
  <2>1. session[h].commits = 0 /\ Len(new.cache) = 0 /\ new.cache = <<>>
    <3>1. session[h].commits = 0 /\ Len(new.cache) = 0 /\ new.cache \in Seq(Bytes)
      BY <1>4, <1>5, <1>8, <1>10 DEF OwnerRecord
    <3>2. QED  BY <3>1, Lengths
  <2>2. Settled(s, new) /\ Len(new.cache) < CacheSize
    BY <1>2, <1>4, <1>5, <1>8, <1>10, <2>1, Sizes DEF Settled
  <2>3. owner'[s] = new
    BY <1>8, <1>10, SetsOwner DEF StreamInv, TypeInv
  <2>4. (Used(s))' /\ (Writing(s))' /\ owner'[s].cache = <<>> /\ owner'[s].mode = o.mode
    BY <1>3, <1>8, <2>1, <2>3 DEF Used, Writing
  <2>5. call' \in CallRecord /\ ~call'.sent /\ CallInv'
    <3>1. CASE call.op = "put"
      BY <1>10, <3>1, NoCallInv DEF Return
    <3>2. CASE call.op # "put"
      <4>1. /\ call' \in CallRecord /\ call'.stage = "commit" /\ ~call'.sent
            /\ call'.op = call.op /\ call'.slot = s /\ call'.result /\ call' # NoCall
        BY <1>2, <1>3, <1>10, <3>2, Exchanges DEF Stages
      <4>2. CallInv'
        BY <1>3, <2>4, <3>2, <4>1 DEF CallInv, AtWrite
      <4>3. QED  BY <4>1, <4>2
    <3>3. QED  BY <3>1, <3>2
  <2>6. UNCHANGED <<session, resets, puts, gets, told>>
    BY <1>1, <1>10
  <2>7. QED  BY <1>2, <1>3, <1>8, <1>10, <2>2, <2>5, <2>6, Settles
<1>11. CASE ExchangeFails(call)
  <2>1. outstanding' \in BOOLEAN /\ device'.state = "idle"
    BY <1>2, Devices
  <2>2. QuietStep
    BY <1>1, <1>2, <1>11, <2>1, FailureIsQuiet
  <2>3. QED  BY <1>2, <2>2, QuietKeeps
<1>12. QED
  <2>1. \/ Partial(o, count) /\ Set(s, new) /\ Exchange(call, "write") /\ UNCHANGED history
        \/ /\ call.stage = "commit" /\ AfterCommit(call, [o EXCEPT !.committed = TRUE])
           /\ UNCHANGED history
        \/ /\ count = Len(o.cache) /\ call.stage = "write" /\ Set(s, new)
           /\ IF call.op = "put" THEN Return ELSE Exchange(call, "commit")
           /\ UNCHANGED history
        \/ ExchangeFails(call)
    BY DEF WriteReply, new
  <2>2. UNCHANGED history => UNCHANGED <<puts, gets, told>>
    BY DEF history
  <2>3. QED  BY <1>7, <1>9, <1>10, <1>11, <2>1, <2>2

-----------------------------------------------------------------------------
(* The FujiNet.                                                            *)
Elsewhere ==
  /\ owner' = owner /\ outstanding' = outstanding /\ call' = call
  /\ resets' \in 0..MaxResets /\ puts' = puts /\ gets' = gets /\ told' = told

LEMMA SameLocal ==
  ASSUME StreamInv, Elsewhere
  PROVE  /\ CallInv' /\ (RequestOf(call))' = RequestOf(call)
         /\ \A s \in Slots : /\ ((Used(s))' <=> Used(s)) /\ ((Writing(s))' <=> Writing(s))
                             /\ ((InFlight(s))' <=> InFlight(s))
                             /\ ((Flushing(s))' <=> Flushing(s))
<1>1. owner' = owner /\ call' = call
  BY DEF Elsewhere
<1>2. /\ (AtWrite' <=> AtWrite) /\ (RequestOf(call))' = RequestOf(call)
      /\ \A s \in Slots : /\ ((Used(s))' <=> Used(s)) /\ ((Writing(s))' <=> Writing(s))
  BY <1>1 DEF AtWrite, RequestOf, Used, Writing
<1>3. \A s \in Slots : ((InFlight(s))' <=> InFlight(s)) /\ ((Flushing(s))' <=> Flushing(s))
  BY <1>1, <1>2 DEF InFlight, Flushing
<1>4. call.slot \in Slots /\ CallInv
  BY DEF StreamInv, TypeInv, CallRecord
<1>5. CallInv'
  BY <1>1, <1>2, <1>4 DEF CallInv
<1>6. QED  BY <1>2, <1>3, <1>5

(* The device is done with a request, and no body changed.                 *)
LEMMA Served ==
  ASSUME StreamInv, Elsewhere, device' \in DeviceRecord, device'.state # "busy",
         device'.state = "ready" => device.state = "busy" /\ device'.request = device.request,
         outstanding \/ device'.state = "idle",
         session' \in [Handles -> SessionRecord],
         \A h \in Handles : /\ session'[h].body = session[h].body
                            /\ session'[h].commits = session[h].commits
                            /\ session'[h].state = "none" => session[h].state = "none",
         device'.state = "ready" /\ device'.reply.good =>
           /\ device.request.command # "write"
           /\ device.request.command = "read" => Len(device'.reply.data) = device'.reply.count
           /\ device.request.command = "open" =>
                /\ device'.reply.handle \in Handles
                /\ call # NoCall /\ call.sent =>
                     /\ Fresh(device'.reply.handle)
                     /\ session'[device'.reply.handle].state # "none"
  PROVE  StreamInv'
<1>1. owner' = owner /\ outstanding' = outstanding /\ call' = call
      /\ puts' = puts /\ gets' = gets /\ told' = told
  BY DEF Elsewhere
<1>2. /\ CallInv' /\ (RequestOf(call))' = RequestOf(call)
      /\ \A s \in Slots : /\ ((Used(s))' <=> Used(s)) /\ ((Writing(s))' <=> Writing(s))
                          /\ ((InFlight(s))' <=> InFlight(s))
                          /\ ((Flushing(s))' <=> Flushing(s))
  BY SameLocal
<1>3. TypeInv'
  BY <1>1 DEF Elsewhere, StreamInv, TypeInv, DeviceRecord
<1>4. LinkInv'
  <2>1. \/ device'.state = "idle"
        \/ /\ device'.state = "ready" /\ device.state = "busy" /\ outstanding
           /\ device'.request = device.request
    BY DEF DeviceRecord
  <2>2. call # NoCall /\ call.sent => outstanding
    BY DEF StreamInv, LinkInv
  <2>3. call # NoCall /\ call.sent /\ device.state # "idle" => device.request = RequestOf(call)
    BY DEF StreamInv, LinkInv
  <2>4. QED  BY <1>1, <1>2, <2>1, <2>2, <2>3 DEF LinkInv
<1>5. OwnerInv'
  <2>1. OwnersApart'
    BY <1>1 DEF StreamInv, OwnerInv, OwnersApart
  <2>2. ASSUME NEW t \in Slots, (Used(t))'
        PROVE  /\ owner'[t].handle \in Handles /\ session'[owner'[t].handle].state # "none"
               /\ owner'[t].reading => owner'[t].committed /\ owner'[t].mode = "post"
               /\ owner'[t].committed => /\ owner'[t].mode # "get"
                                         /\ session'[owner'[t].handle].commits = 1
    <3>1. /\ owner[t].handle \in Handles /\ session[owner[t].handle].state # "none"
          /\ owner[t].reading => owner[t].committed /\ owner[t].mode = "post"
          /\ owner[t].committed => /\ owner[t].mode # "get"
                                   /\ session[owner[t].handle].commits = 1
      BY <1>2, <2>2 DEF StreamInv, OwnerInv
    <3>2. QED  BY <1>1, <3>1
  <2>3. QED  BY <2>1, <2>2 DEF OwnerInv
<1>6. ASSUME NEW h \in Handles, Fresh(h) PROVE (Fresh(h))'
  BY <1>1, <1>2, <1>6 DEF Fresh, DeviceWrites, Serving
<1>7. SessionInv'
  BY <1>1, <1>6 DEF StreamInv, SessionInv
<1>8. DeviceInv'
  BY <1>1, <1>6 DEF DeviceInv, Serving
<1>9. CacheInv'
  <2> SUFFICES ASSUME NEW s \in Slots, (Writing(s))'
               PROVE  LET o == owner[s]  h == owner[s].handle IN
                      /\ IsRest(o.cache, o.offset, puts[h])
                      /\ "failed" \notin told[h]
                      /\ ~InFlight(s) => session'[h].commits = 0 /\ Len(session'[h].body) = o.offset
                      /\ InFlight(s) => ~(device'.state = "ready" /\ device'.reply.good)
    BY <1>1, <1>2 DEF CacheInv
  <2>1. Writing(s) /\ owner[s].handle \in Handles
    BY <1>2, InUse DEF Writing
  <2>2. InFlight(s) => ~(device'.state = "ready" /\ device'.reply.good)
    <3> SUFFICES ASSUME InFlight(s), device'.state = "ready", device'.reply.good PROVE FALSE
      OBVIOUS
    <3>1. call # NoCall /\ call.sent /\ AtWrite /\ device.state = "busy"
      BY DEF InFlight
    <3>2. device.request = RequestOf(call) /\ call.stage # "none" /\ call.slot \in Slots
      BY <3>1, InCall DEF StreamInv, LinkInv
    <3>3. RequestOf(call).command = "write"
      BY <3>1, <3>2, Requests DEF StreamInv
    <3>4. QED  BY <3>2, <3>3
  <2>3. QED  BY <2>1, <2>2 DEF StreamInv, CacheInv
<1>10. SizeInv'
  BY <1>1, <1>2 DEF StreamInv, SizeInv, Flushing
<1>11. QED  BY <1>2, <1>3, <1>4, <1>5, <1>7, <1>8, <1>9, <1>10 DEF StreamInv

(* The reply that a request gets, or a reply that is damaged.              *)
LEMMA RepliesAre ==
  ASSUME StreamInv, device.state = "busy", NEW reply \in ReplyRecord, Replies(reply)
  PROVE  /\ device' \in DeviceRecord /\ device'.state = "ready"
         /\ device'.request = device.request
         /\ device'.reply.good => /\ device'.reply.count = reply.count
                                  /\ device'.reply.data = reply.data
                                  /\ device'.reply.eof = reply.eof
<1>1. /\ device \in DeviceRecord /\ device.request.command \in Commands
      /\ device.request.handle \in Handles \cup {NoHandle}
  BY DEF StreamInv, TypeInv, DeviceRecord, RequestRecord
<1> DEFINE good == [reply EXCEPT !.good = TRUE, !.command = device.request.command,
                                 !.handle = device.request.handle]
           d == [reply EXCEPT !.good = TRUE]
           e == [d EXCEPT !.command = device.request.command]
           f == [e EXCEPT !.handle = device.request.handle]
<1>2. NoReply \in ReplyRecord /\ ~NoReply.good
  BY Sizes DEF NoReply, ReplyRecord, Commands
<1>3. good \in ReplyRecord /\ good.count = reply.count /\ good.data = reply.data
      /\ good.eof = reply.eof
  <2>1. good = f
    OBVIOUS
  <2>2. d \in ReplyRecord /\ d.count = reply.count /\ d.data = reply.data /\ d.eof = reply.eof
    BY DEF ReplyRecord
  <2> HIDE DEF d
  <2>3. e \in ReplyRecord /\ e.count = d.count /\ e.data = d.data /\ e.eof = d.eof
    BY <1>1, <2>2 DEF ReplyRecord
  <2> HIDE DEF e
  <2>4. f \in ReplyRecord /\ f.count = e.count /\ f.data = e.data /\ f.eof = e.eof
    BY <1>1, <2>3 DEF ReplyRecord
  <2> HIDE DEF f, good
  <2>5. QED  BY <2>1, <2>2, <2>3, <2>4
<1>4. PICK r \in {NoReply, good} : device' = [device EXCEPT !.state = "ready", !.reply = r]
  BY DEF Replies
<1> HIDE DEF good, d, e, f
<1>5. r \in ReplyRecord /\ (r.good => r.count = reply.count /\ r.data = reply.data
                                         /\ r.eof = reply.eof)
  BY <1>2, <1>3, <1>4
<1>6. device' = [state |-> "ready", request |-> device.request, reply |-> r]
  BY <1>1, <1>4 DEF DeviceRecord
<1>7. QED  BY <1>1, <1>5, <1>6 DEF DeviceRecord

LEMMA BusyIsOutstanding ==
  ASSUME StreamInv, device.state = "busy"
  PROVE  /\ outstanding /\ device \in DeviceRecord /\ device.reply = NoReply
         /\ session \in [Handles -> SessionRecord] /\ resets \in 0..MaxResets
         /\ NoReply \in ReplyRecord /\ ~NoReply.good
<1>1. NoReply \in ReplyRecord /\ ~NoReply.good
  BY Sizes DEF NoReply, ReplyRecord, Commands
<1>2. QED  BY <1>1 DEF StreamInv, TypeInv, LinkInv, DeviceRecord

LEMMA ServeInfoKeeps ==
  ASSUME StreamInv, ServeInfo
  PROVE  StreamInv'
<1>1. /\ device.state = "busy" /\ device.request.command = "info" /\ Replies(NoReply)
      /\ session' = session /\ Elsewhere
  BY DEF ServeInfo, Serving, local, history, Elsewhere, StreamInv, TypeInv
<1>2. /\ outstanding /\ NoReply \in ReplyRecord /\ session \in [Handles -> SessionRecord]
  BY <1>1, BusyIsOutstanding
<1>3. /\ device' \in DeviceRecord /\ device'.state = "ready"
      /\ device'.request = device.request
  BY <1>1, <1>2, RepliesAre
<1>4. QED  BY <1>1, <1>2, <1>3, Served

LEMMA ServeCloseKeeps ==
  ASSUME StreamInv, ServeClose
  PROVE  StreamInv'
<1> DEFINE g == device.request.handle
<1>1. /\ device.state = "busy" /\ device.request.command = "close" /\ Replies(NoReply)
      /\ session' = [session EXCEPT ![g].state = "closed"] /\ Elsewhere
  BY DEF ServeClose, Serving, local, history, Elsewhere, StreamInv, TypeInv
<1>2. /\ outstanding /\ NoReply \in ReplyRecord /\ session \in [Handles -> SessionRecord]
  BY <1>1, BusyIsOutstanding
<1>3. /\ device' \in DeviceRecord /\ device'.state = "ready"
      /\ device'.request = device.request
  BY <1>1, <1>2, RepliesAre
<1>4. /\ session' \in [Handles -> SessionRecord]
      /\ \A h \in Handles : /\ session'[h].body = session[h].body
                            /\ session'[h].commits = session[h].commits
                            /\ session'[h].state = "none" => session[h].state = "none"
  BY <1>1, <1>2 DEF SessionRecord
<1>5. QED  BY <1>1, <1>2, <1>3, <1>4, Served

LEMMA RefuseKeeps ==
  ASSUME StreamInv, Refuse
  PROVE  StreamInv'
<1>1. /\ device.state = "busy" /\ device' = [device EXCEPT !.state = "ready"]
      /\ session' = session /\ Elsewhere
  BY DEF Refuse, local, history, Elsewhere, StreamInv, TypeInv
<1>2. /\ outstanding /\ device \in DeviceRecord /\ ~device.reply.good
      /\ session \in [Handles -> SessionRecord]
  BY <1>1, BusyIsOutstanding
<1>3. /\ device' \in DeviceRecord /\ device'.state = "ready"
      /\ device'.request = device.request /\ device'.reply = device.reply
  BY <1>1, <1>2 DEF DeviceRecord
<1>4. QED  BY <1>1, <1>2, <1>3, Served

LEMMA RestartKeeps ==
  ASSUME StreamInv, Restart
  PROVE  StreamInv'
<1>1. session \in [Handles -> SessionRecord]
  BY DEF StreamInv, TypeInv
<1>2. /\ device' = Idle /\ Elsewhere
  <2>1. resets' \in 0..MaxResets
    BY Sizes, StreamAssumption DEF Restart, StreamInv, TypeInv
  <2>2. QED  BY <2>1 DEF Restart, local, history, Elsewhere
<1>3. /\ session' \in [Handles -> SessionRecord]
      /\ \A h \in Handles : /\ session'[h].body = session[h].body
                            /\ session'[h].commits = session[h].commits
                            /\ session'[h].state = "none" => session[h].state = "none"
  <2> DEFINE new(h) == IF session[h].state = "open"
                       THEN [session[h] EXCEPT !.state = "closed"] ELSE session[h]
  <2>1. ASSUME NEW h \in Handles
        PROVE  /\ new(h) \in SessionRecord /\ new(h).body = session[h].body
               /\ new(h).commits = session[h].commits
               /\ new(h).state = "none" => session[h].state = "none"
    BY <1>1 DEF SessionRecord
  <2>2. session' = [h \in Handles |-> new(h)]
    BY DEF Restart
  <2> HIDE DEF new
  <2>3. QED  BY <2>1, <2>2
<1>4. QED  BY <1>2, <1>3, Devices, Served

LEMMA ServeReadKeeps ==
  ASSUME StreamInv, ServeRead
  PROVE  StreamInv'
<1> DEFINE from == device.request.offset
<1>1. /\ device.state = "busy" /\ device.request.command = "read"
      /\ session' = session /\ Elsewhere
  BY DEF ServeRead, Serving, local, history, Elsewhere, StreamInv, TypeInv
<1>2. /\ outstanding /\ NoReply \in ReplyRecord /\ session \in [Handles -> SessionRecord]
      /\ device \in DeviceRecord
  BY <1>1, BusyIsOutstanding
<1>3. PICK upto \in from..Len(Content), eof \in BOOLEAN :
        Replies([NoReply EXCEPT !.count = upto - from, !.eof = eof,
                                !.data = SubSeq(Content, from + 1, upto)])
  BY DEF ServeRead
<1> DEFINE data == SubSeq(Content, from + 1, upto)  n == upto - from
           a == [NoReply EXCEPT !.count = n]  b == [a EXCEPT !.eof = eof]
           reply == [b EXCEPT !.data = data]
<1>4. from \in Nat /\ Content \in Seq(Bytes) /\ Len(Content) \in Nat /\ upto \in Nat /\ n \in Nat
      /\ upto <= Len(Content)
  BY <1>2, Sizes, Lengths DEF DeviceRecord, RequestRecord
<1>5. data \in Seq(Bytes) /\ Len(data) = n
  <2>1. \A i \in (from + 1)..upto : Content[i] \in Bytes
    BY <1>4, ElementOfSeq
  <2>2. data \in Seq(Bytes) /\ Len(data) = IF from + 1 <= upto THEN upto - (from + 1) + 1 ELSE 0
    BY <1>4, <2>1, SubSeqProperties
  <2>3. upto >= from
    OBVIOUS
  <2>4. QED  BY <1>4, <2>2, <2>3
<1>6. Replies(reply)
  BY <1>3
<1> HIDE DEF data, n
<1>7. reply \in ReplyRecord /\ reply.count = n /\ reply.data = data
  <2>1. a \in ReplyRecord /\ a.count = n
    BY <1>2, <1>4 DEF ReplyRecord
  <2> HIDE DEF a
  <2>2. b \in ReplyRecord /\ b.count = n
    BY <2>1 DEF ReplyRecord
  <2> HIDE DEF b
  <2>3. QED  BY <1>5, <2>2 DEF ReplyRecord
<1> HIDE DEF reply
<1>8. /\ device' \in DeviceRecord /\ device'.state = "ready"
      /\ device'.request = device.request
      /\ device'.reply.good => device'.reply.count = n /\ device'.reply.data = data
  BY <1>1, <1>6, <1>7, RepliesAre
<1>9. device'.reply.good => Len(device'.reply.data) = device'.reply.count
  BY <1>5, <1>8
<1>10. QED  BY <1>1, <1>2, <1>8, <1>9, Served

LEMMA ServeOpenKeeps ==
  ASSUME StreamInv, ServeOpen
  PROVE  StreamInv'
<1>1. /\ device.state = "busy" /\ device.request.command = "open" /\ Elsewhere
  BY DEF ServeOpen, Serving, local, history, Elsewhere, StreamInv, TypeInv
<1>2. /\ outstanding /\ NoReply \in ReplyRecord /\ session \in [Handles -> SessionRecord]
      /\ device \in DeviceRecord /\ ~NoReply.good /\ device.request.mode \in Modes
  BY <1>1, BusyIsOutstanding DEF DeviceRecord, RequestRecord
<1>3. PICK h \in Handles :
        /\ session[h].state = "none"
        /\ session' = [session EXCEPT ![h].state = "open", ![h].mode = device.request.mode]
        /\ device' \in {[device EXCEPT !.state = "ready", !.reply = r] :
                        r \in {NoReply, [NoReply EXCEPT !.good = TRUE, !.command = "open",
                                                       !.handle = h]}}
  BY DEF ServeOpen
<1> DEFINE a == [NoReply EXCEPT !.good = TRUE]  b == [a EXCEPT !.command = "open"]
           good == [b EXCEPT !.handle = h]
<1>4. good \in ReplyRecord /\ good.handle = h
  <2>1. a \in ReplyRecord
    BY <1>2 DEF ReplyRecord
  <2> HIDE DEF a
  <2>2. b \in ReplyRecord
    BY <2>1 DEF ReplyRecord, Commands
  <2> HIDE DEF b
  <2>3. QED  BY <2>2 DEF ReplyRecord
<1>5. PICK r \in {NoReply, good} : device' = [device EXCEPT !.state = "ready", !.reply = r]
  BY <1>3
<1> HIDE DEF good
<1>6. r \in ReplyRecord /\ (r.good => r.handle = h)
  BY <1>2, <1>4, <1>5
<1>7. device' = [state |-> "ready", request |-> device.request, reply |-> r]
  BY <1>2, <1>5 DEF DeviceRecord
<1>8. /\ device' \in DeviceRecord /\ device'.state = "ready"
      /\ device'.request = device.request /\ (device'.reply.good => device'.reply.handle = h)
  BY <1>2, <1>6, <1>7 DEF DeviceRecord
<1>9. /\ session' \in [Handles -> SessionRecord] /\ session'[h].state = "open"
      /\ \A g \in Handles : /\ session'[g].body = session[g].body
                            /\ session'[g].commits = session[g].commits
                            /\ session'[g].state = "none" => session[g].state = "none"
  <2> DEFINE c == [session[h] EXCEPT !.state = "open"]
             d == [c EXCEPT !.mode = device.request.mode]
  <2>1. session' = [session EXCEPT ![h] = d]
    BY <1>2, <1>3
  <2>2. c \in SessionRecord /\ c.state = "open" /\ c.body = session[h].body
        /\ c.commits = session[h].commits
    BY <1>2 DEF SessionRecord
  <2> HIDE DEF c
  <2>3. d \in SessionRecord /\ d.state = "open" /\ d.body = session[h].body
        /\ d.commits = session[h].commits
    BY <1>2, <2>2 DEF SessionRecord
  <2> HIDE DEF d
  <2>4. QED  BY <1>2, <2>1, <2>3
<1>10. Fresh(h)
  BY <1>3 DEF StreamInv, SessionInv
<1>11. QED  BY <1>1, <1>2, <1>8, <1>9, <1>10, Served

LEMMA Empties ==
  ASSUME NEW p \in Seq(Bytes), NEW b \in Seq(Bytes), IsStart(b, p), IsRest(<<>>, Len(b), p)
  PROVE  b = p
<1>1. Len(<<>>) = Len(p) - Len(b) /\ Len(p) \in Nat /\ Len(b) \in Nat
  BY Rests, LenProperties
<1>2. Len(b) = Len(p)
  BY <1>1, Sizes
<1>3. QED  BY <1>2, StartIsAll

(* A WRITE appends a prefix of its data, which is what the body lacks; an  *)
(* empty one finds the body complete and commits it.                       *)
AppendsTo(h, k, all) ==
  /\ k \in 0..Len(device.request.data) /\ all \in Seq(Bytes)
  /\ Replies([NoReply EXCEPT !.count = k])
  /\ IsStart(all, puts[h]) /\ Len(all) = Len(session[h].body) + k
  /\ device.request.data = <<>> => k = 0 /\ all = puts[h]
  /\ session' \in [Handles -> SessionRecord]
  /\ session'[h].state = "open" /\ session'[h].body = all
  /\ session'[h].commits = IF device.request.data = <<>> THEN 1 ELSE 0
  /\ \A g \in Handles : g # h => session'[g] = session[g]

LEMMA Appends ==
  ASSUME StreamInv, ServeWrite, NEW h, h = device.request.handle
  PROVE  /\ h \in Handles /\ session[h].commits = 0 /\ Len(session[h].body) \in Nat
         /\ device.request.offset = Len(session[h].body) /\ puts[h] \in Seq(Bytes)
         /\ \A s \in Slots : Writing(s) /\ owner[s].handle = h => InFlight(s)
         /\ device.request.data = <<>> => session[h].body = puts[h]
         /\ \E k, all : AppendsTo(h, k, all)
<1> DEFINE r == device.request
<1>1. /\ device.state = "busy" /\ r.command = "write" /\ Serving("write") /\ IsOpen(h)
  BY DEF ServeWrite, Serving
<1>2. PICK k \in 0..Len(r.data) :
        /\ session' = [session EXCEPT ![r.handle].body = @ \o SubSeq(r.data, 1, k),
                                      ![r.handle].commits = IF r.data = <<>> THEN @ + 1 ELSE @]
        /\ Replies([NoReply EXCEPT !.count = k])
  BY DEF ServeWrite
<1>3. /\ h \in Handles /\ session[h].commits = 0 /\ r.offset = Len(session[h].body)
      /\ IsRest(r.data, Len(session[h].body), puts[h])
      /\ \A s \in Slots : Writing(s) /\ owner[s].handle = h => InFlight(s)
      /\ session[h].state = "open"
  BY <1>1 DEF StreamInv, DeviceInv, IsOpen
<1>4. /\ session \in [Handles -> SessionRecord] /\ puts \in [Handles -> Seq(Bytes)]
      /\ r.data \in Seq(Bytes) /\ Len(r.data) \in Nat
  BY <1>1, BusyIsOutstanding, Lengths DEF StreamInv, TypeInv, DeviceRecord, RequestRecord
<1> DEFINE old == session[h].body  body == session[h].body \o SubSeq(r.data, 1, k)
           commits == IF r.data = <<>> THEN 1 ELSE 0
<1>5. /\ puts[h] \in Seq(Bytes) /\ old \in Seq(Bytes) /\ Len(old) \in Nat
      /\ IsStart(old, puts[h]) /\ k \in Nat
  BY <1>3, <1>4, LenProperties DEF StreamInv, SessionInv, SessionRecord
<1>6. /\ body \in Seq(Bytes) /\ IsStart(body, puts[h]) /\ Len(body) = Len(old) + k
  <2> DEFINE p == puts[h]  d == r.data
  <2>1. p \in Seq(Bytes) /\ old \in Seq(Bytes) /\ IsStart(old, p) /\ IsRest(d, Len(old), p)
        /\ k \in 0..Len(d)
    BY <1>3, <1>5
  <2> HIDE DEF p, d, old
  <2>2. /\ old \o SubSeq(d, 1, k) \in Seq(Bytes) /\ IsStart(old \o SubSeq(d, 1, k), p)
        /\ Len(old \o SubSeq(d, 1, k)) = Len(old) + k
    BY <2>1, Advances
  <2>3. QED  BY <2>2 DEF p, d, old
<1>7. r.data = <<>> => k = 0 /\ body = puts[h] /\ old = puts[h]
  <2>1. ASSUME r.data = <<>> PROVE k = 0 /\ old = puts[h] /\ Len(body) = Len(puts[h])
    <3>1. Len(r.data) = 0
      BY <2>1, Sizes
    <3>2. k = 0
      BY <3>1
    <3>3. old = puts[h]
      <4>1. IsRest(<<>>, Len(old), puts[h])
        BY <1>3, <2>1
      <4> HIDE DEF old
      <4>2. QED  BY <1>5, <4>1, Empties
    <3>4. QED  BY <1>5, <1>6, <3>2, <3>3
  <2> HIDE DEF body
  <2>2. QED  BY <1>5, <1>6, <2>1, StartIsAll
<1>8. /\ session' \in [Handles -> SessionRecord]
      /\ session'[h].state = "open" /\ session'[h].body = body /\ session'[h].commits = commits
      /\ \A g \in Handles : g # h => session'[g] = session[g]
  <2> DEFINE c == [session[h] EXCEPT !.body = body]  d == [c EXCEPT !.commits = commits]
             e == [c EXCEPT !.commits = IF r.data = <<>> THEN @ + 1 ELSE @]
  <2>1. session' = [session EXCEPT ![h] = e]
    BY <1>2, <1>3, <1>4
  <2>2. c \in SessionRecord /\ c.state = "open" /\ c.body = body /\ c.commits = 0
    BY <1>3, <1>4, <1>6 DEF SessionRecord
  <2> HIDE DEF body, c
  <2>3. e = d /\ commits \in Nat
    BY <2>2
  <2> HIDE DEF commits, e
  <2>4. d \in SessionRecord /\ d.state = "open" /\ d.body = body /\ d.commits = commits
    BY <2>2, <2>3 DEF SessionRecord
  <2> HIDE DEF d
  <2>5. QED  BY <1>3, <1>4, <2>1, <2>3, <2>4
<1>9. AppendsTo(h, k, body)
  BY <1>2, <1>6, <1>7, <1>8 DEF AppendsTo
<1> HIDE DEF body
<1>10. QED  BY <1>3, <1>5, <1>7, <1>9

LEMMA ServeWriteKeeps ==
  ASSUME StreamInv, ServeWrite
  PROVE  StreamInv'
<1> DEFINE r == device.request
<1>1. /\ device.state = "busy" /\ r.command = "write" /\ Serving("write") /\ IsOpen(r.handle)
      /\ Elsewhere
  BY DEF ServeWrite, Serving, local, history, Elsewhere, StreamInv, TypeInv
<1>2. PICK h : h = r.handle
  OBVIOUS
<1>3. /\ h \in Handles /\ session[h].commits = 0 /\ Len(session[h].body) \in Nat
      /\ r.offset = Len(session[h].body) /\ puts[h] \in Seq(Bytes)
      /\ \A s \in Slots : Writing(s) /\ owner[s].handle = h => InFlight(s)
      /\ "committed" \in told[h] => session[h].commits = 1
  BY <1>2, Appends DEF StreamInv, SessionInv
<1>4. /\ outstanding /\ NoReply \in ReplyRecord /\ session \in [Handles -> SessionRecord]
      /\ device \in DeviceRecord /\ ~NoReply.good
      /\ puts \in [Handles -> Seq(Bytes)]
      /\ r.data \in Seq(Bytes) /\ Len(r.data) \in Nat
      /\ owner' = owner /\ outstanding' = outstanding /\ call' = call
      /\ puts' = puts /\ gets' = gets /\ told' = told
  BY <1>1, BusyIsOutstanding, Lengths DEF StreamInv, TypeInv, DeviceRecord, RequestRecord, Elsewhere
<1> DEFINE commits == IF r.data = <<>> THEN 1 ELSE 0
<1>5. PICK k, all : AppendsTo(h, k, all)
  BY <1>2, Appends
<1>6. /\ k \in 0..Len(r.data) /\ k \in Nat /\ all \in Seq(Bytes)
      /\ Replies([NoReply EXCEPT !.count = k])
      /\ IsStart(all, puts[h]) /\ Len(all) = Len(session[h].body) + k
      /\ r.data = <<>> => k = 0 /\ all = puts[h]
      /\ session' \in [Handles -> SessionRecord]
      /\ session'[h].state = "open" /\ session'[h].body = all /\ session'[h].commits = commits
      /\ \A g \in Handles : g # h => session'[g] = session[g]
  BY <1>4, <1>5 DEF AppendsTo
<1>7. /\ device' \in DeviceRecord /\ device'.state = "ready" /\ device'.request = r
      /\ device'.reply.good => device'.reply.count = k
  <2> DEFINE reply == [NoReply EXCEPT !.count = k]
  <2>1. reply \in ReplyRecord /\ reply.count = k
    BY <1>4, <1>6 DEF ReplyRecord
  <2>2. Replies(reply)
    BY <1>6
  <2> HIDE DEF reply
  <2>3. QED  BY <1>1, <2>1, <2>2, RepliesAre
<1> HIDE DEF commits
<1>8. /\ CallInv' /\ (RequestOf(call))' = RequestOf(call)
      /\ \A s \in Slots : /\ ((Used(s))' <=> Used(s)) /\ ((Writing(s))' <=> Writing(s))
                          /\ ((InFlight(s))' <=> InFlight(s))
                          /\ ((Flushing(s))' <=> Flushing(s))
  BY <1>1, SameLocal
<1>9. TypeInv'
  BY <1>1, <1>4, <1>6, <1>7 DEF Elsewhere, StreamInv, TypeInv, DeviceRecord
<1>10. LinkInv'
  BY <1>1, <1>4, <1>7, <1>8 DEF StreamInv, LinkInv
<1>11. OwnerInv'
  <2>1. OwnersApart'
    BY <1>4 DEF StreamInv, OwnerInv, OwnersApart
  <2>2. ASSUME NEW t \in Slots, (Used(t))'
        PROVE  /\ owner'[t].handle \in Handles /\ session'[owner'[t].handle].state # "none"
               /\ owner'[t].reading => owner'[t].committed /\ owner'[t].mode = "post"
               /\ owner'[t].committed => /\ owner'[t].mode # "get"
                                         /\ session'[owner'[t].handle].commits = 1
    <3>1. /\ owner[t].handle \in Handles /\ session[owner[t].handle].state # "none"
          /\ owner[t].reading => owner[t].committed /\ owner[t].mode = "post"
          /\ owner[t].committed => /\ owner[t].mode # "get"
                                   /\ session[owner[t].handle].commits = 1
      BY <1>8, <2>2 DEF StreamInv, OwnerInv
    <3>2. owner[t].committed => owner[t].handle # h
      BY <1>3, <3>1
    <3>3. QED  BY <1>3, <1>4, <1>6, <3>1, <3>2
  <2>3. QED  BY <2>1, <2>2 DEF OwnerInv
<1>12. SessionInv'
  <2> SUFFICES ASSUME NEW g \in Handles
               PROVE  /\ IsStart(session'[g].body, puts'[g])
                      /\ session'[g].commits > 0 => /\ session'[g].commits = 1
                                                    /\ session'[g].body = puts'[g]
                      /\ session'[g].state = "none" => (Fresh(g))'
                      /\ "committed" \in told'[g] => session'[g].commits = 1
    BY DEF SessionInv
  <2>1. CASE g = h
    BY <1>3, <1>4, <1>6, <2>1 DEF commits
  <2>2. CASE g # h
    <3>1. /\ IsStart(session[g].body, puts[g])
          /\ session[g].commits > 0 => session[g].commits = 1 /\ session[g].body = puts[g]
          /\ session[g].state = "none" => Fresh(g)
          /\ "committed" \in told[g] => session[g].commits = 1
      BY DEF StreamInv, SessionInv
    <3>2. session'[g] = session[g]
      BY <1>6, <2>2
    <3>3. Fresh(g) => (Fresh(g))'
      BY <1>4, <1>7, <1>8, <3>2 DEF Fresh, DeviceWrites, Serving
    <3>4. QED  BY <1>4, <3>1, <3>2, <3>3
  <2>3. QED  BY <2>1, <2>2
<1>13. DeviceInv'
  BY <1>1, <1>7 DEF DeviceInv, Serving
<1>14. CacheInv'
  <2> SUFFICES ASSUME NEW s \in Slots, (Writing(s))', NEW g, g = owner[s].handle
               PROVE  /\ IsRest(owner[s].cache, owner[s].offset, puts[g])
                      /\ "failed" \notin told[g]
                      /\ ~InFlight(s) => /\ session'[g].commits = 0
                                         /\ Len(session'[g].body) = owner[s].offset
                      /\ InFlight(s) /\ device'.reply.good =>
                           /\ device'.reply.count <= Len(owner[s].cache)
                           /\ Len(session'[g].body) = owner[s].offset + device'.reply.count
                           /\ session'[g].commits = IF call.stage = "commit" THEN 1 ELSE 0
    BY <1>4, <1>7, <1>8 DEF CacheInv
  <2>1. /\ Writing(s) /\ g \in Handles
    BY <1>8, InUse DEF Writing
  <2>2. /\ IsRest(owner[s].cache, owner[s].offset, puts[g]) /\ "failed" \notin told[g]
        /\ ~InFlight(s) => session[g].commits = 0 /\ Len(session[g].body) = owner[s].offset
    BY <2>1 DEF StreamInv, CacheInv
  <2>3. CASE ~InFlight(s)
    <3>1. g # h
      BY <1>3, <2>1, <2>3
    <3>2. session'[g] = session[g]
      BY <1>6, <2>1, <3>1
    <3>3. QED  BY <2>2, <2>3, <3>2
  <2>4. CASE InFlight(s)
    <3>1. /\ call # NoCall /\ call.sent /\ call.slot = s /\ AtWrite
          /\ call.stage \in {"write", "commit"} /\ call.stage # "open" /\ call.stage # "none"
      BY <2>4 DEF InFlight, AtWrite
    <3>2. r = RequestOf(call)
      BY <1>1, <3>1 DEF StreamInv, LinkInv
    <3>3. /\ r.handle = owner[s].handle /\ r.offset = owner[s].offset
          /\ r.data = IF call.stage = "write" THEN owner[s].cache ELSE <<>>
      BY <3>1, <3>2, Requests DEF StreamInv
    <3>4. call.stage = "commit" <=> owner[s].cache = <<>>
      BY <3>1 DEF StreamInv, CallInv
    <3>5. g = h /\ r.data = owner[s].cache
      BY <1>2, <3>1, <3>3, <3>4
    <3>6. commits = IF call.stage = "commit" THEN 1 ELSE 0
      BY <3>4, <3>5 DEF commits
    <3>7. Len(all) = owner[s].offset + k /\ k <= Len(owner[s].cache)
      BY <1>3, <1>4, <1>6, <3>3, <3>5
    <3>8. QED  BY <1>6, <1>7, <2>2, <2>4, <3>5, <3>6, <3>7
  <2>5. QED  BY <2>3, <2>4
<1>15. SizeInv'
  BY <1>1, <1>4, <1>7, <1>8 DEF StreamInv, SizeInv, Flushing
<1>16. QED
  BY <1>8, <1>9, <1>10, <1>11, <1>12, <1>13, <1>14, <1>15 DEF StreamInv

-----------------------------------------------------------------------------
LEMMA Initially == Init => StreamInv
<1> SUFFICES ASSUME Init PROVE StreamInv
  OBVIOUS
<1>1. FreeOwner \in OwnerRecord /\ FreeOwner.iocb = Free /\ FreeOwner.cache = <<>>
      /\ FreeOwner.pos = 0
  BY Sizes DEF FreeOwner, OwnerRecord, Modes
<1>2. /\ owner \in [Slots -> OwnerRecord] /\ \A s \in Slots : ~Used(s) /\ ~Writing(s)
      /\ \A s \in Slots : owner[s].cache = <<>> /\ owner[s].pos = 0
  BY <1>1 DEF Init, Used, Writing
<1> DEFINE unused == [state |-> "none", mode |-> "get", body |-> <<>>, commits |-> 0]
<1>3. /\ unused \in SessionRecord /\ session = [h \in Handles |-> unused]
  BY Sizes DEF Init, SessionRecord, Modes
<1>4. /\ session \in [Handles -> SessionRecord]
      /\ \A h \in Handles : session[h].body = <<>> /\ session[h].commits = 0
  BY <1>3
<1>5. /\ call = NoCall /\ call \in CallRecord /\ call.stage = "none" /\ call.result /\ ~AtWrite
      /\ device = Idle /\ device \in DeviceRecord /\ device.state = "idle"
      /\ outstanding = FALSE /\ resets = 0
      /\ puts \in [Handles -> Seq(Bytes)] /\ gets \in [Handles -> Seq(Bytes)]
      /\ told \in [Handles -> SUBSET {"committed", "eof", "failed"}]
      /\ \A h \in Handles : puts[h] = <<>> /\ gets[h] = <<>> /\ told[h] = {}
  BY NoCallTypes, Devices, Sizes DEF Init, AtWrite
<1>6. TypeInv
  <2>1. resets \in 0..MaxResets
    BY <1>5, StreamAssumption
  <2>2. outstanding \in BOOLEAN
    BY <1>5
  <2>3. QED  BY <1>2, <1>4, <1>5, <2>1, <2>2 DEF TypeInv, DeviceRecord
<1>7. CallInv /\ LinkInv /\ DeviceInv
  BY <1>5 DEF CallInv, LinkInv, DeviceInv, Serving
<1>8. OwnerInv /\ CacheInv
  BY <1>2 DEF OwnerInv, OwnersApart, Used, CacheInv
<1>9. SessionInv
  <2>1. IsStart(<<>>, <<>>)
    BY Sizes, Whole
  <2>2. \A h \in Handles : Fresh(h)
    BY <1>2, <1>4, <1>5 DEF Fresh, DeviceWrites, Serving
  <2>3. QED  BY <1>4, <1>5, <2>1, <2>2 DEF SessionInv
<1>10. SizeInv
  BY <1>2, <1>5, Sizes DEF SizeInv
<1>11. QED  BY <1>6, <1>7, <1>8, <1>9, <1>10 DEF StreamInv

LEMMA NothingChanges ==
  ASSUME StreamInv, UNCHANGED vars
  PROVE  StreamInv'
<1>1. /\ owner' = owner /\ outstanding' = outstanding /\ call' = call /\ device' = device
      /\ session' = session /\ resets' = resets /\ puts' = puts /\ gets' = gets /\ told' = told
  BY DEF vars, local, history
<1>2. Elsewhere
  BY <1>1 DEF Elsewhere, StreamInv, TypeInv
<1>3. /\ CallInv' /\ (RequestOf(call))' = RequestOf(call)
      /\ \A s \in Slots : /\ ((Used(s))' <=> Used(s)) /\ ((Writing(s))' <=> Writing(s))
                          /\ ((InFlight(s))' <=> InFlight(s))
                          /\ ((Flushing(s))' <=> Flushing(s))
  BY <1>2, SameLocal
<1>4. TypeInv' /\ LinkInv'
  BY <1>1, <1>3 DEF StreamInv, TypeInv, LinkInv
<1>5. \A h \in Handles : (Fresh(h))' <=> Fresh(h)
  BY <1>1, <1>3 DEF Fresh, DeviceWrites, Serving
<1>6. OwnerInv' /\ SessionInv'
  BY <1>1, <1>3, <1>5 DEF StreamInv, OwnerInv, OwnersApart, SessionInv
<1>7. DeviceInv'
  BY <1>1, <1>3, <1>5 DEF StreamInv, DeviceInv, Serving
<1>8. CacheInv' /\ SizeInv'
  BY <1>1, <1>3 DEF StreamInv, CacheInv, SizeInv, Flushing
<1>9. QED  BY <1>3, <1>4, <1>6, <1>7, <1>8 DEF StreamInv

LEMMA StreamInductive == StreamInv /\ [Next]_vars => StreamInv'
<1> SUFFICES ASSUME StreamInv, [Next]_vars PROVE StreamInv'
  OBVIOUS
<1>1. CASE CioCall
  <2>1. ASSUME NEW iocb \in Iocbs, NEW mode \in Modes, Open(iocb, mode) PROVE StreamInv'
    BY <2>1, OpenKeeps
  <2>2. ASSUME NEW s \in Slots, NEW b \in Bytes, Put(s, b) PROVE StreamInv'
    BY <2>2, PutKeeps
  <2>3. ASSUME NEW s \in Slots, GetCached(s) \/ GetAtEnd(s) \/ GetMore(s) PROVE StreamInv'
    BY <2>3, GetCachedKeeps, GetAtEndKeeps, GetMoreKeeps
  <2>4. ASSUME NEW s \in Slots, Status(s) \/ Close(s) PROVE StreamInv'
    BY <2>4, StatusKeeps, CloseKeeps
  <2>5. QED  BY <1>1, <2>1, <2>2, <2>3, <2>4 DEF CioCall
<1>2. CASE Link \/ BadName
  <2>1. CASE Recover \/ Send \/ SendFails \/ BadName
    BY <2>1, RecoverKeeps, SendKeeps, SendFailsKeeps, BadNameKeeps
  <2>2. CASE RecoverFails \/ Missing \/ NotCollected
    BY <2>2, FailureKeeps
  <2>3. QED  BY <1>2, <2>1, <2>2 DEF Link
<1>3. CASE Reply
  BY <1>3, FailureKeeps, OpenReplyKeeps, WriteReplyKeeps, ReadReplyKeeps, InfoReplyKeeps,
     CloseReplyKeeps DEF Reply
<1>4. CASE FujiNet \/ Restart
  BY <1>4, ServeOpenKeeps, ServeWriteKeeps, ServeReadKeeps, ServeInfoKeeps, ServeCloseKeeps,
     RefuseKeeps, RestartKeeps DEF FujiNet
<1>5. CASE UNCHANGED vars
  BY <1>5, NothingChanges
<1>6. QED  BY <1>1, <1>2, <1>3, <1>4, <1>5 DEF Next, CallStep

(* Every reachable state satisfies the inductive invariant.                *)
THEOREM StreamInvariant == Spec => []StreamInv
<1>1. QED  BY Initially, StreamInductive, PTL DEF Spec

(* The state has its types: no cache holds more than its size and POS      *)
(* never passes LEN.                                                       *)
THEOREM StreamTypes == Spec => []TypeOK
<1>1. StreamInv => TypeOK
  BY DEF StreamInv, TypeInv, SizeInv, TypeOK
<1>2. QED  BY <1>1, StreamInvariant, PTL

(* Every WRITE that reaches a session, however late, carries the offset at *)
(* which the body ends and continues the bytes that were PUT.              *)
THEOREM WritesContinue == Spec => []WriteContinues
<1>1. StreamInv => WriteContinues
  <2> SUFFICES ASSUME StreamInv, Serving("write"), NEW h, h = device.request.handle
               PROVE  /\ device.request.offset = Len(session[h].body)
                      /\ IsPrefix(session[h].body \o device.request.data, puts[h])
    BY DEF WriteContinues
  <2> DEFINE b == session[h].body  d == device.request.data  p == puts[h]
  <2>1. /\ h \in Handles /\ device.request.offset = Len(b) /\ IsRest(d, Len(b), p)
    BY DEF StreamInv, DeviceInv
  <2>2. /\ b \in Seq(Bytes) /\ p \in Seq(Bytes) /\ d \in Seq(Bytes) /\ Len(d) \in Nat
        /\ IsStart(b, p)
    BY <2>1, Lengths DEF StreamInv, TypeInv, SessionInv, SessionRecord, RequestRecord
  <2> HIDE DEF b, d, p
  <2>3. SubSeq(d, 1, Len(d)) = d /\ Len(d) \in 0..Len(d)
    BY <2>2, SubSeqFull
  <2>4. IsStart(b \o d, p)
    <3>1. IsStart(b \o SubSeq(d, 1, Len(d)), p)
      BY <2>1, <2>2, <2>3, Advances
    <3>2. QED  BY <2>3, <3>1
  <2>5. IsPrefix(b \o d, p)
    BY <2>4 DEF IsStart, IsPrefix
  <2>6. QED  BY <2>1, <2>5 DEF b, d, p
<1>2. QED  BY <1>1, StreamInvariant, PTL

(* A session is committed at most once, and only with every byte PUT       *)
(* accepted, whoever asked for the commit.                                 *)
THEOREM CommitsAreFinal == Spec => []CommitIsFinal
<1>1. StreamInv => CommitIsFinal
  BY DEF StreamInv, SessionInv, CommitIsFinal
<1>2. QED  BY <1>1, StreamInvariant, PTL

(* Two owners share neither an IOCB nor a session.                         *)
THEOREM OwnersStayApart == Spec => []OwnersApart
<1>1. StreamInv => OwnersApart
  BY DEF StreamInv, OwnerInv
<1>2. QED  BY <1>1, StreamInvariant, PTL

(* After an exchange of an output failed no body and no commit of its      *)
(* session is sent again.                                                  *)
THEOREM FaultsSilence == Spec => FaultSilences
<1>1. StreamInv /\ [Next]_vars =>
        [device.state # "busy" /\ device'.state = "busy" /\ device'.request.command = "write"
           => "failed" \notin told[device'.request.handle]]_vars
  <2> SUFFICES ASSUME StreamInv, Next, device.state # "busy", device'.state = "busy",
                      device'.request.command = "write"
               PROVE  "failed" \notin told[device'.request.handle]
    BY DEF vars
  <2>1. Pending /\ device' = Busy(RequestOf(call))
    <3>1. CASE Send \/ SendFails
      BY <3>1 DEF Send, SendFails
    <3>2. Idle.state = "idle"
      BY Devices
    <3>3. CASE CioCall
      <4>1. device' = device
        BY <3>3 DEF CioCall, Open, Put, GetCached, GetAtEnd, GetMore, Status, Close
      <4>2. QED  BY <4>1
    <3>4. CASE Recover \/ RecoverFails \/ Missing \/ NotCollected \/ BadName
      BY <3>2, <3>4 DEF Recover, RecoverFails, Missing, NotCollected, BadName, MayDrop
    <3>5. CASE Reply
      <4>1. device' = Idle
        BY <3>5 DEF Reply, BadReply, OpenReply, WriteReply, ReadReply, InfoReply, CloseReply,
                    Collected
      <4>2. QED  BY <3>2, <4>1
    <3>6. CASE FujiNet
      BY <3>6 DEF FujiNet, ServeOpen, ServeWrite, ServeRead, ServeInfo, ServeClose, Refuse,
                  Serving
    <3>7. CASE Restart
      BY <3>2, <3>7 DEF Restart
    <3>8. QED  BY <3>1, <3>3, <3>4, <3>5, <3>6, <3>7 DEF Next, CallStep, Link
  <2>2. /\ RequestOf(call) \in RequestRecord
        /\ RequestOf(call).command = "write" <=> AtWrite
    BY <2>1, RequestIs
  <2>3. device'.request = RequestOf(call) /\ AtWrite
    BY <2>1, <2>2, Devices
  <2>4. PICK h : h = owner[call.slot].handle
    OBVIOUS
  <2>5. RequestOf(call).handle = h /\ "failed" \notin told[h]
    BY <2>1, <2>3, <2>4, Requested
  <2>6. QED  BY <2>3, <2>5
<1>2. QED  BY <1>1, StreamInvariant, PTL DEF Spec, FaultSilences

-----------------------------------------------------------------------------
(* Reading, and ByteStreams: what GET hands out is the response in order,  *)
(* what the program is told is so, and every step of handler and FujiNet   *)
(* takes, delivers, commits, gives or reports for one session, or shows    *)
(* nothing.                                                                *)

(* The cache of an owner that reads is the response up to its offset, and  *)
(* what GET gave ends at POS.                                              *)
Reading(s) ==
  LET o == owner[s]  given == gets[owner[s].handle] IN
  /\ o.offset <= Len(Content) /\ Len(o.cache) <= o.offset
  /\ Len(given) = (o.offset - Len(o.cache)) + o.pos
  /\ \A i \in 1..Len(o.cache) : o.cache[i] = Content[(o.offset - Len(o.cache)) + i]
  /\ o.eof => o.offset = Len(Content)

GivenInv == \A h \in Handles :
  IsStart(gets[h], Content) /\ ("eof" \in told[h] => gets[h] = Content)

OwnersReadInv == \A s \in Slots : Used(s) =>
  IF Readable(owner[s]) THEN Reading(s)
  ELSE gets[owner[s].handle] = <<>> /\ ~owner[s].eof

(* A READ is asked for only when the cache is used up.                     *)
ReadCallInv ==
  call.stage = "read" =>
    /\ Readable(owner[call.slot])
    /\ owner[call.slot].pos = Len(owner[call.slot].cache)

(* A READ is answered from the response, at the offset it asked for.       *)
ReadReplyInv ==
  LET r == device.reply  from == device.request.offset IN
  device.state = "ready" /\ r.good /\ device.request.command = "read" =>
    /\ from + r.count <= Len(Content)
    /\ \A i \in 1..r.count : r.data[i] = Content[from + i]
    /\ r.count = 0 \/ r.eof => from + r.count = Len(Content)

ReadInv == GivenInv /\ OwnersReadInv /\ ReadCallInv /\ ReadReplyInv

-----------------------------------------------------------------------------
(* An owner that reads on as before, or starts to read.                    *)
SameReader(s) ==
  /\ owner'[s].handle = owner[s].handle /\ owner'[s].mode = owner[s].mode
  /\ \/ /\ owner'[s].reading = owner[s].reading /\ owner'[s].eof = owner[s].eof
        /\ Readable(owner[s]) => /\ owner'[s].cache = owner[s].cache
                                 /\ owner'[s].pos = owner[s].pos
                                 /\ owner'[s].offset = owner[s].offset
     \/ /\ ~Readable(owner[s]) /\ owner'[s].reading /\ owner'[s].cache = <<>>
        /\ owner'[s].pos = 0 /\ owner'[s].offset = 0 /\ ~owner'[s].eof

LEMMA SameReaders ==
  ASSUME StreamInv, OwnersReadInv, gets' = gets,
         NEW s \in Slots, Used(s), SameReader(s)
  PROVE  IF Readable(owner'[s]) THEN (Reading(s))'
         ELSE gets'[owner'[s].handle] = <<>> /\ ~owner'[s].eof
<1>1. CASE /\ owner'[s].reading = owner[s].reading /\ owner'[s].eof = owner[s].eof
           /\ Readable(owner[s]) => /\ owner'[s].cache = owner[s].cache
                                    /\ owner'[s].pos = owner[s].pos
                                    /\ owner'[s].offset = owner[s].offset
  <2>1. Readable(owner'[s]) <=> Readable(owner[s])
    BY <1>1 DEF SameReader, Readable
  <2>2. owner'[s].handle = owner[s].handle
    BY DEF SameReader
  <2>3. CASE Readable(owner[s])
    BY <1>1, <2>1, <2>2, <2>3 DEF OwnersReadInv, Reading
  <2>4. CASE ~Readable(owner[s])
    BY <1>1, <2>1, <2>2, <2>4 DEF OwnersReadInv
  <2>5. QED  BY <2>3, <2>4
<1>2. CASE /\ ~Readable(owner[s]) /\ owner'[s].reading /\ owner'[s].cache = <<>>
           /\ owner'[s].pos = 0 /\ owner'[s].offset = 0 /\ ~owner'[s].eof
  <2>1. gets'[owner'[s].handle] = <<>>
    BY <1>2 DEF SameReader, OwnersReadInv
  <2>2. Len(Content) \in Nat
    BY Sizes, Lengths
  <2>3. Readable(owner'[s])
    BY <1>2 DEF Readable
  <2>4. (Reading(s))'
    <3>1. Len(owner'[s].cache) = 0 /\ Len(gets'[owner'[s].handle]) = 0
      BY <1>2, <2>1, Sizes
    <3>2. owner'[s].offset <= Len(Content) /\ Len(owner'[s].cache) <= owner'[s].offset
          /\ Len(gets'[owner'[s].handle])
               = (owner'[s].offset - Len(owner'[s].cache)) + owner'[s].pos
      <4>1. PICK offset, pos, len, given :
              /\ offset = owner'[s].offset /\ pos = owner'[s].pos
              /\ len = Len(owner'[s].cache) /\ given = Len(gets'[owner'[s].handle])
        OBVIOUS
      <4>2. offset = 0 /\ pos = 0 /\ len = 0 /\ given = 0
        BY <1>2, <3>1, <4>1
      <4>3. given = (offset - len) + pos /\ len <= offset /\ offset <= Len(Content)
        BY <2>2, <4>2
      <4>4. QED  BY <4>1, <4>3
    <3>3. \A i \in 1..Len(owner'[s].cache) : FALSE
      BY <3>1
    <3>4. QED  BY <1>2, <3>2, <3>3 DEF Reading
  <2>5. QED  BY <2>3, <2>4
<1>3. QED  BY <1>1, <1>2 DEF SameReader

(* A step that gives nothing.                                              *)
GivesNothing ==
  /\ gets' = gets
  /\ \A s \in Slots : (Used(s))' => Used(s) /\ SameReader(s)
  /\ \A h \in Handles : "eof" \in told'[h] => "eof" \in told[h] \/ gets[h] = Content

LEMMA GivesNothingKeeps ==
  ASSUME StreamInv, ReadInv, GivesNothing, ReadCallInv', ReadReplyInv'
  PROVE  ReadInv'
<1>1. GivenInv'
  BY DEF ReadInv, GivenInv, GivesNothing
<1>2. OwnersReadInv'
  BY SameReaders DEF ReadInv, OwnersReadInv, GivesNothing
<1>3. QED  BY <1>1, <1>2 DEF ReadInv

LEMMA SameOwners ==
  ASSUME owner' = owner
  PROVE  \A s \in Slots : ((Used(s))' => Used(s)) /\ SameReader(s)
BY DEF Used, SameReader

LEMMA DeviceRests ==
  ASSUME ReadInv, device' = device \/ device'.state # "ready" \/ ~device'.reply.good
  PROVE  ReadReplyInv'
BY DEF ReadInv, ReadReplyInv

LEMMA NotReading ==
  ASSUME call'.stage # "read"
  PROVE  ReadCallInv'
BY DEF ReadCallInv

-----------------------------------------------------------------------------
(* The calls and exchanges that give nothing.                              *)
LEMMA RewindsReader ==
  ASSUME StreamInv, NEW s \in Slots, NEW o \in OwnerRecord, Set(s, RewindForReading(o)),
         o.iocb = owner[s].iocb, o.handle = owner[s].handle, o.mode = owner[s].mode,
         ~Readable(owner[s])
  PROVE  /\ \A t \in Slots : ((Used(t))' => Used(t)) /\ SameReader(t)
         /\ Readable(owner'[s]) /\ owner'[s].pos = Len(owner'[s].cache)
<1> DEFINE new == RewindForReading(o)
<1>1. /\ new \in OwnerRecord /\ SameWriter(new, o) /\ new.reading /\ new.cache = <<>>
      /\ new.pos = 0 /\ new.offset = 0 /\ ~new.eof
  BY Rewinds
<1>2. Set(s, new)
  OBVIOUS
<1> HIDE DEF new
<1>3. /\ owner'[s] = new /\ \A t \in Slots : t # s => owner'[t] = owner[t]
  BY <1>1, <1>2, SetsOwner DEF StreamInv, TypeInv
<1>4. QED  BY <1>1, <1>3, Sizes DEF SameReader, SameWriter, Used, Readable

LEMMA WritesOn ==
  ASSUME StreamInv, NEW s \in Slots, NEW o \in OwnerRecord, Set(s, o),
         o.iocb \in {owner[s].iocb, Free}, o.handle = owner[s].handle, o.mode = owner[s].mode,
         o.reading = owner[s].reading, o.eof = owner[s].eof,
         Readable(owner[s]) => /\ o.cache = owner[s].cache /\ o.pos = owner[s].pos
                               /\ o.offset = owner[s].offset
  PROVE  \A t \in Slots : ((Used(t))' => Used(t)) /\ SameReader(t)
<1>1. /\ owner'[s] = o /\ \A t \in Slots : t # s => owner'[t] = owner[t]
  BY SetsOwner DEF StreamInv, TypeInv
<1>2. QED  BY <1>1 DEF SameReader, Used

LEMMA CommitsOn ==
  ASSUME StreamInv, NEW s \in Slots, NEW c \in CallRecord, c.slot = s, NEW o \in OwnerRecord,
         o.iocb = owner[s].iocb, o.handle = owner[s].handle, o.mode = owner[s].mode,
         o.reading = owner[s].reading, o.eof = owner[s].eof,
         Readable(owner[s]) => /\ o.cache = owner[s].cache /\ o.pos = owner[s].pos
                               /\ o.offset = owner[s].offset,
         c.op = "get" => ~Readable(owner[s]), AfterCommit(c, o)
  PROVE  (\A t \in Slots : ((Used(t))' => Used(t)) /\ SameReader(t)) /\ ReadCallInv'
<1>1. CASE c.op = "get"
  <2>1. Set(s, RewindForReading(o)) /\ Exchange(c, "read")
    BY <1>1 DEF AfterCommit
  <2>2. /\ \A t \in Slots : ((Used(t))' => Used(t)) /\ SameReader(t)
        /\ Readable(owner'[s]) /\ owner'[s].pos = Len(owner'[s].cache)
    BY <1>1, <2>1, RewindsReader
  <2>3. call'.slot = s
    BY <2>1, Exchanges DEF Stages
  <2>4. QED  BY <2>2, <2>3 DEF ReadCallInv
<1>2. CASE c.op # "get"
  <2> DEFINE stage == IF c.op = "status" THEN "info" ELSE "close"
  <2>1. Set(s, o) /\ Exchange(c, stage)
    BY <1>2 DEF AfterCommit
  <2>2. stage \in Stages /\ stage # "read"
    BY DEF Stages
  <2> HIDE DEF stage
  <2>3. ReadCallInv'
    BY <2>1, <2>2, Exchanges, NotReading
  <2>4. QED  BY <2>1, <2>3, WritesOn
<1>3. QED  BY <1>1, <1>2

LEMMA FinishesOn ==
  ASSUME StreamInv, NEW s \in Slots, NEW c \in CallRecord, c.slot = s,
         c.op = "get" => ~Readable(owner[s]), FinishWrite(c, owner[s])
  PROVE  (\A t \in Slots : ((Used(t))' => Used(t)) /\ SameReader(t)) /\ ReadCallInv'
<1>1. owner[s] \in OwnerRecord /\ owner \in [Slots -> OwnerRecord]
  BY DEF StreamInv, TypeInv
<1>2. CASE owner[s].committed
  BY <1>1, <1>2, CommitsOn DEF FinishWrite
<1>3. CASE ~owner[s].committed
  <2> DEFINE stage == IF owner[s].cache = <<>> THEN "commit" ELSE "write"
  <2>1. Set(s, owner[s]) /\ Exchange(c, stage)
    BY <1>3 DEF FinishWrite
  <2>2. stage \in Stages /\ stage # "read"
    BY DEF Stages
  <2> HIDE DEF stage
  <2>3. ReadCallInv'
    BY <2>1, <2>2, Exchanges, NotReading
  <2>4. QED  BY <1>1, <2>1, <2>3, SetsSame, SameOwners
<1>4. QED  BY <1>2, <1>3

LEMMA SameCallReads ==
  ASSUME ReadInv, owner' = owner, call'.stage = call.stage, call'.slot = call.slot
  PROVE  ReadCallInv'
BY DEF ReadInv, ReadCallInv

LEMMA OpenReads ==
  ASSUME StreamInv, ReadInv, NEW iocb \in Iocbs, NEW mode \in Modes, Open(iocb, mode)
  PROVE  ReadInv'
<1>1. owner' = owner /\ device' = device /\ gets' = gets /\ told' = told
      /\ call'.stage = "open"
  BY DEF Open, history, NoCall
<1>2. GivesNothing
  BY <1>1, SameOwners DEF GivesNothing
<1>3. QED  BY <1>1, <1>2, NotReading, DeviceRests, GivesNothingKeeps

LEMMA PutReads ==
  ASSUME StreamInv, ReadInv, NEW s \in Slots, NEW b \in Bytes, Put(s, b)
  PROVE  ReadInv'
<1> DEFINE o == owner[s]  cache == Append(owner[s].cache, b)
           new == [owner[s] EXCEPT !.cache = Append(@, b)]
<1>1. /\ call = NoCall /\ Used(s) /\ o.mode # "get" /\ ~o.committed /\ Set(s, new)
      /\ device' = device /\ gets' = gets /\ told' = told
      /\ Exchange(Call("put", s), "write") \/ Return
  BY DEF Put, Active, Used
<1>2. o \in OwnerRecord /\ cache \in Seq(Bytes) /\ ~Readable(o)
  BY <1>1, InUse DEF StreamInv, OwnerInv, Readable
<1>3. new = [o EXCEPT !.cache = cache]
  BY <1>2 DEF OwnerRecord
<1> HIDE DEF cache, new
<1>4. /\ new \in OwnerRecord /\ new.iocb = o.iocb /\ new.handle = o.handle /\ new.mode = o.mode
      /\ new.reading = o.reading /\ new.eof = o.eof
  BY <1>2, <1>3 DEF OwnerRecord
<1>5. \A t \in Slots : ((Used(t))' => Used(t)) /\ SameReader(t)
  BY <1>1, <1>2, <1>4, WritesOn
<1>6. call'.stage # "read"
  <2>1. Call("put", s) \in CallRecord
    BY Calls DEF StreamInv, Ops
  <2>2. QED  BY <1>1, <2>1, Exchanges, Returns DEF Stages
<1>7. GivesNothing
  BY <1>1, <1>5 DEF GivesNothing
<1>8. QED  BY <1>1, <1>6, <1>7, NotReading, DeviceRests, GivesNothingKeeps

LEMMA GetMoreReads ==
  ASSUME StreamInv, ReadInv, NEW s \in Slots, GetMore(s)
  PROVE  ReadInv'
<1>1. Used(s) /\ device' = device /\ gets' = gets /\ told' = told
  BY DEF GetMore, Active, Used, history
<1>2. Call("get", s) \in CallRecord /\ Call("get", s).slot = s /\ "read" \in Stages
  BY Calls DEF StreamInv, Ops, Stages
<1>3. CASE /\ Readable(owner[s]) /\ owner[s].pos >= Len(owner[s].cache)
           /\ Exchange(Call("get", s), "read") /\ owner' = owner
  <2>1. owner[s].pos = Len(owner[s].cache)
    BY <1>3, InUse
  <2>2. call'.slot = s
    BY <1>2, <1>3, Exchanges
  <2>3. ReadCallInv'
    BY <1>3, <2>1, <2>2 DEF ReadCallInv
  <2>4. GivesNothing
    BY <1>1, <1>3, SameOwners DEF GivesNothing
  <2>5. QED  BY <1>1, <2>3, <2>4, DeviceRests, GivesNothingKeeps
<1>4. CASE /\ owner[s].mode = "post" /\ ~owner[s].reading
           /\ FinishWrite(Call("get", s), owner[s])
  <2>1. ~Readable(owner[s])
    BY <1>4 DEF Readable
  <2>2. (\A t \in Slots : ((Used(t))' => Used(t)) /\ SameReader(t)) /\ ReadCallInv'
    BY <1>2, <1>4, <2>1, FinishesOn
  <2>3. GivesNothing
    BY <1>1, <2>2 DEF GivesNothing
  <2>4. QED  BY <1>1, <2>2, <2>3, DeviceRests, GivesNothingKeeps
<1>5. QED  BY <1>3, <1>4 DEF GetMore

LEMMA StatusCloseReads ==
  ASSUME StreamInv, ReadInv, NEW s \in Slots, Status(s) \/ Close(s)
  PROVE  ReadInv'
<1>1. device' = device /\ gets' = gets /\ told' = told
  BY DEF Status, Close, history
<1> DEFINE c == Call("close", s)  d == [c EXCEPT !.result = FALSE]  e == Call("status", s)
<1>2. /\ c \in CallRecord /\ e \in CallRecord /\ c.slot = s /\ e.slot = s
      /\ c.op = "close" /\ e.op = "status"
      /\ "info" \in Stages /\ "close" \in Stages
  BY Calls DEF StreamInv, Ops, Stages
<1>3. d \in CallRecord
  BY <1>2 DEF CallRecord
<1>4. \/ owner' = owner /\ (Exchange(e, "info") \/ Exchange(c, "close") \/ Exchange(d, "close"))
      \/ FinishWrite(e, owner[s]) \/ FinishWrite(c, owner[s])
  BY DEF Status, Close
<1> HIDE DEF c, d, e
<1>5. (\A t \in Slots : ((Used(t))' => Used(t)) /\ SameReader(t)) /\ ReadCallInv'
  <2>1. CASE owner' = owner /\ (Exchange(e, "info") \/ Exchange(c, "close") \/ Exchange(d, "close"))
    <3>1. call'.stage # "read"
      BY <1>2, <1>3, <2>1, Exchanges
    <3>2. QED  BY <2>1, <3>1, SameOwners, NotReading
  <2>2. CASE FinishWrite(e, owner[s])
    BY <1>2, <2>2, FinishesOn
  <2>3. CASE FinishWrite(c, owner[s])
    BY <1>2, <2>3, FinishesOn
  <2>4. QED  BY <1>4, <2>1, <2>2, <2>3
<1>6. GivesNothing
  BY <1>1, <1>5 DEF GivesNothing
<1>7. QED  BY <1>1, <1>5, <1>6, DeviceRests, GivesNothingKeeps

LEMMA LinkReads ==
  ASSUME StreamInv, ReadInv, Recover \/ BadName \/ Send
  PROVE  ReadInv'
<1>1. owner' = owner /\ gets' = gets /\ told' = told
  BY DEF Recover, BadName, Send, history
<1>2. device' = device \/ device'.state # "ready"
  BY Devices, RequestIs DEF Recover, BadName, Send
<1>3. ReadCallInv'
  <2>1. CASE Recover
    BY <1>1, <2>1, SameCallReads DEF Recover
  <2>2. CASE BadName
    BY <2>2, NotReading, Returns DEF BadName
  <2>3. CASE Send
    <3>1. call \in CallRecord
      BY DEF StreamInv, TypeInv
    <3>2. call'.stage = call.stage /\ call'.slot = call.slot
      BY <2>3, <3>1 DEF Send, CallRecord
    <3>3. QED  BY <1>1, <3>2, SameCallReads
  <2>4. QED  BY <2>1, <2>2, <2>3
<1>4. GivesNothing
  BY <1>1, SameOwners DEF GivesNothing
<1>5. QED  BY <1>2, <1>3, <1>4, DeviceRests, GivesNothingKeeps

(* The exchanges that fail.                                                *)
LEMMA FailsReads ==
  ASSUME StreamInv, ReadInv, call # NoCall, ExchangeFails(call),
         device' = device \/ device'.state # "ready"
  PROVE  ReadInv'
<1> SUFFICES ASSUME NEW s \in Slots, s = call.slot PROVE ReadInv'
  BY InCall
<1> DEFINE o == owner[s]  h == owner[s].handle  new == AfterFailure(call, owner[s])
           what == IF call.stage \in {"write", "commit"} THEN {"failed"} ELSE {}
<1>1. /\ Set(s, new) /\ Tell(h, what) /\ gets' = gets
      /\ \/ call' = [call EXCEPT !.stage = "close", !.sent = FALSE, !.result = FALSE]
         \/ Return
  BY DEF ExchangeFails
<1>2. o \in OwnerRecord /\ call \in CallRecord
  BY InCall
<1>3. /\ new \in OwnerRecord /\ new.iocb \in {o.iocb, Free} /\ new.handle = o.handle
      /\ new.mode = o.mode /\ new.reading = o.reading /\ new.eof = o.eof
      /\ new.cache = o.cache /\ new.pos = o.pos /\ new.offset = o.offset
  BY <1>2, Fails
<1>4. what \in SUBSET {"failed"}
  OBVIOUS
<1> HIDE DEF new, what
<1>5. \A t \in Slots : ((Used(t))' => Used(t)) /\ SameReader(t)
  BY <1>1, <1>2, <1>3, WritesOn
<1>6. call'.stage # "read"
  BY <1>1, <1>2, Returns DEF CallRecord
<1>7. \A g \in Handles : "eof" \in told'[g] => "eof" \in told[g]
  BY <1>1, <1>4 DEF Tell, StreamInv, TypeInv
<1>8. GivesNothing
  BY <1>1, <1>5, <1>7 DEF GivesNothing
<1>9. QED  BY <1>6, <1>8, NotReading, DeviceRests, GivesNothingKeeps

LEMMA FailureReads ==
  ASSUME StreamInv, ReadInv, RecoverFails \/ SendFails \/ Missing \/ NotCollected \/ BadReply
  PROVE  ReadInv'
<1>1. /\ call # NoCall /\ ExchangeFails(call)
      /\ device' = device \/ device'.state # "ready"
  <2>1. CASE RecoverFails
    BY <2>1, Devices DEF RecoverFails, Pending, MayDrop
  <2>2. CASE SendFails
    BY <2>2, Devices, RequestIs DEF SendFails, Pending
  <2>3. CASE Missing
    BY <2>3 DEF Missing, Waiting
  <2>4. CASE NotCollected
    BY <2>4, Devices DEF NotCollected, Waiting, MayDrop
  <2>5. CASE BadReply
    BY <2>5, Devices DEF BadReply, Collected, Waiting
  <2>6. QED  BY <2>1, <2>2, <2>3, <2>4, <2>5
<1>2. QED  BY <1>1, FailsReads

-----------------------------------------------------------------------------
(* The replies that give nothing, and the end of the file.                 *)
LEMMA AtEnd ==
  ASSUME StreamInv, ReadInv, NEW s \in Slots, Used(s), owner[s].eof,
         owner[s].pos >= Len(owner[s].cache)
  PROVE  gets[owner[s].handle] = Content
<1> DEFINE h == owner[s].handle
<1>1. /\ Readable(owner[s]) /\ Reading(s)
  BY DEF ReadInv, OwnersReadInv
<1>2. /\ h \in Handles /\ gets[h] \in Seq(Bytes) /\ owner[s].pos = Len(owner[s].cache)
      /\ Len(owner[s].cache) \in Nat /\ owner[s].offset \in Nat
  BY InUse DEF StreamInv, TypeInv
<1>3. IsStart(gets[h], Content)
  BY <1>2 DEF ReadInv, GivenInv
<1>4. owner[s].offset = Len(Content)
      /\ Len(gets[h]) = (owner[s].offset - Len(owner[s].cache)) + owner[s].pos
  BY <1>1 DEF Reading
<1>5. Len(gets[h]) = Len(Content)
  BY <1>2, <1>4
<1>6. QED  BY <1>2, <1>3, <1>5, Sizes, StartIsAll

LEMMA TellsOn ==
  ASSUME StreamInv, NEW h \in Handles, NEW what, Tell(h, what),
         "eof" \in what => gets[h] = Content
  PROVE  \A g \in Handles : "eof" \in told'[g] => "eof" \in told[g] \/ gets[g] = Content
<1>1. told \in [Handles -> SUBSET {"committed", "eof", "failed"}]
  BY DEF StreamInv, TypeInv
<1>2. QED  BY <1>1 DEF Tell

LEMMA GetAtEndReads ==
  ASSUME StreamInv, ReadInv, NEW s \in Slots, GetAtEnd(s)
  PROVE  ReadInv'
<1>1. /\ Used(s) /\ Tell(owner[s].handle, {"eof"}) /\ owner' = owner /\ call' = call
      /\ device' = device /\ gets' = gets /\ gets[owner[s].handle] = Content
  BY AtEnd DEF GetAtEnd, Active, Used, local
<1>2. GivesNothing
  BY <1>1, InUse, TellsOn, SameOwners DEF GivesNothing
<1>3. QED  BY <1>1, <1>2, SameCallReads, DeviceRests, GivesNothingKeeps

LEMMA InfoTells ==
  ASSUME StreamInv, ReadInv, InfoReply, NEW s \in Slots, s = call.slot
  PROVE  /\ Used(s) /\ owner[s].handle \in Handles
         /\ \E what \in SUBSET {"committed", "eof"} :
              /\ Tell(owner[s].handle, what)
              /\ "committed" \in what => session[owner[s].handle].commits = 1
              /\ "eof" \in what => gets[owner[s].handle] = Content
<1> DEFINE o == owner[s]  h == owner[s].handle
           what == (IF o.mode = "get" THEN {} ELSE {"committed"})
             \cup (IF o.mode # "put" /\ o.eof /\ o.pos >= Len(o.cache) THEN {"eof"} ELSE {})
<1>1. Collected /\ Valid(device.reply) /\ call.stage = "info" /\ Tell(h, what)
  BY DEF InfoReply
<1>2. Used(s) /\ call.result /\ h \in Handles
  BY <1>1, Replied, InUse DEF StreamInv, CallInv
<1>3. what \in SUBSET {"committed", "eof"}
  OBVIOUS
<1>4. "committed" \in what => session[h].commits = 1
  BY <1>1, <1>2 DEF StreamInv, CallInv, OwnerInv
<1>5. "eof" \in what => gets[h] = Content
  BY <1>2, AtEnd
<1> HIDE DEF what
<1>6. QED  BY <1>1, <1>2, <1>3, <1>4, <1>5

LEMMA InfoReplyReads ==
  ASSUME StreamInv, ReadInv, InfoReply
  PROVE  ReadInv'
<1> SUFFICES ASSUME NEW s \in Slots, s = call.slot PROVE ReadInv'
  BY Replied DEF InfoReply
<1>1. /\ owner' = owner /\ gets' = gets /\ device'.state = "idle" /\ call'.stage = "none"
  BY Devices, Returns DEF InfoReply, Collected
<1>2. \A g \in Handles : "eof" \in told'[g] => "eof" \in told[g] \/ gets[g] = Content
  BY InfoTells, TellsOn
<1>3. GivesNothing
  BY <1>1, <1>2, SameOwners DEF GivesNothing
<1>4. QED  BY <1>1, <1>3, NotReading, DeviceRests, GivesNothingKeeps

LEMMA CloseTells ==
  ASSUME StreamInv, CloseReply, NEW s \in Slots, s = call.slot
  PROVE  /\ Used(s) /\ owner[s].handle \in Handles
         /\ \E what \in SUBSET {"committed"} :
              /\ Tell(owner[s].handle, what)
              /\ "committed" \in what => session[owner[s].handle].commits = 1
<1> DEFINE h == owner[s].handle
           what == IF owner[s].mode # "get" /\ call.result THEN {"committed"} ELSE {}
<1>1. Collected /\ Valid(device.reply) /\ call.stage = "close" /\ Tell(h, what)
  BY DEF CloseReply
<1>2. Used(s) /\ h \in Handles
  BY <1>1, Replied, InUse
<1>3. what \in SUBSET {"committed"} /\ ("committed" \in what => session[h].commits = 1)
  BY <1>1, <1>2 DEF StreamInv, CallInv, OwnerInv
<1> HIDE DEF what
<1>4. QED  BY <1>1, <1>2, <1>3

LEMMA CloseReplyReads ==
  ASSUME StreamInv, ReadInv, CloseReply
  PROVE  ReadInv'
<1> SUFFICES ASSUME NEW s \in Slots, s = call.slot PROVE ReadInv'
  BY Replied DEF CloseReply
<1> DEFINE o == owner[s]  new == [owner[s] EXCEPT !.iocb = Free]
<1>1. /\ Set(s, new) /\ gets' = gets /\ device'.state = "idle" /\ call'.stage = "none"
  BY Devices, Returns DEF CloseReply, Collected
<1>2. o \in OwnerRecord
  BY InUse
<1>3. /\ new \in OwnerRecord /\ new.iocb = Free /\ new.handle = o.handle /\ new.mode = o.mode
      /\ new.reading = o.reading /\ new.eof = o.eof
      /\ new.cache = o.cache /\ new.pos = o.pos /\ new.offset = o.offset
  BY <1>2 DEF OwnerRecord
<1> HIDE DEF new
<1>4. \A t \in Slots : ((Used(t))' => Used(t)) /\ SameReader(t)
  BY <1>1, <1>3, WritesOn
<1>5. \A g \in Handles : "eof" \in told'[g] => "eof" \in told[g] \/ gets[g] = Content
  BY CloseTells, TellsOn
<1>6. GivesNothing
  BY <1>1, <1>4, <1>5 DEF GivesNothing
<1>7. QED  BY <1>1, <1>6, NotReading, DeviceRests, GivesNothingKeeps

LEMMA WriteReplyReads ==
  ASSUME StreamInv, ReadInv, WriteReply
  PROVE  ReadInv'
<1> SUFFICES ASSUME NEW s \in Slots, s = call.slot PROVE ReadInv'
  BY Replied DEF WriteReply
<1> DEFINE o == owner[s]  count == device.reply.count
<1>1. /\ Collected /\ Valid(device.reply) /\ call.stage \in {"write", "commit"}
  BY DEF WriteReply
<1>2. /\ call # NoCall /\ call \in CallRecord /\ device'.state = "idle" /\ count \in Nat
      /\ device.state = "ready" /\ device.reply.good
  BY <1>1, Replied, Devices DEF ReplyRecord
<1>3. Writing(s) /\ InFlight(s)
  BY <1>1, <1>2, Replied DEF StreamInv, CallInv, AtWrite, InFlight
<1>4. /\ o \in OwnerRecord /\ ~Readable(o) /\ count <= Len(o.cache)
  BY <1>2, <1>3, InUse DEF Writing, StreamInv, OwnerInv, CacheInv, Readable
<1>5. CASE AfterCommit(call, [o EXCEPT !.committed = TRUE]) /\ UNCHANGED history
  <2> DEFINE new == [o EXCEPT !.committed = TRUE]
  <2>1. /\ new \in OwnerRecord /\ new.iocb = o.iocb /\ new.handle = o.handle /\ new.mode = o.mode
        /\ new.reading = o.reading /\ new.eof = o.eof
    BY <1>4 DEF OwnerRecord
  <2>2. AfterCommit(call, new) /\ gets' = gets /\ told' = told
    BY <1>5 DEF history
  <2> HIDE DEF new
  <2>3. (\A t \in Slots : ((Used(t))' => Used(t)) /\ SameReader(t)) /\ ReadCallInv'
    BY <1>2, <1>4, <2>1, <2>2, CommitsOn
  <2>4. GivesNothing
    BY <2>2, <2>3 DEF GivesNothing
  <2>5. QED  BY <1>2, <2>3, <2>4, DeviceRests, GivesNothingKeeps
<1>6. CASE /\ Set(s, Acknowledge(o, count)) /\ UNCHANGED history
           /\ Exchange(call, "write") \/ Exchange(call, "commit") \/ Return
  <2> DEFINE new == Acknowledge(o, count)
  <2>1. /\ new \in OwnerRecord /\ new.iocb = o.iocb /\ new.handle = o.handle /\ new.mode = o.mode
        /\ new.reading = o.reading /\ new.eof = o.eof
    BY <1>2, <1>4, Acknowledged DEF SameWriter
  <2>2. Set(s, new) /\ gets' = gets /\ told' = told
    BY <1>6 DEF history
  <2> HIDE DEF new
  <2>3. \A t \in Slots : ((Used(t))' => Used(t)) /\ SameReader(t)
    BY <1>4, <2>1, <2>2, WritesOn
  <2>4. call'.stage # "read"
    BY <1>2, <1>6, Exchanges, Returns DEF Stages
  <2>5. GivesNothing
    BY <2>2, <2>3 DEF GivesNothing
  <2>6. QED  BY <1>2, <2>4, <2>5, NotReading, DeviceRests, GivesNothingKeeps
<1>7. CASE ExchangeFails(call)
  BY <1>2, <1>7, FailsReads
<1>8. QED
  <2>1. \/ Set(s, Acknowledge(o, count)) /\ Exchange(call, "write") /\ UNCHANGED history
        \/ AfterCommit(call, [o EXCEPT !.committed = TRUE]) /\ UNCHANGED history
        \/ /\ Set(s, Acknowledge(o, count))
           /\ IF call.op = "put" THEN Return ELSE Exchange(call, "commit")
           /\ UNCHANGED history
        \/ ExchangeFails(call)
    BY DEF WriteReply
  <2>2. QED  BY <1>5, <1>6, <1>7, <2>1

LEMMA OpenReplyReads ==
  ASSUME StreamInv, ReadInv, OpenReply
  PROVE  ReadInv'
<1> SUFFICES ASSUME NEW s \in Slots, s = call.slot PROVE ReadInv'
  BY Replied DEF OpenReply
<1> DEFINE h == device.reply.handle  new == NewOwner(call, device.reply.handle)
<1>1. /\ Collected /\ Valid(device.reply) /\ call.stage = "open" /\ call'.stage = "none"
      /\ Set(s, new) /\ gets' = gets /\ told' = told
  BY Returns DEF OpenReply, history
<1>2. /\ call # NoCall /\ call.sent /\ device'.state = "idle" /\ call \in CallRecord
      /\ device.state = "ready" /\ device.reply.good /\ device.request.command = "open"
  BY <1>1, Replied, Devices DEF AtWrite
<1>3. call.iocb \in Iocbs /\ call.mode \in Modes
  BY <1>1, <1>2 DEF StreamInv, CallInv, CallRecord
<1>4. h \in Handles /\ gets[h] = <<>>
  BY <1>2 DEF StreamInv, DeviceInv, Fresh
<1>5. /\ new \in OwnerRecord /\ new.handle = h /\ new.offset = 0 /\ new.cache = <<>>
      /\ new.pos = 0 /\ ~new.eof
  BY <1>3, <1>4, NewOwners
<1> HIDE DEF new
<1>6. owner'[s] = new /\ \A t \in Slots : t # s => owner'[t] = owner[t]
  BY <1>1, <1>5, SetsOwner DEF StreamInv, TypeInv
<1>7. GivenInv'
  BY <1>1 DEF ReadInv, GivenInv
<1>8. ASSUME NEW t \in Slots, (Used(t))'
      PROVE  IF Readable(owner'[t]) THEN (Reading(t))'
             ELSE gets'[owner'[t].handle] = <<>> /\ ~owner'[t].eof
  <2>1. CASE t = s
    <3>1. gets'[owner'[s].handle] = <<>> /\ ~owner'[s].eof
      BY <1>1, <1>4, <1>5, <1>6
    <3>2. /\ owner'[s].offset = 0 /\ owner'[s].pos = 0 /\ Len(owner'[s].cache) = 0
          /\ Len(gets'[owner'[s].handle]) = 0 /\ Len(Content) \in Nat
      BY <1>5, <1>6, <3>1, Sizes, Lengths
    <3>3. owner'[s].offset <= Len(Content) /\ Len(owner'[s].cache) <= owner'[s].offset
          /\ Len(gets'[owner'[s].handle])
               = (owner'[s].offset - Len(owner'[s].cache)) + owner'[s].pos
      <4>1. PICK offset, pos, len, given :
              /\ offset = owner'[s].offset /\ pos = owner'[s].pos
              /\ len = Len(owner'[s].cache) /\ given = Len(gets'[owner'[s].handle])
        OBVIOUS
      <4>2. given = (offset - len) + pos /\ len <= offset /\ offset <= Len(Content)
        BY <3>2, <4>1
      <4>3. QED  BY <4>1, <4>2
    <3>4. \A i \in 1..Len(owner'[s].cache) : FALSE
      BY <3>2
    <3>5. QED  BY <2>1, <3>1, <3>3, <3>4 DEF Reading
  <2>2. CASE t # s
    <3>1. owner'[t] = owner[t] /\ Used(t)
      BY <1>6, <1>8, <2>2 DEF Used
    <3>2. QED  BY <1>1, <3>1 DEF ReadInv, OwnersReadInv, Reading
  <2>3. QED  BY <2>1, <2>2
<1>9. QED  BY <1>1, <1>2, <1>7, <1>8, NotReading, DeviceRests DEF ReadInv, OwnersReadInv

-----------------------------------------------------------------------------
(* GET gives the next byte of the response.                                *)
GivesByte(h) ==
  /\ Len(gets[h]) < Len(Content)
  /\ gets' = [gets EXCEPT ![h] = Append(@, Content[Len(@) + 1])]
  /\ told' = told

(* o has handed out n bytes.                                               *)
ReadsOn(o, n) ==
  /\ o.offset <= Len(Content) /\ Len(o.cache) <= o.offset
  /\ n = (o.offset - Len(o.cache)) + o.pos
  /\ \A i \in 1..Len(o.cache) : o.cache[i] = Content[(o.offset - Len(o.cache)) + i]
  /\ o.eof => o.offset = Len(Content)

LEMMA GivesKeeps ==
  ASSUME StreamInv, ReadInv, NEW s \in Slots, Used(s), NEW new \in OwnerRecord, Set(s, new),
         new.handle = owner[s].handle, Readable(new), GivesByte(owner[s].handle),
         ReadsOn(new, Len(gets[owner[s].handle]) + 1),
         ReadCallInv', ReadReplyInv'
  PROVE  ReadInv'
<1> DEFINE h == owner[s].handle  g == gets[owner[s].handle]  x == Content[Len(g) + 1]
           more == Append(gets[owner[s].handle], Content[Len(gets[owner[s].handle]) + 1])
<1>1. /\ h \in Handles /\ g \in Seq(Bytes) /\ Len(g) \in Nat /\ Content \in Seq(Bytes)
      /\ Len(Content) \in Nat /\ gets \in [Handles -> Seq(Bytes)] /\ IsStart(g, Content)
  BY InUse, Sizes, Lengths DEF StreamInv, TypeInv, ReadInv, GivenInv
<1>2. Len(g) < Len(Content) /\ gets' = [gets EXCEPT ![h] = more] /\ told' = told
  BY DEF GivesByte
<1>3. x \in Bytes /\ Len(g) + 1 \in 1..Len(Content)
  BY <1>1, <1>2, ElementOfSeq
<1>4. /\ more \in Seq(Bytes) /\ Len(more) = Len(g) + 1
      /\ \A i \in 1..(Len(g) + 1) : more[i] = IF i <= Len(g) THEN g[i] ELSE x
  <2> DEFINE p == g  y == x
  <2>1. p \in Seq(Bytes) /\ y \in Bytes /\ Len(p) \in Nat /\ more = Append(p, y)
    BY <1>1, <1>3
  <2> HIDE DEF p, y, more
  <2>2. /\ Append(p, y) \in Seq(Bytes) /\ Len(Append(p, y)) = Len(p) + 1
        /\ \A i \in 1..(Len(p) + 1) : Append(p, y)[i] = IF i <= Len(p) THEN p[i] ELSE y
    BY <2>1
  <2>3. QED  BY <2>1, <2>2 DEF p, y
<1> HIDE DEF more
<1>5. IsStart(more, Content)
  <2>1. \A i \in 1..Len(g) : g[i] = Content[i]
    BY <1>1, Starts
  <2>2. Len(more) <= Len(Content)
    BY <1>1, <1>2, <1>4
  <2>3. ASSUME NEW i \in 1..Len(more) PROVE more[i] = Content[i]
    <3>1. i \in 1..(Len(g) + 1)
      BY <1>4
    <3>2. CASE i <= Len(g)
      BY <1>1, <1>4, <2>1, <3>1, <3>2
    <3>3. CASE i > Len(g)
      <4>1. PICK n \in Nat : n = Len(g)
        BY <1>1
      <4>2. i \in 1..(n + 1) /\ i > n
        BY <3>1, <3>3, <4>1
      <4>3. i = n + 1
        BY <4>2
      <4>4. more[i] = x
        BY <1>4, <3>1, <4>1, <4>2
      <4>5. QED  BY <4>1, <4>3, <4>4
    <3>4. QED  BY <1>1, <3>1, <3>2, <3>3
  <2>4. QED  BY <1>1, <1>4, <2>2, <2>3, Starts
<1>6. gets'[h] = more /\ \A k \in Handles : k # h => gets'[k] = gets[k]
  BY <1>1, <1>2
<1>7. GivenInv'
  <2>1. ASSUME NEW k \in Handles
        PROVE  IsStart(gets'[k], Content) /\ ("eof" \in told'[k] => gets'[k] = Content)
    <3>1. CASE k = h
      <4>1. "eof" \notin told[h]
        BY <1>1, <1>2 DEF ReadInv, GivenInv
      <4>2. QED  BY <1>2, <1>5, <1>6, <3>1, <4>1
    <3>2. CASE k # h
      BY <1>2, <1>6, <3>2 DEF ReadInv, GivenInv
    <3>3. QED  BY <3>1, <3>2
  <2>2. QED  BY <2>1 DEF GivenInv
<1>8. owner'[s] = new /\ \A t \in Slots : t # s => owner'[t] = owner[t]
  BY SetsOwner DEF StreamInv, TypeInv
<1>9. ASSUME NEW t \in Slots, (Used(t))'
      PROVE  IF Readable(owner'[t]) THEN (Reading(t))'
             ELSE gets'[owner'[t].handle] = <<>> /\ ~owner'[t].eof
  <2>1. CASE t = s
    <3>1. Len(gets'[owner'[s].handle]) = Len(gets[h]) + 1
      BY <1>4, <1>6, <1>8
    <3>2. ReadsOn(owner'[s], Len(gets'[owner'[s].handle]))
      BY <1>8, <3>1
    <3>3. (Reading(s))'
      BY <3>2 DEF Reading, ReadsOn
    <3>4. QED  BY <1>8, <2>1, <3>3
  <2>2. CASE t # s
    <3>1. owner'[t] = owner[t] /\ Used(t) /\ owner[t].handle \in Handles
      BY <1>8, <1>9, <2>2, InUse DEF Used
    <3>2. owner[t].handle # h
      BY <2>2, <3>1 DEF StreamInv, OwnerInv, OwnersApart, Used
    <3>3. gets'[owner'[t].handle] = gets[owner[t].handle]
      BY <1>6, <3>1, <3>2
    <3>4. QED  BY <3>1, <3>3 DEF ReadInv, OwnersReadInv, Reading
  <2>3. QED  BY <2>1, <2>2
<1>10. QED  BY <1>7, <1>9 DEF ReadInv, OwnersReadInv

LEMMA CachedByte ==
  ASSUME StreamInv, ReadInv, NEW s \in Slots, GetCached(s)
  PROVE  /\ Used(s) /\ owner[s].handle \in Handles /\ GivesByte(owner[s].handle)
         /\ ReadsOn(owner[s], Len(gets[owner[s].handle]))
<1> DEFINE o == owner[s]  h == owner[s].handle
<1>1. /\ Used(s) /\ o.pos < Len(o.cache) /\ told' = told
      /\ gets' = [gets EXCEPT ![h] = Append(@, o.cache[o.pos + 1])]
      /\ Readable(o)
  BY DEF GetCached, Deliver, Active, Used
<1>2. /\ h \in Handles /\ Reading(s) /\ gets \in [Handles -> Seq(Bytes)]
      /\ o.pos \in Nat /\ o.offset \in Nat /\ Len(o.cache) \in Nat /\ Len(Content) \in Nat
  BY <1>1, InUse, Sizes, Lengths DEF StreamInv, TypeInv, ReadInv, OwnersReadInv
<1>3. ReadsOn(o, Len(gets[h]))
  BY <1>2 DEF Reading, ReadsOn
<1>4. Len(gets[h]) < Len(Content) /\ o.cache[o.pos + 1] = Content[Len(gets[h]) + 1]
  <2>1. PICK offset, pos, len, given :
          /\ offset = o.offset /\ pos = o.pos /\ len = Len(o.cache) /\ given = Len(gets[h])
    OBVIOUS
  <2>2. /\ offset \in Nat /\ pos \in Nat /\ len \in Nat /\ pos < len /\ len <= offset
        /\ offset <= Len(Content) /\ given = (offset - len) + pos
    BY <1>1, <1>2, <1>3, <2>1 DEF ReadsOn
  <2>3. given < Len(Content) /\ pos + 1 \in 1..len /\ (offset - len) + (pos + 1) = given + 1
    BY <1>2, <2>2
  <2>4. o.cache[pos + 1] = Content[(offset - len) + (pos + 1)]
    BY <1>3, <2>1, <2>3 DEF ReadsOn
  <2>5. QED  BY <2>1, <2>3, <2>4
<1>5. gets' = [gets EXCEPT ![h] = Append(@, Content[Len(@) + 1])]
  BY <1>1, <1>4
<1>6. QED  BY <1>1, <1>2, <1>3, <1>4, <1>5 DEF GivesByte

LEMMA GetCachedReads ==
  ASSUME StreamInv, ReadInv, NEW s \in Slots, GetCached(s)
  PROVE  ReadInv'
<1> DEFINE o == owner[s]  h == owner[s].handle  new == [owner[s] EXCEPT !.pos = @ + 1]
<1>1. /\ Used(s) /\ h \in Handles /\ GivesByte(h) /\ ReadsOn(o, Len(gets[h]))
  BY CachedByte
<1>2. /\ Set(s, new) /\ call = NoCall /\ call' = call /\ device' = device /\ Readable(o)
  BY DEF GetCached, Deliver, Active
<1>3. o \in OwnerRecord /\ Len(o.cache) \in Nat /\ o.pos \in Nat /\ o.offset \in Nat
      /\ Len(gets[h]) \in Nat
  BY <1>1, InUse, Lengths DEF StreamInv, TypeInv
<1>4. /\ new \in OwnerRecord /\ new.pos = o.pos + 1 /\ new.cache = o.cache /\ new.eof = o.eof
      /\ new.handle = o.handle /\ new.offset = o.offset
      /\ new.mode = o.mode /\ new.reading = o.reading
  BY <1>3 DEF OwnerRecord
<1> HIDE DEF new
<1>5. ReadsOn(new, Len(gets[h]) + 1)
  <2>1. PICK offset, pos, len, given :
          /\ offset = o.offset /\ pos = o.pos /\ len = Len(o.cache) /\ given = Len(gets[h])
    OBVIOUS
  <2>2. /\ given = (offset - len) + pos
        /\ offset \in Nat /\ len \in Nat /\ pos \in Nat /\ given \in Nat
    BY <1>1, <1>3, <2>1 DEF ReadsOn
  <2>3. given + 1 = (offset - len) + (pos + 1)
    BY <2>2
  <2>4. Len(gets[h]) + 1 = (new.offset - Len(new.cache)) + new.pos
    BY <1>4, <2>1, <2>3
  <2>5. QED  BY <1>1, <1>4, <2>4 DEF ReadsOn
<1>6. Readable(new)
  BY <1>2, <1>4 DEF Readable
<1>7. ReadCallInv' /\ ReadReplyInv'
  BY <1>2, NoCallTypes, NotReading, DeviceRests
<1>8. QED  BY <1>1, <1>2, <1>4, <1>5, <1>6, <1>7, GivesKeeps

(* What a READ brought, to a reader whose cache was used up.               *)
LEMMA ReadBrings ==
  ASSUME StreamInv, ReadInv, ReadReply, NEW s \in Slots, s = call.slot, NEW r, r = device.reply
  PROVE  /\ Used(s) /\ owner[s].handle \in Handles /\ Readable(owner[s])
         /\ r \in ReplyRecord /\ Len(r.data) = r.count /\ r.count \in Nat
         /\ owner[s].offset \in Nat
         /\ Len(gets[owner[s].handle]) = owner[s].offset
         /\ owner[s].offset + r.count <= Len(Content)
         /\ \A i \in 1..r.count : r.data[i] = Content[owner[s].offset + i]
         /\ r.count = 0 \/ r.eof => owner[s].offset + r.count = Len(Content)
         /\ r.count = 0 => gets[owner[s].handle] = Content
<1> DEFINE o == owner[s]  h == owner[s].handle
<1>1. Collected /\ Valid(device.reply) /\ call.stage = "read"
  BY DEF ReadReply
<1>2. /\ call # NoCall /\ call.sent /\ r \in ReplyRecord /\ Used(s) /\ r.count \in Nat
      /\ device.state = "ready" /\ r.good /\ device.request.command = "read"
      /\ Len(r.data) = r.count
  <2>1. ~AtWrite
    BY <1>1 DEF AtWrite
  <2>2. QED  BY <1>1, <2>1, Replied DEF ReplyRecord, StreamInv, SizeInv
<1>3. device.request.offset = o.offset
  <2>1. device.request = RequestOf(call)
    BY <1>2 DEF StreamInv, LinkInv
  <2>2. RequestOf(call).offset = owner[call.slot].offset
    BY <1>1, <1>2, Requests DEF StreamInv
  <2>3. QED  BY <2>1, <2>2
<1>4. /\ Readable(o) /\ o.pos = Len(o.cache) /\ Reading(s)
  BY <1>1, <1>2 DEF ReadInv, ReadCallInv, OwnersReadInv
<1>5. /\ h \in Handles /\ gets[h] \in Seq(Bytes) /\ o.offset \in Nat /\ o.pos \in Nat
      /\ Len(o.cache) \in Nat /\ Len(Content) \in Nat /\ IsStart(gets[h], Content)
  BY <1>2, InUse, Sizes, Lengths DEF StreamInv, TypeInv, ReadInv, GivenInv
<1>6. Len(gets[h]) = o.offset
  <2>1. PICK offset, len, given :
          offset = o.offset /\ len = Len(o.cache) /\ given = Len(gets[h])
    OBVIOUS
  <2>2. given = (offset - len) + len
    BY <1>4, <2>1 DEF Reading
  <2>3. given = offset
    BY <1>5, <2>1, <2>2
  <2>4. QED  BY <2>1, <2>3
<1>7. /\ o.offset + r.count <= Len(Content)
      /\ \A i \in 1..r.count : r.data[i] = Content[o.offset + i]
      /\ r.count = 0 \/ r.eof => o.offset + r.count = Len(Content)
  BY <1>2, <1>3 DEF ReadInv, ReadReplyInv
<1>8. r.count = 0 => gets[h] = Content
  <2>1. ASSUME r.count = 0 PROVE Len(gets[h]) = Len(Content)
    BY <1>5, <1>6, <1>7, <2>1
  <2>2. QED  BY <1>5, <2>1, Sizes, StartIsAll
<1>9. QED  BY <1>2, <1>4, <1>5, <1>6, <1>7, <1>8

LEMMA ReadReplyReads ==
  ASSUME StreamInv, ReadInv, ReadReply
  PROVE  /\ ReadInv'
         /\ \E h \in Handles : \/ GivesByte(h)
                               \/ gets[h] = Content /\ Tell(h, {"eof"}) /\ gets' = gets
<1> SUFFICES ASSUME NEW s \in Slots, s = call.slot, NEW r, r = device.reply
             PROVE  /\ ReadInv'
                    /\ \/ GivesByte(owner[s].handle)
                       \/ /\ gets[owner[s].handle] = Content
                          /\ Tell(owner[s].handle, {"eof"}) /\ gets' = gets
  <2>1. call.slot \in Slots
    BY Replied DEF ReadReply
  <2>2. owner[call.slot].handle \in Handles
    BY <2>1, ReadBrings
  <2>3. QED  BY <2>1, <2>2
<1> DEFINE o == owner[s]  h == owner[s].handle
           a == [owner[s] EXCEPT !.eof = r.eof]  b == [a EXCEPT !.cache = r.data]
           d == [b EXCEPT !.pos = 0]  e == [d EXCEPT !.offset = @ + r.count]
           f == [e EXCEPT !.pos = @ + 1]
<1>1. /\ Used(s) /\ h \in Handles /\ Readable(o)
      /\ r \in ReplyRecord /\ Len(r.data) = r.count /\ r.count \in Nat
      /\ o.offset \in Nat /\ Len(gets[h]) = o.offset
      /\ o.offset + r.count <= Len(Content)
      /\ \A i \in 1..r.count : r.data[i] = Content[o.offset + i]
      /\ r.count = 0 \/ r.eof => o.offset + r.count = Len(Content)
      /\ r.count = 0 => gets[h] = Content
  BY ReadBrings
<1>2. /\ o \in OwnerRecord /\ r.data \in Seq(Bytes) /\ r.eof \in BOOLEAN /\ Len(Content) \in Nat
  BY <1>1, InUse, Sizes, Lengths DEF ReplyRecord
<1>3. /\ e \in OwnerRecord /\ e.iocb = o.iocb /\ e.handle = h /\ e.mode = o.mode
      /\ e.reading = o.reading /\ e.cache = r.data /\ e.pos = 0 /\ e.eof = r.eof
      /\ e.offset = o.offset + r.count
  <2>1. a \in OwnerRecord /\ SameWriter(a, o) /\ a.reading = o.reading /\ a.eof = r.eof
        /\ a.offset = o.offset
    BY <1>2 DEF OwnerRecord, SameWriter
  <2> HIDE DEF a
  <2>2. b \in OwnerRecord /\ SameWriter(b, a) /\ b.reading = a.reading /\ b.cache = r.data
        /\ b.eof = a.eof /\ b.offset = a.offset
    BY <1>2, <2>1 DEF OwnerRecord, SameWriter
  <2> HIDE DEF b
  <2>3. d \in OwnerRecord /\ SameWriter(d, b) /\ d.reading = b.reading /\ d.cache = b.cache
        /\ d.pos = 0 /\ d.eof = b.eof /\ d.offset = b.offset
    BY <2>2 DEF OwnerRecord, SameWriter
  <2> HIDE DEF d
  <2>4. e \in OwnerRecord /\ SameWriter(e, d) /\ e.reading = d.reading /\ e.cache = d.cache
        /\ e.pos = d.pos /\ e.eof = d.eof /\ e.offset = d.offset + r.count
    <3> DEFINE n == d.offset + r.count
    <3>1. e = [d EXCEPT !.offset = n] /\ n \in Nat
      BY <1>1, <2>3 DEF OwnerRecord
    <3> HIDE DEF n, e
    <3>2. e \in OwnerRecord /\ SameWriter(e, d) /\ e.reading = d.reading /\ e.cache = d.cache
          /\ e.pos = d.pos /\ e.eof = d.eof /\ e.offset = n
      BY <2>3, <3>1 DEF OwnerRecord, SameWriter
    <3>3. QED  BY <3>2 DEF n
  <2> HIDE DEF e
  <2>5. QED  BY <2>1, <2>2, <2>3, <2>4 DEF SameWriter
<1>4. /\ r.count = 0 => Set(s, e) /\ Tell(e.handle, {"eof"}) /\ gets' = gets
      /\ r.count # 0 => Deliver(s, e)
  <2>1. e = [o EXCEPT !.eof = r.eof, !.cache = r.data, !.pos = 0, !.offset = @ + r.count]
    BY <1>2 DEF OwnerRecord
  <2> HIDE DEF e
  <2>2. QED  BY <2>1 DEF ReadReply
<1> HIDE DEF e
<1>5. ReadCallInv' /\ ReadReplyInv'
  <2>1. call'.stage # "read" /\ device'.state # "ready"
    BY Returns, Devices DEF ReadReply, Collected
  <2>2. QED  BY <2>1, NotReading, DeviceRests
<1>6. PICK offset \in Nat, count \in Nat :
        offset = o.offset /\ count = r.count
  BY <1>1
<1>7. \A i \in 1..Len(e.cache) : e.cache[i] = Content[(e.offset - Len(e.cache)) + i]
  <2>1. e.offset - Len(e.cache) = offset /\ Len(e.cache) = count
    <3>1. e.offset = offset + count /\ Len(e.cache) = count
      BY <1>1, <1>3, <1>6
    <3>2. (offset + count) - count = offset
      OBVIOUS
    <3>3. QED  BY <3>1, <3>2
  <2>2. QED  BY <1>1, <1>3, <1>6, <2>1
<1>8. /\ e.offset <= Len(Content) /\ Len(e.cache) <= e.offset
      /\ e.offset - Len(e.cache) = offset
      /\ e.eof => e.offset = Len(Content)
  <2>1. e.offset = offset + count /\ Len(e.cache) = count
    BY <1>1, <1>3, <1>6
  <2>2. count <= offset + count /\ (offset + count) - count = offset
    OBVIOUS
  <2>3. QED  BY <1>1, <1>3, <1>6, <2>1, <2>2
<1>9. CASE r.count = 0
  <2>1. Set(s, e) /\ Tell(h, {"eof"}) /\ gets' = gets /\ gets[h] = Content
    BY <1>1, <1>3, <1>4, <1>9
  <2>2. owner'[s] = e /\ \A t \in Slots : t # s => owner'[t] = owner[t]
    BY <1>3, <2>1, SetsOwner DEF StreamInv, TypeInv
  <2>3. GivenInv'
    <3>1. \A g \in Handles : "eof" \in told'[g] => "eof" \in told[g] \/ gets[g] = Content
      BY <1>1, <2>1, TellsOn
    <3>2. QED  BY <2>1, <3>1 DEF ReadInv, GivenInv
  <2>4. ASSUME NEW t \in Slots, (Used(t))'
        PROVE  IF Readable(owner'[t]) THEN (Reading(t))'
               ELSE gets'[owner'[t].handle] = <<>> /\ ~owner'[t].eof
    <3>1. CASE t = s
      <4>1. Len(gets'[owner'[s].handle]) = (e.offset - Len(e.cache)) + e.pos
        <5>1. Len(gets'[owner'[s].handle]) = offset
          BY <1>1, <1>3, <1>6, <2>1, <2>2
        <5>2. (e.offset - Len(e.cache)) + e.pos = offset
          BY <1>3, <1>8
        <5>3. QED  BY <5>1, <5>2
      <4>2. (Reading(s))'
        BY <1>7, <1>8, <2>2, <4>1 DEF Reading
      <4>3. Readable(owner'[s])
        BY <1>1, <1>3, <2>2 DEF Readable
      <4>4. QED  BY <3>1, <4>2, <4>3
    <3>2. CASE t # s
      <4>1. owner'[t] = owner[t] /\ Used(t)
        BY <2>2, <2>4, <3>2 DEF Used
      <4>2. QED  BY <2>1, <4>1 DEF ReadInv, OwnersReadInv, Reading
    <3>3. QED  BY <3>1, <3>2
  <2>5. ReadInv'
    BY <1>5, <2>3, <2>4 DEF ReadInv, OwnersReadInv
  <2>6. QED  BY <2>1, <2>5
<1>10. CASE r.count # 0
  <2>1. /\ Set(s, f) /\ told' = told
        /\ gets' = [gets EXCEPT ![h] = Append(@, r.data[1])]
    BY <1>3, <1>4, <1>10 DEF Deliver
  <2>2. /\ f \in OwnerRecord /\ f.handle = e.handle /\ f.mode = e.mode /\ f.reading = e.reading
        /\ f.cache = e.cache /\ f.pos = 1 /\ f.offset = e.offset /\ f.eof = e.eof
    BY <1>3 DEF OwnerRecord
  <2> HIDE DEF f
  <2>3. GivesByte(h)
    <3>1. Len(gets[h]) < Len(Content) /\ r.data[1] = Content[Len(gets[h]) + 1]
      <4>1. offset + count <= Len(Content) /\ count # 0 /\ Len(gets[h]) = offset
        BY <1>1, <1>6, <1>10
      <4>2. 1 \in 1..count /\ offset < Len(Content)
        BY <1>2, <4>1
      <4>3. QED  BY <1>1, <1>6, <4>1, <4>2
    <3>2. QED  BY <2>1, <3>1 DEF GivesByte
  <2>4. ReadsOn(f, Len(gets[h]) + 1)
    <3>1. Len(gets[h]) + 1 = (f.offset - Len(f.cache)) + f.pos
      BY <1>1, <1>6, <1>8, <2>2
    <3>2. QED  BY <1>7, <1>8, <2>2, <3>1 DEF ReadsOn
  <2>5. Readable(f) /\ f.handle = h
    BY <1>1, <1>3, <2>2 DEF Readable
  <2>6. ReadInv'
    BY <1>1, <1>5, <2>1, <2>2, <2>3, <2>4, <2>5, GivesKeeps
  <2>7. QED  BY <2>3, <2>6
<1>11. QED  BY <1>9, <1>10

-----------------------------------------------------------------------------
(* The FujiNet gives nothing to the program.                               *)
LEMMA ServesOn ==
  ASSUME StreamInv, ReadInv, UNCHANGED <<owner, call, gets, told>>, ReadReplyInv'
  PROVE  ReadInv'
<1>1. owner' = owner /\ call' = call /\ gets' = gets /\ told' = told
  OBVIOUS
<1>2. GivesNothing
  BY <1>1, SameOwners DEF GivesNothing
<1>3. QED  BY <1>1, <1>2, SameCallReads, GivesNothingKeeps

LEMMA OthersServe ==
  ASSUME StreamInv, ReadInv,
         ServeOpen \/ ServeWrite \/ ServeInfo \/ ServeClose \/ Refuse \/ Restart
  PROVE  ReadInv'
<1>1. UNCHANGED <<owner, call, gets, told>>
  BY DEF ServeOpen, ServeWrite, ServeInfo, ServeClose, Refuse, Restart, local, history
<1>2. CASE Refuse
  <2>1. device' = [device EXCEPT !.state = "ready"] /\ device \in DeviceRecord
        /\ ~device.reply.good
    BY <1>2, BusyIsOutstanding DEF Refuse
  <2>2. ~device'.reply.good
    BY <2>1 DEF DeviceRecord
  <2>3. QED  BY <1>1, <2>2, DeviceRests, ServesOn
<1>3. CASE Restart
  BY <1>1, <1>3, Devices, DeviceRests, ServesOn DEF Restart
<1>4. CASE ServeOpen
  <2>1. device.request.command = "open" /\ device \in DeviceRecord
        /\ \E r : device' = [device EXCEPT !.state = "ready", !.reply = r]
    BY <1>4, BusyIsOutstanding DEF ServeOpen, Serving
  <2>2. device'.request.command # "read"
    BY <2>1 DEF DeviceRecord
  <2>3. QED  BY <1>1, <2>2, ServesOn DEF ReadReplyInv
<1>5. CASE ServeWrite \/ ServeInfo \/ ServeClose
  <2>1. device.request.command # "read" /\ device \in DeviceRecord
        /\ \E r : device' = [device EXCEPT !.state = "ready", !.reply = r]
    BY <1>5, BusyIsOutstanding DEF ServeWrite, ServeInfo, ServeClose, Serving, Replies
  <2>2. device'.request.command # "read"
    BY <2>1 DEF DeviceRecord
  <2>3. QED  BY <1>1, <2>2, ServesOn DEF ReadReplyInv
<1>6. QED  BY <1>2, <1>3, <1>4, <1>5

LEMMA ServeReadReads ==
  ASSUME StreamInv, ReadInv, ServeRead
  PROVE  ReadInv'
<1>1. UNCHANGED <<owner, call, gets, told>> /\ device.state = "busy"
  BY DEF ServeRead, Serving, local, history
<1>2. NoReply \in ReplyRecord /\ device \in DeviceRecord
  BY <1>1, BusyIsOutstanding
<1>3. PICK from : from = device.request.offset
  OBVIOUS
<1>4. PICK upto \in from..Len(Content), eof \in BOOLEAN :
        /\ upto > from \/ upto = Len(Content)
        /\ eof => upto = Len(Content)
        /\ Replies([NoReply EXCEPT !.count = upto - from, !.eof = eof,
                                   !.data = SubSeq(Content, from + 1, upto)])
  BY <1>3 DEF ServeRead
<1> DEFINE data == SubSeq(Content, from + 1, upto)  n == upto - from
           a == [NoReply EXCEPT !.count = n]  b == [a EXCEPT !.eof = eof]
           reply == [b EXCEPT !.data = data]
<1>5. from \in Nat /\ Content \in Seq(Bytes) /\ Len(Content) \in Nat /\ upto \in Nat /\ n \in Nat
      /\ upto <= Len(Content) /\ from + n = upto
  BY <1>2, <1>3, Sizes, Lengths DEF DeviceRecord, RequestRecord
<1>6. data \in Seq(Bytes) /\ Len(data) = n /\ \A i \in 1..n : data[i] = Content[from + i]
  <2>1. \A i \in (from + 1)..upto : Content[i] \in Bytes
    BY <1>5, ElementOfSeq
  <2>2. /\ data \in Seq(Bytes)
        /\ Len(data) = IF from + 1 <= upto THEN upto - (from + 1) + 1 ELSE 0
        /\ \A i \in 1..(upto - (from + 1) + 1) : data[i] = Content[(from + 1) + i - 1]
    BY <1>5, <2>1, SubSeqProperties
  <2> HIDE DEF data
  <2>3. upto >= from /\ upto - (from + 1) + 1 = n
    BY <1>5
  <2>4. ASSUME NEW i \in 1..n PROVE data[i] = Content[from + i]
    <3>1. data[i] = Content[(from + 1) + i - 1] /\ (from + 1) + i - 1 = from + i
      BY <1>5, <2>2, <2>3
    <3>2. QED  BY <3>1
  <2>5. QED  BY <1>5, <2>2, <2>3, <2>4
<1>7. Replies(reply)
  BY <1>4
<1> HIDE DEF data, n
<1>8. reply \in ReplyRecord /\ reply.count = n /\ reply.data = data /\ reply.eof = eof
  <2>1. a \in ReplyRecord /\ a.count = n
    BY <1>2, <1>5 DEF ReplyRecord
  <2> HIDE DEF a
  <2>2. b \in ReplyRecord /\ b.count = n /\ b.eof = eof
    BY <2>1 DEF ReplyRecord
  <2> HIDE DEF b
  <2>3. QED  BY <1>6, <2>2 DEF ReplyRecord
<1> HIDE DEF reply
<1>9. /\ device'.request = device.request
      /\ device'.reply.good => /\ device'.reply.count = n /\ device'.reply.data = data
                               /\ device'.reply.eof = eof
  BY <1>1, <1>7, <1>8, RepliesAre
<1>10. n = 0 \/ eof => upto = Len(Content)
  BY <1>4, <1>5
<1>11. ReadReplyInv'
  <2> SUFFICES ASSUME device'.reply.good
               PROVE  /\ from + n <= Len(Content)
                      /\ \A i \in 1..n : data[i] = Content[from + i]
                      /\ n = 0 \/ eof => from + n = Len(Content)
    BY <1>3, <1>9 DEF ReadReplyInv
  <2>1. QED  BY <1>5, <1>6, <1>10
<1>12. QED  BY <1>1, <1>11, ServesOn

-----------------------------------------------------------------------------
LEMMA ReadsInitially == Init => ReadInv
<1> SUFFICES ASSUME Init PROVE ReadInv
  OBVIOUS
<1>1. /\ \A s \in Slots : ~Used(s)
      /\ device = Idle /\ call = NoCall /\ \A h \in Handles : gets[h] = <<>> /\ told[h] = {}
  BY DEF Init, Used, FreeOwner
<1>2. device.state = "idle" /\ call.stage = "none"
  BY <1>1, Devices, NoCallTypes
<1>3. IsStart(<<>>, Content)
  BY Sizes, Whole
<1>4. QED  BY <1>1, <1>2, <1>3 DEF ReadInv, GivenInv, OwnersReadInv, ReadCallInv, ReadReplyInv

LEMMA NothingReads ==
  ASSUME StreamInv, ReadInv, UNCHANGED vars
  PROVE  ReadInv'
<1>1. owner' = owner /\ call' = call /\ gets' = gets /\ told' = told /\ device' = device
  BY DEF vars, local, history
<1>2. QED  BY <1>1, DeviceRests, ServesOn

LEMMA ReadInductive == StreamInv /\ ReadInv /\ [Next]_vars => ReadInv'
<1> SUFFICES ASSUME StreamInv, ReadInv, [Next]_vars PROVE ReadInv'
  OBVIOUS
<1>1. CASE CioCall
  <2>1. ASSUME NEW iocb \in Iocbs, NEW mode \in Modes, Open(iocb, mode) PROVE ReadInv'
    BY <2>1, OpenReads
  <2>2. ASSUME NEW s \in Slots, NEW b \in Bytes, Put(s, b) PROVE ReadInv'
    BY <2>2, PutReads
  <2>3. ASSUME NEW s \in Slots, GetCached(s) \/ GetAtEnd(s) \/ GetMore(s) PROVE ReadInv'
    BY <2>3, GetCachedReads, GetAtEndReads, GetMoreReads
  <2>4. ASSUME NEW s \in Slots, Status(s) \/ Close(s) PROVE ReadInv'
    BY <2>4, StatusCloseReads
  <2>5. QED  BY <1>1, <2>1, <2>2, <2>3, <2>4 DEF CioCall
<1>2. CASE Link \/ BadName
  BY <1>2, LinkReads, FailureReads DEF Link
<1>3. CASE Reply
  BY <1>3, FailureReads, OpenReplyReads, WriteReplyReads, ReadReplyReads, InfoReplyReads,
     CloseReplyReads DEF Reply
<1>4. CASE FujiNet \/ Restart
  BY <1>4, ServeReadReads, OthersServe DEF FujiNet
<1>5. CASE UNCHANGED vars
  BY <1>5, NothingReads
<1>6. QED  BY <1>1, <1>2, <1>3, <1>4, <1>5 DEF Next, CallStep

LEMMA ReadInvariant == Spec => [](StreamInv /\ ReadInv)
<1>1. Init => StreamInv /\ ReadInv
  BY Initially, ReadsInitially
<1>2. (StreamInv /\ ReadInv) /\ [Next]_vars => (StreamInv /\ ReadInv)'
  BY StreamInductive, ReadInductive
<1>3. QED  BY <1>1, <1>2, PTL DEF Spec

(* GET hands out the response from its first byte, each byte once and in   *)
(* order, across refills, failed READs and the switch from writing.        *)
THEOREM ReadsInOrder == Spec => []ReadInOrder
<1>1. ReadInv => ReadInOrder
  BY DEF ReadInv, GivenInv, IsStart, ReadInOrder, IsPrefix
<1>2. QED  BY <1>1, ReadInvariant, PTL

(* A program that saw STATUS or CLOSE succeed has its bytes committed, one *)
(* that saw end of file has read the whole response.                       *)
THEOREM TellsTrue == Spec => []ToldIsTrue
<1>1. StreamInv /\ ReadInv => ToldIsTrue
  BY DEF StreamInv, SessionInv, ReadInv, GivenInv, ToldIsTrue
<1>2. QED  BY <1>1, ReadInvariant, PTL

-----------------------------------------------------------------------------
(* The refinement: each step takes, delivers, commits, gives or reports    *)
(* for one session, or is not seen.                                        *)
Shows == [Streams!Next]_(Streams!vars)
SameBodies == \A h \in Handles : session'[h].body = session[h].body
                                 /\ session'[h].commits = session[h].commits

LEMMA Unseen ==
  ASSUME SameBodies, UNCHANGED <<puts, gets, told>>
  PROVE  Shows
BY DEF Shows, SameBodies, Streams!vars

LEMMA SameSession ==
  ASSUME session' = session
  PROVE  SameBodies
BY DEF SameBodies

LEMMA Tellings ==
  ASSUME SameBodies, UNCHANGED <<puts, gets>>, NEW h \in Handles,
         NEW what \in SUBSET {"failed", "committed", "eof"}, Tell(h, what),
         "committed" \in what => session[h].commits = 1,
         "eof" \in what => gets[h] = Content
  PROVE  Shows
<1>1. CASE told' = told
  BY <1>1, Unseen
<1>2. CASE told' = [told EXCEPT ![h] = @ \cup what]
  <2>1. what \in SUBSET Streams!True(h)
    BY DEF Streams!True
  <2>2. Streams!Tell(h)
    BY <1>2, <2>1 DEF Streams!Tell, SameBodies
  <2>3. QED  BY <2>2 DEF Shows, Streams!Next
<1>3. QED  BY <1>1, <1>2 DEF Tell

LEMMA Givings ==
  ASSUME SameBodies, puts' = puts, NEW h \in Handles, GivesByte(h)
  PROVE  Shows
<1>1. Streams!Give(h)
  BY DEF Streams!Give, GivesByte, SameBodies
<1>2. QED  BY <1>1 DEF Shows, Streams!Next

LEMMA PutShows ==
  ASSUME StreamInv, NEW s \in Slots, NEW b \in Bytes, Put(s, b)
  PROVE  Shows
<1> DEFINE h == owner[s].handle  new == [owner[s] EXCEPT !.cache = Append(@, b)]
<1>1. /\ call = NoCall /\ Writing(s) /\ session' = session /\ gets' = gets /\ told' = told
      /\ puts' = [puts EXCEPT ![new.handle] = Append(@, b)]
  BY DEF Put, Active, Writing, Used
<1>2. h \in Handles /\ session[h].commits = 0 /\ owner[s] \in OwnerRecord
  BY <1>1, NothingInFlight, InUse DEF Writing, StreamInv, CacheInv
<1>3. new.handle = h
  BY <1>2 DEF OwnerRecord
<1>4. Streams!Take(h, b)
  BY <1>1, <1>2, <1>3 DEF Streams!Take
<1>5. QED  BY <1>2, <1>4 DEF Shows, Streams!Next

LEMMA FailureShows ==
  ASSUME StreamInv, call # NoCall, ExchangeFails(call), session' = session
  PROVE  Shows
<1> SUFFICES ASSUME NEW s \in Slots, s = call.slot PROVE Shows
  BY InCall
<1> DEFINE h == owner[s].handle
           what == IF call.stage \in {"write", "commit"} THEN {"failed"} ELSE {}
<1>1. Tell(h, what) /\ gets' = gets /\ puts' = puts
  BY DEF ExchangeFails
<1>2. /\ what \in SUBSET {"failed", "committed", "eof"}
      /\ "committed" \notin what /\ "eof" \notin what
  OBVIOUS
<1>3. CASE what = {}
  BY <1>1, <1>3, Unseen, SameSession DEF Tell
<1>4. CASE what # {}
  <2>1. call.stage # "open"
    BY <1>4
  <2>2. h \in Handles
    BY <2>1, InCall, InUse
  <2> HIDE DEF what
  <2>3. QED  BY <1>1, <1>2, <2>2, Tellings, SameSession
<1>5. QED  BY <1>3, <1>4

LEMMA ServeWriteShows ==
  ASSUME StreamInv, ServeWrite
  PROVE  Shows
<1>1. PICK h, data : h = device.request.handle /\ data = device.request.data
  OBVIOUS
<1>2. /\ h \in Handles /\ session[h].commits = 0 /\ Len(session[h].body) \in Nat
      /\ puts[h] \in Seq(Bytes) /\ (data = <<>> => session[h].body = puts[h])
  BY <1>1, Appends
<1>3. PICK k, all : AppendsTo(h, k, all)
  BY <1>1, Appends
<1>4. /\ k \in 0..Len(data) /\ IsStart(all, puts[h]) /\ Len(all) = Len(session[h].body) + k
      /\ data = <<>> => all = puts[h]
      /\ session'[h].body = all
      /\ session'[h].commits = IF data = <<>> THEN 1 ELSE 0
      /\ \A g \in Handles : g # h => session'[g] = session[g]
  BY <1>1, <1>3 DEF AppendsTo
<1>5. puts' = puts /\ gets' = gets /\ told' = told
  BY DEF ServeWrite, history
<1>6. CASE data = <<>>
  <2>1. Streams!Commit(h)
    BY <1>2, <1>4, <1>5, <1>6 DEF Streams!Commit
  <2>2. QED  BY <1>2, <2>1 DEF Shows, Streams!Next
<1>7. CASE data # <<>>
  <2>1. Len(all) \in Len(session[h].body)..Len(puts[h]) /\ all = SubSeq(puts[h], 1, Len(all))
    BY <1>2, <1>4, LenProperties DEF IsStart
  <2>2. [g \in Handles |-> session'[g].body]
          = [[g \in Handles |-> session[g].body] EXCEPT ![h] = SubSeq(puts[h], 1, Len(all))]
    BY <1>2, <1>4, <2>1
  <2>3. [g \in Handles |-> session'[g].commits] = [g \in Handles |-> session[g].commits]
    BY <1>2, <1>4, <1>7
  <2>4. Streams!Grow(h)
    BY <1>2, <1>5, <2>1, <2>2, <2>3 DEF Streams!Grow
  <2>5. QED  BY <1>2, <2>4 DEF Shows, Streams!Next
<1>8. QED  BY <1>6, <1>7

LEMMA ServeShows ==
  ASSUME StreamInv, ServeOpen \/ ServeRead \/ ServeInfo \/ ServeClose \/ Refuse \/ Restart
  PROVE  Shows
<1>1. puts' = puts /\ gets' = gets /\ told' = told /\ session \in [Handles -> SessionRecord]
  BY DEF ServeOpen, ServeRead, ServeInfo, ServeClose, Refuse, Restart, history, StreamInv, TypeInv
<1>2. CASE ServeRead \/ ServeInfo \/ Refuse
  <2>1. session' = session
    BY <1>2 DEF ServeRead, ServeInfo, Refuse
  <2>2. QED  BY <1>1, <2>1, SameSession, Unseen
<1>3. CASE ServeClose
  <2>1. SameBodies
    BY <1>1, <1>3 DEF ServeClose, SameBodies, SessionRecord
  <2>2. QED  BY <1>1, <2>1, Unseen
<1>4. CASE Restart
  <2>1. SameBodies
    BY <1>1, <1>4 DEF Restart, SameBodies, SessionRecord
  <2>2. QED  BY <1>1, <2>1, Unseen
<1>5. CASE ServeOpen
  <2>1. PICK h \in Handles :
          session' = [session EXCEPT ![h].state = "open", ![h].mode = device.request.mode]
    BY <1>5 DEF ServeOpen
  <2>2. SameBodies
    BY <1>1, <2>1 DEF SameBodies, SessionRecord
  <2>3. QED  BY <1>1, <2>2, Unseen
<1>6. QED  BY <1>2, <1>3, <1>4, <1>5

LEMMA CallShows ==
  ASSUME StreamInv, ReadInv, NEW s \in Slots,
         GetCached(s) \/ GetAtEnd(s) \/ GetMore(s) \/ Status(s) \/ Close(s)
  PROVE  Shows
<1>1. session' = session /\ puts' = puts
  BY DEF GetCached, GetAtEnd, GetMore, Status, Close, history
<1>2. CASE GetCached(s)
  BY <1>1, <1>2, CachedByte, SameSession, Givings
<1>3. CASE GetAtEnd(s)
  <2>1. /\ Used(s) /\ Tell(owner[s].handle, {"eof"}) /\ gets' = gets
        /\ gets[owner[s].handle] = Content
    BY <1>3, AtEnd DEF GetAtEnd, Active, Used
  <2>2. owner[s].handle \in Handles
    BY <2>1, InUse
  <2>3. QED  BY <1>1, <2>1, <2>2, SameSession, Tellings
<1>4. CASE GetMore(s) \/ Status(s) \/ Close(s)
  <2>1. gets' = gets /\ told' = told
    BY <1>4 DEF GetMore, Status, Close, history
  <2>2. QED  BY <1>1, <2>1, SameSession, Unseen
<1>5. QED  BY <1>2, <1>3, <1>4

LEMMA LinkShows ==
  ASSUME StreamInv, Link \/ BadName \/ BadReply
  PROVE  Shows
<1>1. session' = session
  BY DEF Link, BadName, BadReply, Recover, RecoverFails, Send, SendFails, Missing, NotCollected
<1>2. CASE Recover \/ Send \/ BadName
  BY <1>1, <1>2, SameSession, Unseen DEF Recover, Send, BadName, history
<1>3. CASE RecoverFails \/ SendFails \/ Missing \/ NotCollected \/ BadReply
  <2>1. call # NoCall /\ ExchangeFails(call)
    BY <1>3 DEF RecoverFails, SendFails, Missing, NotCollected, BadReply, Pending, Waiting, Collected
  <2>2. QED  BY <1>1, <2>1, FailureShows
<1>4. QED  BY <1>2, <1>3 DEF Link

LEMMA ReplyShows ==
  ASSUME StreamInv, ReadInv, OpenReply \/ WriteReply \/ ReadReply \/ InfoReply \/ CloseReply
  PROVE  Shows
<1>1. session' = session /\ call.slot \in Slots /\ call # NoCall
  BY Replied DEF OpenReply, WriteReply, ReadReply, InfoReply, CloseReply
<1>2. CASE OpenReply
  BY <1>1, <1>2, SameSession, Unseen DEF OpenReply, history
<1>3. CASE WriteReply
  <2>1. UNCHANGED history \/ ExchangeFails(call)
    BY <1>3 DEF WriteReply
  <2>2. CASE UNCHANGED history
    BY <1>1, <2>2, SameSession, Unseen DEF history
  <2>3. QED  BY <1>1, <2>1, <2>2, FailureShows
<1>4. CASE ReadReply
  <2>1. PICK h \in Handles : \/ GivesByte(h)
                             \/ gets[h] = Content /\ Tell(h, {"eof"}) /\ gets' = gets
    BY <1>4, ReadReplyReads
  <2>2. puts' = puts
    BY <1>4 DEF ReadReply
  <2>3. QED  BY <1>1, <2>1, <2>2, SameSession, Givings, Tellings
<1>5. CASE InfoReply
  <2> SUFFICES ASSUME NEW s \in Slots, s = call.slot PROVE Shows
    BY <1>1
  <2>1. /\ owner[s].handle \in Handles
        /\ \E what \in SUBSET {"committed", "eof"} :
             /\ Tell(owner[s].handle, what)
             /\ "committed" \in what => session[owner[s].handle].commits = 1
             /\ "eof" \in what => gets[owner[s].handle] = Content
    BY <1>5, InfoTells
  <2>2. puts' = puts /\ gets' = gets
    BY <1>5 DEF InfoReply
  <2>3. QED  BY <1>1, <2>1, <2>2, SameSession, Tellings
<1>6. CASE CloseReply
  <2> SUFFICES ASSUME NEW s \in Slots, s = call.slot PROVE Shows
    BY <1>1
  <2>1. /\ owner[s].handle \in Handles
        /\ \E what \in SUBSET {"committed"} :
             /\ Tell(owner[s].handle, what)
             /\ "committed" \in what => session[owner[s].handle].commits = 1
    BY <1>6, CloseTells
  <2>2. puts' = puts /\ gets' = gets
    BY <1>6 DEF CloseReply
  <2>3. QED  BY <1>1, <2>1, <2>2, SameSession, Tellings
<1>7. QED  BY <1>2, <1>3, <1>4, <1>5, <1>6

LEMMA StreamsBegin == Init => Streams!Init
BY DEF Init, Streams!Init

LEMMA StepsShow == StreamInv /\ ReadInv /\ [Next]_vars => Shows
<1> SUFFICES ASSUME StreamInv, ReadInv, [Next]_vars PROVE Shows
  OBVIOUS
<1>1. CASE CioCall
  <2>1. ASSUME NEW iocb \in Iocbs, NEW mode \in Modes, Open(iocb, mode) PROVE Shows
    BY <2>1, SameSession, Unseen DEF Open, history
  <2>2. ASSUME NEW s \in Slots, NEW b \in Bytes, Put(s, b) PROVE Shows
    BY <2>2, PutShows
  <2>3. ASSUME NEW s \in Slots,
               GetCached(s) \/ GetAtEnd(s) \/ GetMore(s) \/ Status(s) \/ Close(s)
        PROVE  Shows
    BY <2>3, CallShows
  <2>4. QED  BY <1>1, <2>1, <2>2, <2>3 DEF CioCall
<1>2. CASE CallStep
  BY <1>2, LinkShows, ReplyShows DEF CallStep, Reply
<1>3. CASE FujiNet \/ Restart
  BY <1>3, ServeWriteShows, ServeShows DEF FujiNet
<1>4. CASE UNCHANGED vars
  BY <1>4, SameSession, Unseen DEF vars, history
<1>5. QED  BY <1>1, <1>2, <1>3, <1>4 DEF Next

(* The handler implements the byte streams it promises.                    *)
THEOREM StreamsKept == Spec => KeepsStreams
<1>1. StreamInv /\ ReadInv /\ [Next]_vars => [Streams!Next]_(Streams!vars)
  BY StepsShow DEF Shows
<1>2. QED  BY <1>1, StreamsBegin, ReadInvariant, PTL DEF Spec, KeepsStreams, Streams!Spec

-----------------------------------------------------------------------------
(* How far a call is from its return.                                      *)
StageInv ==
  /\ call.stage = "read" => call.op = "get"
  /\ call.stage = "info" => call.op = "status"

(* The exchanges that the call in progress may still make, this one        *)
(* included: a flush may be acknowledged byte by byte, and is followed by  *)
(* the commit and by what asked for it.                                    *)
ExchangesLeft ==
  CASE call.stage = "none" -> 0
    [] call.stage = "write" -> Len(owner[call.slot].cache) + 2
    [] call.stage = "commit" -> 2
    [] call.stage \in {"open", "read", "info", "close"} -> 1

(* Three steps each: to recover, to send and to end.                       *)
StepsLeft ==
  3 * ExchangesLeft - (IF call.stage = "none" THEN 0
                       ELSE IF call.sent THEN 2 ELSE IF outstanding THEN 0 ELSE 1)

CallBounded == StepsLeft \in 0..(3 * (CacheSize + 2)) /\ (StepsLeft = 0 <=> call = NoCall)

(* A step of the call brings it closer to its return; others begin a call, *)
(* or do not touch the handler.                                            *)
CallAdvances ==
  \/ CallStep /\ StepsLeft' < StepsLeft
  \/ CioCall /\ call = NoCall
  \/ UNCHANGED local

LEMMA CountsLeft ==
  ASSUME StreamInv
  PROVE  /\ ExchangesLeft \in 0..(CacheSize + 2)
         /\ ExchangesLeft = 0 <=> call.stage = "none"
         /\ call = NoCall <=> call.stage = "none"
<1>1. /\ call.stage \in Stages /\ call.slot \in Slots /\ CacheSize \in Nat
      /\ call = NoCall <=> call.stage = "none"
  BY Sizes DEF StreamInv, TypeInv, CallInv, CallRecord, Stages
<1>2. Len(owner[call.slot].cache) \in 0..CacheSize
  BY <1>1, InUse
<1>3. QED  BY <1>1, <1>2 DEF ExchangesLeft, Stages

LEMMA StepsBounded == StreamInv => CallBounded
<1> SUFFICES ASSUME StreamInv PROVE CallBounded
  OBVIOUS
<1> DEFINE e == ExchangesLeft
<1>1. /\ e \in 0..(CacheSize + 2) /\ CacheSize \in Nat
      /\ e = 0 <=> call.stage = "none"
      /\ call = NoCall <=> call.stage = "none"
      /\ StepsLeft = 3 * e - (IF call.stage = "none" THEN 0
                              ELSE IF call.sent THEN 2 ELSE IF outstanding THEN 0 ELSE 1)
  BY CountsLeft, Sizes DEF StepsLeft
<1> HIDE DEF e
<1>2. QED  BY <1>1 DEF CallBounded

LEMMA StepsBetween ==
  StreamInv => /\ ExchangesLeft \in Nat /\ StepsLeft \in Int
               /\ 3 * ExchangesLeft - 2 <= StepsLeft /\ StepsLeft <= 3 * ExchangesLeft
<1> DEFINE e == ExchangesLeft
<1> SUFFICES ASSUME StreamInv
             PROVE  e \in Nat /\ StepsLeft \in Int /\ 3 * e - 2 <= StepsLeft /\ StepsLeft <= 3 * e
  OBVIOUS
<1>1. /\ e \in Nat
      /\ StepsLeft = 3 * e - (IF call.stage = "none" THEN 0
                              ELSE IF call.sent THEN 2 ELSE IF outstanding THEN 0 ELSE 1)
  BY CountsLeft, Sizes DEF StepsLeft
<1> HIDE DEF e
<1>2. QED  BY <1>1

(* An exchange that ends leaves fewer; one that goes on takes its steps.   *)
LEMMA FewerExchanges ==
  ASSUME StreamInv, StreamInv', ExchangesLeft' < ExchangesLeft
  PROVE  StepsLeft' < StepsLeft
<1>1. (/\ ExchangesLeft \in Nat /\ StepsLeft \in Int
       /\ 3 * ExchangesLeft - 2 <= StepsLeft /\ StepsLeft <= 3 * ExchangesLeft)'
  BY StepsBetween, PTL
<1>2. /\ ExchangesLeft \in Nat /\ StepsLeft \in Int /\ 3 * ExchangesLeft - 2 <= StepsLeft
  BY StepsBetween
<1> DEFINE e == ExchangesLeft  f == ExchangesLeft'  a == StepsLeft  b == StepsLeft'
<1>3. e \in Nat /\ f \in Nat /\ f < e /\ a \in Int /\ b \in Int /\ 3 * e - 2 <= a /\ b <= 3 * f
  BY <1>1, <1>2
<1> HIDE DEF e, f, a, b
<1>4. b < a
  BY <1>3
<1>5. QED  BY <1>4 DEF a, b

LEMMA StagesBegin ==
  /\ \A c \in CallRecord : \A o : c.op \in {"get", "status", "close"} /\ AfterCommit(c, o) => StageInv'
  /\ \A c \in CallRecord : \A o : c.op \in {"get", "status", "close"} /\ FinishWrite(c, o) => StageInv'
<1>1. ASSUME NEW c \in CallRecord, NEW o, c.op \in {"get", "status", "close"}, AfterCommit(c, o)
      PROVE  StageInv'
  <2>1. PICK stage \in Stages :
          /\ Exchange(c, stage) /\ stage \in {"read", "info", "close"}
          /\ (stage = "read" => c.op = "get") /\ (stage = "info" => c.op = "status")
    BY <1>1 DEF AfterCommit, Stages
  <2>2. QED  BY <2>1, Exchanges DEF StageInv
<1>2. ASSUME NEW c \in CallRecord, NEW o, c.op \in {"get", "status", "close"}, FinishWrite(c, o)
      PROVE  StageInv'
  <2>1. CASE AfterCommit(c, o)  BY <1>1, <1>2, <2>1
  <2>2. CASE \E stage \in {"commit", "write"} : Exchange(c, stage)
    BY <2>2, Exchanges DEF StageInv, Stages
  <2>3. QED  BY <1>2, <2>1, <2>2 DEF FinishWrite
<1>3. QED  BY <1>1, <1>2

LEMMA FujiNetElsewhere == FujiNet \/ Restart => UNCHANGED local
<1>1. ServeOpen => UNCHANGED local  BY DEF ServeOpen
<1>2. ServeWrite => UNCHANGED local  BY DEF ServeWrite
<1>3. ServeRead => UNCHANGED local  BY DEF ServeRead
<1>4. ServeInfo \/ ServeClose \/ Refuse \/ Restart => UNCHANGED local
  BY DEF ServeInfo, ServeClose, Refuse, Restart
<1>5. QED  BY <1>1, <1>2, <1>3, <1>4 DEF FujiNet

LEMMA StagesKept == StreamInv /\ StageInv /\ [Next]_vars => StageInv'
<1> SUFFICES ASSUME StreamInv, StageInv, [Next]_vars PROVE StageInv'
  OBVIOUS
<1>1. ASSUME Return PROVE StageInv'
  BY <1>1, Returns DEF StageInv
<1>2. ASSUME NEW s \in Slots, NEW op \in Ops, NEW stage \in Stages, Exchange(Call(op, s), stage),
             stage = "read" => op = "get", stage = "info" => op = "status"
      PROVE  StageInv'
  BY <1>2, Calls, Exchanges DEF StreamInv, StageInv
<1>3. ASSUME NEW s \in Slots, NEW op \in {"get", "status", "close"}, NEW o, FinishWrite(Call(op, s), o)
      PROVE  StageInv'
  BY <1>3, Calls, StagesBegin DEF StreamInv, Ops
<1>4. ASSUME ExchangeFails(call) PROVE StageInv'
  BY <1>1, <1>4 DEF ExchangeFails, StageInv, StreamInv, TypeInv, CallRecord
<1>5. CASE CioCall
  <2>1. ASSUME NEW iocb \in Iocbs, NEW mode \in Modes, Open(iocb, mode) PROVE StageInv'
    BY <2>1 DEF Open, StageInv, NoCall
  <2>2. ASSUME NEW s \in Slots, NEW b \in Bytes, Put(s, b) PROVE StageInv'
    <3>1. Return \/ Exchange(Call("put", s), "write")
      BY <2>2 DEF Put
    <3>2. QED  BY <1>1, <1>2, <3>1 DEF Ops, Stages
  <2>3. ASSUME NEW s \in Slots, GetCached(s) \/ GetAtEnd(s) PROVE StageInv'
    BY <2>3 DEF GetCached, GetAtEnd, local, StageInv
  <2>4. ASSUME NEW s \in Slots, GetMore(s) PROVE StageInv'
    BY <1>2, <1>3, <2>4 DEF GetMore, Ops, Stages
  <2>5. ASSUME NEW s \in Slots, Status(s) PROVE StageInv'
    BY <1>2, <1>3, <2>5 DEF Status, Ops, Stages
  <2>6. ASSUME NEW s \in Slots, Close(s) PROVE StageInv'
    <3>1. CASE FinishWrite(Call("close", s), owner[s])
      BY <1>3, <3>1
    <3>2. CASE Exchange(Call("close", s), "close")
      BY <1>2, <3>2 DEF Ops, Stages
    <3>3. CASE Exchange([Call("close", s) EXCEPT !.result = FALSE], "close")
      <4>1. [Call("close", s) EXCEPT !.result = FALSE] \in CallRecord
        <5>1. Call("close", s) \in CallRecord
          BY Calls DEF StreamInv, Ops
        <5>2. QED  BY <5>1 DEF CallRecord
      <4>2. QED  BY <3>3, <4>1, Exchanges DEF StageInv, Stages
    <3>4. QED  BY <2>6, <3>1, <3>2, <3>3 DEF Close
  <2>7. QED  BY <1>5, <2>1, <2>2, <2>3, <2>4, <2>5, <2>6 DEF CioCall
<1>6. CASE Link \/ BadName
  <2>1. CASE Recover
    BY <2>1 DEF Recover, StageInv
  <2>2. CASE Send
    BY <2>2 DEF Send, StageInv, StreamInv, TypeInv, CallRecord
  <2>3. CASE RecoverFails \/ SendFails \/ Missing \/ NotCollected
    BY <1>4, <2>3 DEF RecoverFails, SendFails, Missing, NotCollected
  <2>4. CASE BadName
    BY <1>1, <2>4 DEF BadName
  <2>5. QED  BY <1>6, <2>1, <2>2, <2>3, <2>4 DEF Link
<1>7. CASE Reply
  <2>1. CASE BadReply
    BY <1>4, <2>1 DEF BadReply
  <2>2. CASE OpenReply \/ ReadReply \/ InfoReply \/ CloseReply
    BY <1>1, <2>2 DEF OpenReply, ReadReply, InfoReply, CloseReply
  <2>3. CASE WriteReply
    <3> DEFINE o == owner[call.slot]
    <3>1. /\ call \in CallRecord /\ call.op \in {"put", "get", "status", "close"}
          /\ (call.stage = "commit" => call.op # "put")
      BY <2>3 DEF WriteReply, Collected, Waiting, StreamInv, TypeInv, CallInv, AtWrite
    <3>2. \/ \E stage \in {"write", "commit"} : Exchange(call, stage)
          \/ call.stage = "commit" /\ AfterCommit(call, [o EXCEPT !.committed = TRUE])
          \/ Return
          \/ ExchangeFails(call)
      BY <2>3 DEF WriteReply
    <3>3. CASE \E stage \in {"write", "commit"} : Exchange(call, stage)
      BY <3>1, <3>3, Exchanges DEF StageInv, Stages
    <3>4. CASE call.stage = "commit" /\ AfterCommit(call, [o EXCEPT !.committed = TRUE])
      BY <3>1, <3>4, StagesBegin
    <3>5. QED  BY <1>1, <1>4, <3>2, <3>3, <3>4
  <2>4. QED  BY <1>7, <2>1, <2>2, <2>3 DEF Reply
<1>8. CASE FujiNet \/ Restart
  BY <1>8, FujiNetElsewhere DEF local, StageInv
<1>9. CASE UNCHANGED vars
  BY <1>9 DEF vars, local, StageInv
<1>10. QED  BY <1>5, <1>6, <1>7, <1>8, <1>9 DEF Next, CallStep

(* A failed exchange ends the call, or leaves the one that closes.         *)
LEMMA FailureAdvances ==
  ASSUME StreamInv, StageInv, call # NoCall, ExchangeFails(call)
  PROVE  ExchangesLeft' < ExchangesLeft
<1>1. /\ ExchangesLeft \in Nat /\ ExchangesLeft > 0
  BY CountsLeft, Sizes
<1>2. CASE Return
  BY <1>1, <1>2, Returns DEF ExchangesLeft
<1>3. CASE ~Return
  <2>1. /\ call.op = "close" /\ call.stage # "close"
        /\ call' = [call EXCEPT !.stage = "close", !.sent = FALSE, !.result = FALSE]
    BY <1>3 DEF ExchangeFails
  <2>2. call'.stage = "close"
    BY <2>1 DEF StreamInv, TypeInv, CallRecord
  <2>3. call.stage \in {"write", "commit"}
    BY <2>1, InCall DEF StreamInv, CallInv, StageInv, Stages
  <2>4. call.slot \in Slots /\ Len(owner[call.slot].cache) \in Nat
    BY InCall, InUse
  <2>5. ExchangesLeft >= 2
    BY <2>3, <2>4 DEF ExchangesLeft
  <2>6. ExchangesLeft' = 1
    BY <2>2 DEF ExchangesLeft
  <2>7. QED  BY <1>1, <2>5, <2>6
<1>4. QED  BY <1>2, <1>3

(* A WRITE acknowledged in part leaves less to write.                      *)
LEMMA WriteAdvances ==
  ASSUME StreamInv, StageInv, WriteReply
  PROVE  ExchangesLeft' < ExchangesLeft
<1> SUFFICES ASSUME NEW s \in Slots, s = call.slot PROVE ExchangesLeft' < ExchangesLeft
  BY Replied DEF WriteReply
<1> DEFINE o == owner[s]  count == device.reply.count  new == Acknowledge(o, count)
<1>1. /\ call # NoCall /\ call \in CallRecord /\ call.stage \in {"write", "commit"}
      /\ count \in Nat
  BY Replied DEF WriteReply, ReplyRecord
<1>2. /\ o \in OwnerRecord /\ o.cache \in Seq(Bytes) /\ Len(o.cache) \in Nat
      /\ (call.stage = "commit" => o.cache = <<>>)
  BY <1>1, InUse DEF StreamInv, CallInv, AtWrite
<1>3. ExchangesLeft = IF call.stage = "write" THEN Len(o.cache) + 2 ELSE 2
  BY <1>1 DEF ExchangesLeft
<1>4. CASE Partial(o, count) /\ Set(s, new) /\ Exchange(call, "write")
  <2>1. count > 0 /\ count < Len(o.cache) /\ call.stage = "write"
    BY <1>1, <1>2, <1>4, Lengths DEF Partial
  <2>2. new \in OwnerRecord /\ Len(new.cache) = Len(o.cache) - count
    BY <1>1, <1>2, <2>1, Acknowledged
  <2> HIDE DEF new
  <2>3. owner'[s] = new /\ call'.stage = "write" /\ call'.slot = s
    BY <1>1, <1>4, <2>2, SetsOwner, Exchanges DEF StreamInv, TypeInv, Stages
  <2>4. ExchangesLeft' = Len(new.cache) + 2
    BY <2>3 DEF ExchangesLeft
  <2> DEFINE m == Len(o.cache)  n == Len(new.cache)
  <2>5. ExchangesLeft = m + 2 /\ ExchangesLeft' = n + 2 /\ n = m - count
        /\ count > 0 /\ m \in Nat /\ count \in Nat
    BY <1>1, <1>2, <1>3, <2>1, <2>2, <2>4
  <2> HIDE DEF m, n, count
  <2>6. QED  BY <2>5
<1>5. CASE call.stage = "commit" /\ AfterCommit(call, [o EXCEPT !.committed = TRUE])
  <2>1. PICK stage \in {"read", "info", "close"} : Exchange(call, stage)
    BY <1>5 DEF AfterCommit
  <2>2. call'.stage = stage
    BY <1>1, <2>1, Exchanges DEF Stages
  <2>3. ExchangesLeft' = 1
    BY <2>2 DEF ExchangesLeft
  <2>4. QED  BY <1>3, <1>5, <2>3
<1>6. CASE /\ count = Len(o.cache) /\ call.stage = "write"
           /\ IF call.op = "put" THEN Return ELSE Exchange(call, "commit")
  <2>1. Len(o.cache) > 0
    BY <1>1, <1>2, <1>6, Lengths DEF StreamInv, CallInv, AtWrite
  <2>2. call'.stage \in {"none", "commit"}
    BY <1>1, <1>6, Returns, Exchanges DEF Stages
  <2>3. ExchangesLeft' \in {0, 2}
    BY <2>2 DEF ExchangesLeft
  <2>4. QED  BY <1>2, <1>3, <1>6, <2>1, <2>3
<1>7. CASE ExchangeFails(call)
  BY <1>1, <1>7, FailureAdvances
<1>8. QED
  BY <1>4, <1>5, <1>6, <1>7 DEF WriteReply

LEMMA StepAdvances ==
  ASSUME StreamInv, StreamInv', StageInv, CallStep
  PROVE  StepsLeft' < StepsLeft
<1>1. call # NoCall
  BY DEF CallStep, Link, Reply, Recover, RecoverFails, Send, SendFails, Missing, NotCollected,
         BadName, BadReply, OpenReply, WriteReply, ReadReply, InfoReply, CloseReply,
         Pending, Waiting, Collected
<1>2. /\ call \in CallRecord /\ call.stage # "none" /\ ExchangesLeft \in Nat /\ ExchangesLeft > 0
  BY <1>1, InCall, CountsLeft, Sizes
<1>3. CASE Return
  <2>1. ExchangesLeft' = 0
    BY <1>3, Returns DEF ExchangesLeft
  <2>2. QED  BY <1>2, <2>1, FewerExchanges
<1>4. CASE ExchangeFails(call)
  BY <1>1, <1>4, FailureAdvances, FewerExchanges
<1>5. CASE WriteReply
  BY <1>5, WriteAdvances, FewerExchanges
<1> DEFINE e == ExchangesLeft
<1>6. StepsLeft = 3 * e - (IF call.sent THEN 2 ELSE IF outstanding THEN 0 ELSE 1)
  BY <1>2 DEF StepsLeft
<1>7. CASE Recover
  <2>1. /\ ~call.sent /\ outstanding /\ outstanding' = FALSE /\ UNCHANGED <<call, owner>>
    BY <1>7 DEF Recover, Pending, MustDrain
  <2>2. ExchangesLeft' = e
    BY <2>1 DEF ExchangesLeft
  <2>3. StepsLeft' = 3 * e - 1
    BY <1>2, <2>1, <2>2 DEF StepsLeft
  <2> HIDE DEF e
  <2>4. QED  BY <1>2, <1>6, <2>1, <2>3 DEF e
<1>8. CASE Send
  <2>1. /\ ~call.sent /\ ~outstanding /\ call'.sent /\ call'.stage = call.stage
        /\ call'.slot = call.slot /\ owner' = owner
    BY <1>2, <1>8 DEF Send, Pending, MustDrain, CallRecord
  <2>2. ExchangesLeft' = e
    BY <2>1 DEF ExchangesLeft
  <2>3. StepsLeft' = 3 * e - 2
    BY <1>2, <2>1, <2>2 DEF StepsLeft
  <2> HIDE DEF e
  <2>4. QED  BY <1>2, <1>6, <2>1, <2>3 DEF e
<1>9. Return \/ ExchangeFails(call) \/ WriteReply \/ Recover \/ Send
  BY DEF CallStep, Link, Reply, RecoverFails, SendFails, Missing, NotCollected, BadName,
         BadReply, OpenReply, ReadReply, InfoReply, CloseReply
<1>10. QED  BY <1>3, <1>4, <1>5, <1>7, <1>8, <1>9

(* Every CIO call is bounded: it makes at most CacheSize + 2 exchanges, of *)
(* three steps each, whatever the FujiNet does; short acknowledgements     *)
(* cannot keep a flush going.  So it returns when each exchange ends,      *)
(* which is what fairness adds in CallsReturn.                             *)
THEOREM CallsBounded == Spec => []CallBounded /\ [][CallAdvances]_vars
<1>1. Init => StageInv
  BY DEF Init, NoCall, StageInv
<1>2. StreamInv /\ StreamInv' /\ StageInv /\ [Next]_vars => [CallAdvances]_vars
  <2> SUFFICES ASSUME StreamInv, StreamInv', StageInv, Next PROVE CallAdvances
    OBVIOUS
  <2>1. CASE CioCall
    <3>1. call = NoCall
      <4>1. (\E iocb \in Iocbs, mode \in Modes : Open(iocb, mode)) => call = NoCall
        BY DEF Open
      <4>2. \A s \in Slots : (\E b \in Bytes : Put(s, b)) => call = NoCall
        BY DEF Put, Active
      <4>3. \A s \in Slots : GetCached(s) \/ GetAtEnd(s) \/ GetMore(s) \/ Status(s) \/ Close(s)
              => call = NoCall
        BY DEF GetCached, GetAtEnd, GetMore, Status, Close, Active
      <4>4. QED  BY <2>1, <4>1, <4>2, <4>3 DEF CioCall
    <3>2. QED  BY <2>1, <3>1 DEF CallAdvances
  <2>2. CASE CallStep
    BY <2>2, StepAdvances DEF CallAdvances
  <2>3. CASE FujiNet \/ Restart
    BY <2>3, FujiNetElsewhere DEF CallAdvances
  <2>4. QED  BY <2>1, <2>2, <2>3 DEF Next
<1>3. QED  BY <1>1, <1>2, StreamInvariant, StagesKept, StepsBounded, PTL DEF Spec

=============================================================================

------------------------- MODULE ServiceClientProofs ------------------------
(***************************************************************************)
(* The proofs about the service client (fnsvc.c) and the loops the         *)
(* programs run over it, for every set of items and of reasons, page and   *)
(* chunk size, counter that can count the items, and sequence of calls.    *)
(* PrintsAll and StoresAll: a loop has printed the items before `start`,   *)
(* and a PUT has stored those of the value before `start`, unless another  *)
(* program changed them (LoopInv).  PrintedTogether: a call whose errors   *)
(* are printed forgets the ones before it.                                 *)
(***************************************************************************)
EXTENDS PagedTransfers, ServiceErrors, SequenceTheorems, FiniteSetTheorems, TLAPS

(* b is what s begins with.                                                *)
IsStart(b, s) == Len(b) <= Len(s) /\ b = SubSeq(s, 1, Len(b))

ReadInv ==
  kind \in Readers /\ ~changed =>
    /\ IsStart(given, remote)
    /\ result = "running" => start = Len(given)
    /\ result = "ok" /\ ~empty => given = remote

PutInv ==
  kind = "FAPP_PUT" =>
    /\ left <= Len(value) /\ start = Len(value) - left
    /\ result = "running" /\ start > 0 /\ ~changed => remote = SubSeq(value, 1, start)
    /\ result = "ok" /\ ~changed => remote = value

LoopInv == TypeOK /\ Len(remote) <= Cardinality(Items) /\ ReadInv /\ PutInv

-----------------------------------------------------------------------------
LEMMA Counting == Cardinality(Items) \in Nat /\ Cardinality(Items) < IndexMod /\ IndexMod \in Nat
BY TransfersAssumption, FS_CardinalityType

LEMMA Unwrapped ==
  ASSUME NEW n \in Nat, NEW m \in Nat, n < m
  PROVE  n % m = n
OBVIOUS

LEMMA ContentsAreShort ==
  ASSUME NEW s \in Contents
  PROVE  s \in Seq(Items) /\ Len(s) \in 0..Cardinality(Items)
<1>1. PICK n \in 0..Cardinality(Items) : s \in [1..n -> Items]
  BY DEF Contents
<1>2. n \in Nat
  BY Counting
<1>3. QED  BY <1>1, <1>2, SeqDef

LEMMA Parts ==
  ASSUME NEW s \in Seq(Items), NEW m \in Nat \ {0}, NEW n \in Nat, n <= Len(s), m <= n + 1
  PROVE  /\ SubSeq(s, m, n) \in Seq(Items)
         /\ Len(SubSeq(s, m, n)) = n + 1 - m
<1>1. Len(s) \in Nat /\ \A i \in m..n : s[i] \in Items
  BY LenProperties, ElementOfSeq
<1>2. QED  BY <1>1, SubSeqProperties

LEMMA Begun ==
  ASSUME NEW s \in Seq(Items)
  PROVE  /\ IsStart(<<>>, s) /\ IsStart(s, s)
         /\ \A k \in 0..Len(s) : IsStart(SubSeq(s, 1, k), s) /\ Len(SubSeq(s, 1, k)) = k
<1>1. Len(s) \in Nat
  BY LenProperties
<1>2. SubSeq(s, 1, 0) = <<>> /\ SubSeq(s, 1, Len(s)) = s
  BY SubSeqEmpty, SubSeqFull
<1>3. ASSUME NEW k \in 0..Len(s)
      PROVE  IsStart(SubSeq(s, 1, k), s) /\ Len(SubSeq(s, 1, k)) = k
  BY <1>1, <1>3, Parts DEF IsStart
<1>4. IsStart(<<>>, s) /\ IsStart(s, s)
  BY <1>1, <1>2, EmptySeq DEF IsStart
<1>5. QED  BY <1>3, <1>4

(* The items from k on go on where the first k end.                        *)
LEMMA Continued ==
  ASSUME NEW s \in Seq(Items), NEW k \in Nat, NEW n \in Nat, k + n <= Len(s)
  PROVE  /\ SubSeq(s, 1, k) \o SubSeq(s, k + 1, k + n) = SubSeq(s, 1, k + n)
         /\ IsStart(SubSeq(s, 1, k + n), s) /\ Len(SubSeq(s, 1, k + n)) = k + n
         /\ k + n = Len(s) => SubSeq(s, 1, k + n) = s
<1>1. Len(s) \in Nat
  BY LenProperties
<1>2. 1 \in 1..Len(s) + 1 /\ k \in (1 - 1)..Len(s) /\ k + n \in k..Len(s)
  BY <1>1
<1>3. SubSeq(s, 1, k) \o SubSeq(s, k + 1, k + n) = SubSeq(s, 1, k + n)
  BY <1>2, ConcatAdjacentSubSeq
<1>4. QED  BY <1>1, <1>2, <1>3, Begun, SubSeqFull

LEMMA StartIsPrefix ==
  ASSUME NEW b \in Seq(Items), NEW s \in Seq(Items), IsStart(b, s)
  PROVE  IsPrefix(b, s)
<1>1. SubSeq(b, 1, Len(b)) = b
  BY SubSeqFull
<1>2. QED  BY <1>1 DEF IsStart, IsPrefix

LEMMA LoopInit == Init => LoopInv
<1> SUFFICES ASSUME Init PROVE LoopInv
  OBVIOUS
<1>1. remote \in Seq(Items) /\ Len(remote) <= Cardinality(Items)
  BY Counting, ContentsAreShort DEF Init
<1>2. <<>> \in Contents
  <2>1. <<>> \in [1..0 -> Items] /\ 0 \in 0..Cardinality(Items)
    BY Counting
  <2>2. QED  BY <2>1 DEF Contents
<1>3. TypeOK
  <2>1. given \in Seq(Items)
    BY EmptySeq DEF Init
  <2>2. value \in Contents
    BY <1>2 DEF Init
  <2>3. start \in 0..Cardinality(Items) /\ left \in 0..Cardinality(Items) /\ changes \in 0..MaxChanges
    BY Counting, TransfersAssumption DEF Init
  <2>4. QED  BY <1>1, <2>1, <2>2, <2>3 DEF Init, TypeOK
<1>4. ReadInv /\ PutInv
  BY EmptySeq DEF Init, ReadInv, PutInv
<1>5. QED  BY <1>1, <1>3, <1>4 DEF LoopInv

LEMMA StartLoops ==
  ASSUME LoopInv, NEW k \in Kinds, NEW v \in Contents, k \in Readers => v = <<>>, Start(k, v)
  PROVE  LoopInv'
<1>1. /\ v \in Seq(Items) /\ Len(v) \in 0..Cardinality(Items) /\ left' = Len(v)
      /\ remote \in Seq(Items)
  <2>1. v \in Seq(Items) /\ Len(v) \in 0..Cardinality(Items)
    BY ContentsAreShort
  <2>2. Len(v) % IndexMod = Len(v)
    BY <2>1, Counting, Unwrapped
  <2>3. QED  BY <2>1, <2>2 DEF Start, LoopInv, TypeOK
<1>2. TypeOK'
  <2>1. given' \in Seq(Items)
    BY EmptySeq DEF Start
  <2>2. start' \in 0..Cardinality(Items) /\ left' \in 0..Cardinality(Items)
    BY <1>1, Counting DEF Start
  <2>3. QED  BY <1>1, <2>1, <2>2 DEF Start, LoopInv, TypeOK
<1>3. ReadInv'
  BY <1>1, Begun, EmptySeq DEF Start, ReadInv, IsStart
<1>4. PutInv'
  BY <1>1 DEF Start, PutInv
<1>5. QED  BY <1>2, <1>3, <1>4 DEF Start, LoopInv

-----------------------------------------------------------------------------
LEMMA PageIs ==
  ASSUME LoopInv, NEW n \in Counts, IsPage(n)
  PROVE  /\ n \in Nat /\ Len(remote) \in Nat
         /\ PageOf(n) \in Seq(Items) /\ given \o PageOf(n) \in Seq(Items)
         /\ start + n \in 0..Cardinality(Items)
         /\ start <= Len(remote) =>
              /\ start + n <= Len(remote)
              /\ Available > n <=> start + n # Len(remote)
<1>1. /\ n \in Nat /\ start \in Nat /\ remote \in Seq(Items) /\ Len(remote) \in Nat
      /\ given \in Seq(Items) /\ start <= Cardinality(Items) /\ Cardinality(Items) \in Nat
      /\ Len(remote) <= Cardinality(Items)
  BY Counting, LenProperties DEF LoopInv, TypeOK, Counts
<1>2. n <= Available
  BY DEF IsPage
<1>3. /\ start + n \in 0..Cardinality(Items)
      /\ start <= Len(remote) => start + n <= Len(remote)
      /\ start > Len(remote) => n = 0
      /\ start <= Len(remote) => (Available > n <=> start + n # Len(remote))
  BY <1>1, <1>2 DEF Available
<1>4. PageOf(n) \in Seq(Items)
  <2>1. CASE start <= Len(remote)
    BY <1>1, <1>3, <2>1, Parts DEF PageOf
  <2>2. CASE start > Len(remote)
    BY <1>1, <1>3, <2>2, SubSeqEmpty, EmptySeq DEF PageOf
  <2>3. QED  BY <1>1, <2>1, <2>2
<1>5. given \o PageOf(n) \in Seq(Items)
  BY <1>1, <1>4, ConcatProperties
<1>6. QED  BY <1>1, <1>3, <1>4, <1>5

(* What a page adds goes on where what was printed ends.                   *)
LEMMA PageContinues ==
  ASSUME LoopInv, Reading, ~changed, NEW n \in Counts, IsPage(n)
  PROVE  /\ start = Len(given) /\ start <= Len(remote)
         /\ IsStart(given \o PageOf(n), remote)
         /\ Len(given \o PageOf(n)) = start + n
         /\ ~(Available > n) => given \o PageOf(n) = remote
<1>1. /\ IsStart(given, remote) /\ start = Len(given)
      /\ remote \in Seq(Items) /\ given \in Seq(Items)
  BY DEF LoopInv, ReadInv, Reading, TypeOK
<1>2. start <= Len(remote) /\ given = SubSeq(remote, 1, start)
  BY <1>1 DEF IsStart
<1>3. /\ n \in Nat /\ start \in Nat /\ start + n <= Len(remote)
      /\ ~(Available > n) => start + n = Len(remote)
  BY <1>1, <1>2, PageIs, LenProperties
<1> DEFINE longer == SubSeq(remote, 1, start + n)
<1>4. /\ SubSeq(remote, 1, start) \o SubSeq(remote, start + 1, start + n) = longer
      /\ IsStart(longer, remote) /\ Len(longer) = start + n
      /\ start + n = Len(remote) => longer = remote
  BY <1>1, <1>3, Continued
<1> HIDE DEF longer
<1>5. given \o PageOf(n) = longer
  BY <1>2, <1>4 DEF PageOf
<1>6. QED  BY <1>1, <1>2, <1>3, <1>4, <1>5

LEMMA GotPageReads ==
  ASSUME LoopInv, NEW n \in Counts, GotPage(n), parity' \in {0, 1}
  PROVE  LoopInv'
<1>1. /\ Reading /\ IsPage(n) /\ given' = given \o PageOf(n) /\ start' = Advance(n)
      /\ result' = ResultOfPage(n, Available > n)
      /\ UNCHANGED <<remote, kind, value, left, changed, changes>>
  BY DEF GotPage
<1>2. PICK more \in BOOLEAN : more <=> Available > n
  OBVIOUS
<1>3. result' = ResultOfPage(n, more) /\ empty' = (more /\ result' = "ok")
  BY <1>2 DEF GotPage
<1>4. start' = start + n
  <2>1. start + n \in Nat /\ start + n < IndexMod /\ IndexMod \in Nat
    BY <1>1, PageIs, Counting
  <2>2. (start + n) % IndexMod = start + n
    BY <2>1, Unwrapped
  <2>3. QED  BY <1>1, <2>2 DEF Advance
<1>5. result' \in {"running", "ok", "failed"} /\ (result' = "ok" => ~more \/ empty')
  BY <1>3 DEF ResultOfPage
<1>6. TypeOK'
  BY <1>1, <1>3, <1>4, <1>5, PageIs DEF LoopInv, TypeOK
<1>7. ReadInv'
  BY <1>1, <1>2, <1>4, <1>5, PageContinues DEF ReadInv
<1>8. PutInv'
  BY <1>1 DEF PutInv, Reading, Readers, Listings
<1>9. QED  BY <1>1, <1>6, <1>7, <1>8 DEF LoopInv

LEMMA TornPageReads ==
  ASSUME LoopInv, NEW n \in Counts, TornPage(n), parity' \in {0, 1}
  PROVE  LoopInv'
<1>1. /\ Reading /\ IsPage(n) /\ given' = given \o PageOf(n) /\ result' = "failed"
      /\ UNCHANGED <<remote, kind, start, value, left, changed, empty, changes>>
  BY DEF TornPage
<1>2. TypeOK'
  BY <1>1, PageIs DEF LoopInv, TypeOK
<1>3. ReadInv'
  BY <1>1, PageContinues DEF ReadInv
<1>4. PutInv'
  BY <1>1 DEF PutInv, Reading, Readers, Listings
<1>5. QED  BY <1>1, <1>2, <1>3, <1>4 DEF LoopInv

LEMMA NoPageReads ==
  ASSUME LoopInv, NoPage, parity' \in {0, 1}
  PROVE  LoopInv'
BY DEF LoopInv, TypeOK, ReadInv, PutInv, NoPage

-----------------------------------------------------------------------------
(* A write that goes through: what is stored begins as the value does.     *)
LEMMA WrittenIs ==
  ASSUME LoopInv, Writing, NEW n \in Counts, IsWrite(n)
  PROVE  /\ Written(n) \in Seq(Items) /\ Len(Written(n)) <= Cardinality(Items)
         /\ n \in Nat /\ left \in Nat /\ n <= left /\ start + n <= Len(value)
         /\ ~changed => Written(n) = SubSeq(value, 1, start + n)
<1>1. /\ start \in Nat /\ left \in Nat /\ n \in Nat /\ n <= left /\ start <= Len(remote)
      /\ remote \in Seq(Items) /\ Len(remote) <= Cardinality(Items)
      /\ start = Len(value) - left
      /\ start > 0 /\ ~changed => remote = SubSeq(value, 1, start)
  BY Counting DEF LoopInv, TypeOK, PutInv, Writing, Counts, IsWrite
<1>2. value \in Seq(Items) /\ Len(value) \in 0..Cardinality(Items) /\ Len(remote) \in Nat
  BY <1>1, ContentsAreShort, LenProperties DEF LoopInv, TypeOK
<1>3. start + n <= Len(value) /\ Position = start
  BY <1>1, <1>2 DEF Position
<1> DEFINE head == SubSeq(remote, 1, start)
           chunk == SubSeq(value, start + 1, start + n)
           rest == IF start = 0 THEN <<>> ELSE SubSeq(remote, start + n + 1, Len(remote))
<1>4. Written(n) = head \o chunk \o rest
  BY <1>3 DEF Written
<1>5. head \in Seq(Items) /\ Len(head) = start
  BY <1>1, <1>2, Parts
<1>6. chunk \in Seq(Items) /\ Len(chunk) = n
  BY <1>1, <1>2, <1>3, Parts
<1>7. /\ rest \in Seq(Items)
      /\ Len(rest) = IF start = 0 \/ start + n >= Len(remote) THEN 0
                     ELSE Len(remote) - (start + n)
  <2>1. CASE start = 0
    BY <2>1, EmptySeq
  <2>2. CASE start # 0 /\ start + n >= Len(remote)
    BY <1>1, <1>2, <2>2, SubSeqEmpty, EmptySeq
  <2>3. CASE start # 0 /\ start + n < Len(remote)
    BY <1>1, <1>2, <2>3, Parts
  <2>4. QED  BY <1>1, <1>2, <2>1, <2>2, <2>3
<1> HIDE DEF head, chunk, rest
<1>8. head \o chunk \in Seq(Items) /\ Len(head \o chunk) = start + n
  BY <1>5, <1>6, ConcatProperties
<1>9. Written(n) \in Seq(Items) /\ Len(Written(n)) = start + n + Len(rest)
  BY <1>4, <1>7, <1>8, ConcatProperties
<1>10. Len(Written(n)) <= Cardinality(Items)
  <2>1. CASE Len(rest) = 0
    BY <1>1, <1>2, <1>3, <1>9, <2>1, Counting
  <2>2. CASE Len(rest) = Len(remote) - (start + n)
    BY <1>1, <1>2, <1>9, <2>2, Counting
  <2>3. QED  BY <1>7, <2>1, <2>2
<1>11. start > 0 /\ ~changed => remote = SubSeq(value, 1, start) /\ Len(remote) = start
  <2>1. start \in 0..Len(value)
    BY <1>1, <1>2, <1>3
  <2>2. Len(SubSeq(value, 1, start)) = start
    BY <1>2, <2>1, Begun
  <2>3. QED  BY <1>1, <2>2
<1>12. ASSUME ~changed
       PROVE  Written(n) = SubSeq(value, 1, start + n)
  <2>1. head = SubSeq(value, 1, start)
    <3>1. CASE start = 0
      BY <3>1, SubSeqEmpty DEF head
    <3>2. CASE start > 0
      <4>1. remote = SubSeq(value, 1, start) /\ Len(remote) = start
        BY <1>12, <1>11, <3>2
      <4>2. QED  BY <1>1, <4>1, SubSeqFull DEF head
    <3>3. QED  BY <1>1, <3>1, <3>2
  <2>2. rest = <<>>
    <3>1. CASE start = 0
      BY <3>1 DEF rest
    <3>2. CASE start > 0
      <4>1. Len(remote) = start
        BY <1>12, <1>11, <3>2
      <4>2. QED  BY <1>1, <3>2, <4>1, SubSeqEmpty DEF rest
    <3>3. QED  BY <1>1, <3>1, <3>2
  <2>3. Written(n) = head \o chunk
    BY <1>4, <1>8, <2>2, ConcatEmptySeq
  <2>4. head \o chunk = SubSeq(value, 1, start + n)
    BY <1>1, <1>2, <1>3, <2>1, Continued DEF chunk
  <2>5. QED  BY <2>3, <2>4
<1>13. QED  BY <1>1, <1>3, <1>9, <1>10, <1>12

LEMMA WriteStores ==
  ASSUME LoopInv, NEW n \in Counts, Write(n), parity' \in {0, 1}
  PROVE  LoopInv'
<1>1. /\ Writing /\ IsWrite(n) /\ remote' = Written(n) /\ start' = start + n /\ left' = left - n
      /\ result' = ResultOfWrite(n) /\ kind = "FAPP_PUT"
      /\ UNCHANGED <<kind, value, given, changed, empty, changes>>
  BY DEF Write, Taken, Writing
<1>2. /\ start \in Nat /\ left \in Nat /\ start = Len(value) - left /\ n \in Nat /\ n <= left
      /\ value \in Seq(Items) /\ Len(value) \in 0..Cardinality(Items)
      /\ start + n <= Len(value)
  BY <1>1, WrittenIs, ContentsAreShort, Counting DEF LoopInv, TypeOK, PutInv
<1>3. result' \in {"running", "ok", "failed"} /\ (result' = "ok" => left' = 0)
  BY <1>1, <1>2 DEF ResultOfWrite, Taken
<1>4. TypeOK'
  BY <1>1, <1>2, <1>3, WrittenIs, Counting DEF LoopInv, TypeOK
<1>5. ~changed => remote' = SubSeq(value, 1, start')
  BY <1>1, WrittenIs
<1>6. result' = "ok" => start' = Len(value)
  BY <1>1, <1>2, <1>3
<1>7. PutInv'
  BY <1>1, <1>2, <1>5, <1>6, SubSeqFull DEF PutInv
<1>8. ReadInv'
  BY <1>1 DEF ReadInv, Readers, Listings
<1>9. QED  BY <1>1, <1>4, <1>7, <1>8, WrittenIs DEF LoopInv

LEMMA WriteFailsStores ==
  ASSUME LoopInv, NEW n \in Counts, WriteFails(n), parity' \in {0, 1}
  PROVE  LoopInv'
<1>1. /\ Writing /\ kind = "FAPP_PUT" /\ result' = "failed"
      /\ (IsWrite(n) /\ remote' = Written(n)) \/ remote' = remote
      /\ UNCHANGED <<kind, start, value, left, given, changed, empty, changes>>
  BY DEF WriteFails, Writing
<1>2. remote' \in Seq(Items) /\ Len(remote') <= Cardinality(Items)
  BY <1>1, WrittenIs DEF LoopInv, TypeOK
<1>3. TypeOK'
  BY <1>1, <1>2 DEF LoopInv, TypeOK
<1>4. PutInv' /\ ReadInv'
  BY <1>1 DEF LoopInv, PutInv, ReadInv, Readers, Listings
<1>5. QED  BY <1>2, <1>3, <1>4 DEF LoopInv

LEMMA OtherInterferes ==
  ASSUME LoopInv, NEW contents \in Contents, Other(contents)
  PROVE  LoopInv'
<1>1. remote' \in Seq(Items) /\ Len(remote') <= Cardinality(Items)
  BY Counting, ContentsAreShort DEF Other
<1>2. TypeOK'
  BY <1>1, TransfersAssumption DEF LoopInv, TypeOK, Other
<1>3. PutInv' /\ ReadInv'
  BY DEF LoopInv, PutInv, ReadInv, Other
<1>4. QED  BY <1>1, <1>2, <1>3 DEF LoopInv

LEMMA LoopStays == LoopInv /\ [Next]_vars => LoopInv'
<1> SUFFICES ASSUME LoopInv, [Next]_vars PROVE LoopInv'
  OBVIOUS
<1>1. ASSUME NEW k \in Readers, Start(k, <<>>)
      PROVE  LoopInv'
  <2>1. <<>> \in Contents
    <3>1. <<>> \in [1..0 -> Items] /\ 0 \in 0..Cardinality(Items)
      BY Counting
    <3>2. QED  BY <3>1 DEF Contents
  <2>2. QED  BY <1>1, <2>1, StartLoops DEF Kinds
<1>2. ASSUME NEW v \in Contents, Start("FAPP_PUT", v)
      PROVE  LoopInv'
  BY <1>2, StartLoops DEF Kinds, Readers, Listings
<1>3. CASE LoopStep
  <2>1. parity' \in {0, 1}
    BY <1>3 DEF LoopStep, LoopInv, TypeOK
  <2>2. QED  BY <1>3, <2>1, GotPageReads, TornPageReads, NoPageReads, WriteStores,
              WriteFailsStores DEF LoopStep
<1>4. CASE UNCHANGED vars
  BY <1>4 DEF vars, LoopInv, TypeOK, ReadInv, PutInv
<1>5. QED  BY <1>1, <1>2, <1>3, <1>4, OtherInterferes DEF Next

-----------------------------------------------------------------------------
(* Every position, count and outcome keeps its type: start and left never  *)
(* leave the range that a uint16_t holds, so they do not wrap.             *)
THEOREM TransfersTypeCorrect == Spec => []TypeOK
<1>1. LoopInv => TypeOK
  BY DEF LoopInv
<1>2. QED  BY <1>1, LoopInit, LoopStays, PTL DEF Spec

(* FLS, FDRIVE and FAPP's LIST and GET print what the FujiNet has, each    *)
(* item once and in order, unless another program interfered.              *)
THEOREM ListingsPrintAll == Spec => []PrintsAll
<1>1. LoopInv => PrintsAll
  <2> SUFFICES ASSUME LoopInv, kind \in Readers, ~changed
               PROVE  IsPrefix(given, remote) /\ (result = "ok" /\ ~empty => given = remote)
    BY DEF PrintsAll
  <2>1. given \in Seq(Items) /\ remote \in Seq(Items) /\ IsStart(given, remote)
    BY DEF LoopInv, ReadInv, TypeOK
  <2>2. IsPrefix(given, remote)
    BY <2>1, StartIsPrefix
  <2>3. QED  BY <2>2 DEF LoopInv, ReadInv
<1>2. QED  BY <1>1, LoopInit, LoopStays, PTL DEF Spec

(* FAPP's PUT reports success only when the value is stored, all of it and *)
(* nothing more, unless another program interfered.                        *)
THEOREM PutStoresAll == Spec => []StoresAll
<1>1. LoopInv => StoresAll
  BY DEF LoopInv, PutInv, StoresAll
<1>2. QED  BY <1>1, LoopInit, LoopStays, PTL DEF Spec

(* The exchanges a loop may still make: one for each item that was not     *)
(* printed or stored yet, and one to find that there are no more.          *)
Remaining ==
  IF result # "running" THEN 0
  ELSE IF kind = "FAPP_PUT" THEN left + 1 ELSE Cardinality(Items) - start + 1

RemainingBounded ==
  Remaining \in 0..(Cardinality(Items) + 1) /\ (Remaining = 0 <=> result # "running")

(* Each exchange leaves fewer; only a new loop has more.                   *)
LoopAdvances ==
  \/ LoopStep /\ Remaining' < Remaining
  \/ result # "running"
  \/ Remaining' = Remaining

LEMMA RemainingFits == LoopInv => RemainingBounded
<1> SUFFICES ASSUME LoopInv PROVE RemainingBounded
  OBVIOUS
<1>1. /\ start \in 0..Cardinality(Items) /\ left \in 0..Cardinality(Items)
      /\ Cardinality(Items) \in Nat
  BY Counting DEF LoopInv, TypeOK
<1>2. QED  BY <1>1 DEF RemainingBounded, Remaining

(* A page that is not the last one moves `start` on by what it brought,    *)
(* and the 16-bit index does not wrap.                                     *)
LEMMA PageAdvances ==
  ASSUME LoopInv, NEW n \in Counts, GotPage(n), result' = "running"
  PROVE  /\ kind \in Readers /\ kind' = kind
         /\ start' = start + n /\ n > 0 /\ start + n <= Cardinality(Items)
<1>1. /\ start \in Nat /\ n \in Nat /\ Len(remote) \in Nat /\ Len(remote) <= Cardinality(Items)
      /\ Cardinality(Items) \in Nat /\ Cardinality(Items) < IndexMod /\ IndexMod \in Nat
  BY Counting, LenProperties DEF LoopInv, TypeOK, Counts
<1>2. kind \in Readers /\ kind' = kind /\ start' = Advance(n) /\ n > 0 /\ Available > n
  BY <1>1 DEF GotPage, Reading, ResultOfPage
<1>3. start + n < Len(remote)
  BY <1>1, <1>2 DEF Available
<1>4. (start + n) % IndexMod = start + n
  BY <1>1, <1>3
<1>5. QED  BY <1>1, <1>2, <1>3, <1>4 DEF Advance

LEMMA ExchangeAdvances == LoopInv /\ LoopStep => Remaining' < Remaining
<1> SUFFICES ASSUME LoopInv, LoopStep PROVE Remaining' < Remaining
  OBVIOUS
<1>1. /\ start \in 0..Cardinality(Items) /\ left \in 0..Cardinality(Items)
      /\ Cardinality(Items) \in Nat
  BY Counting DEF LoopInv, TypeOK
<1>2. result = "running"
  BY DEF LoopStep, NoPage, GotPage, TornPage, Write, WriteFails, Reading, Writing
<1>3. Remaining > 0
  BY <1>1, <1>2 DEF Remaining
<1>4. CASE result' # "running"
  BY <1>3, <1>4 DEF Remaining
<1>5. CASE result' = "running"
  <2>1. PICK n \in Counts : GotPage(n) \/ Write(n)
    BY <1>5 DEF LoopStep, NoPage, TornPage, WriteFails
  <2>2. CASE GotPage(n)
    <3>1. /\ kind \in Readers /\ kind' = kind
          /\ start' = start + n /\ n > 0 /\ n \in Nat
      BY <1>1, <1>5, <2>2, PageAdvances DEF Counts
    <3>2. kind # "FAPP_PUT"
      BY <3>1 DEF Readers, Listings
    <3>3. QED  BY <1>1, <1>2, <1>5, <3>1, <3>2 DEF Remaining
  <2>3. CASE Write(n)
    <3>1. /\ kind = "FAPP_PUT" /\ kind' = kind /\ n \in Nat
          /\ left' = left - n /\ n > 0
      BY <1>1, <1>5, <2>3 DEF Write, Writing, ResultOfWrite, Taken, Counts
    <3>2. QED  BY <1>1, <1>2, <1>5, <3>1 DEF Remaining
  <2>4. QED  BY <2>1, <2>2, <2>3
<1>6. QED  BY <1>4, <1>5

(* The loops are bounded: FLS, FDRIVE and FAPP make at most one exchange   *)
(* more than there are items, also with a service that returns short and   *)
(* fruitless pages or stores little of a chunk, and while other programs   *)
(* change what is listed.                                                  *)
THEOREM LoopsBounded == Spec => []RemainingBounded /\ [][LoopAdvances]_vars
<1>1. LoopInv /\ [Next]_vars => [LoopAdvances]_vars
  <2> SUFFICES ASSUME LoopInv, Next PROVE LoopAdvances
    OBVIOUS
  <2>1. CASE LoopStep
    BY <2>1, ExchangeAdvances DEF LoopAdvances
  <2>2. CASE \E k \in Kinds, v \in Contents : Start(k, v)
    BY <2>2 DEF LoopAdvances, Start
  <2>3. CASE \E k \in Readers : Start(k, <<>>)
    BY <2>3 DEF LoopAdvances, Start
  <2>4. CASE \E contents \in Contents : Other(contents)
    BY <2>4 DEF LoopAdvances, Other, Remaining
  <2>5. QED  BY <2>1, <2>2, <2>3, <2>4 DEF Next, Kinds
<1>2. QED  BY LoopInit, LoopStays, RemainingFits, <1>1, PTL DEF Spec

-----------------------------------------------------------------------------
(* ServiceErrors: the calls whose errors are printed.                      *)
Printed(call) ==
  call.name \in {"list directory", "restore boot"} /\ call.outcome \notin {"ok", "invalid"}

(* A call whose errors are printed starts from none: it forgets the last   *)
(* ones before anything can fail, and does not keep what it found.         *)
LEMMA PrintedStartsClean ==
  ASSUME NEW name \in DiskCalls \cup Catalog \cup Others, NEW outcome \in Outcomes(name),
         NEW reason, Printed(Call(name, outcome, reason))
  PROVE  /\ Base(Call(name, outcome, reason)) = [error |-> "ok", status |-> 0, raw |-> 0]
         /\ ~Keeps(Call(name, outcome, reason))
<1>1. Forgets(Call(name, outcome, reason))
  <2>1. CASE name = "list directory"
    BY <2>1 DEF Forgets, Call, Printed
  <2>2. CASE name = "restore boot"
    <3>1. outcome # "too large"
      BY <2>2 DEF Outcomes, Catalog, Parsing, Others
    <3>2. QED  BY <2>2, <3>1 DEF Forgets, Call, Printed
  <2>3. QED  BY <2>1, <2>2 DEF Printed, Call
<1>2. ~Keeps(Call(name, outcome, reason))
  BY DEF Keeps, Call, Printed
<1>3. QED  BY <1>1, <1>2 DEF Base

LEMMA ErrorsFromClean ==
  ASSUME NEW call, Base(call) = [error |-> "ok", status |-> 0, raw |-> 0], ~Keeps(call),
         call.name \in Parsing, call.name \notin Catalog, call.outcome # "invalid"
  PROVE  /\ ErrorsAfter(call).error = call.outcome
         /\ ErrorsAfter(call).status = IF call.outcome = "status" THEN 5 ELSE 0
         /\ ErrorsAfter(call).raw = IF call.outcome = "transport" THEN 7 ELSE 0
<1>1. CASE call.outcome = "too large"
  <2>1. Base(call).status = 0 /\ Base(call).raw = 0
    OBVIOUS
  <2>2. ErrorsAfter(call).error = call.outcome
    BY <1>1 DEF ErrorsAfter
  <2>3. ErrorsAfter(call).status = 0
    BY <1>1, <2>1 DEF ErrorsAfter
  <2>4. ErrorsAfter(call).raw = 0
    BY <1>1, <2>1 DEF ErrorsAfter
  <2>5. QED  BY <1>1, <2>2, <2>3, <2>4
<1>2. CASE call.outcome = "transport"
  BY <1>2 DEF ErrorsAfter
<1>3. CASE call.outcome \notin {"too large", "transport"}
  BY <1>3 DEF ErrorsAfter
<1>4. QED  BY <1>1, <1>2, <1>3

LEMMA MakePrints ==
  ASSUME NEW name \in DiskCalls \cup Catalog \cup Others, NEW outcome \in Outcomes(name),
         NEW reason, Make(Call(name, outcome, reason))
  PROVE  PrintedTogether'
<1>1. last' = Call(name, outcome, reason) /\ errors' = ErrorsAfter(last')
  BY DEF Make
<1>2. CASE Printed(last')
  <2>1. Base(last') = [error |-> "ok", status |-> 0, raw |-> 0] /\ ~Keeps(last')
    BY <1>1, <1>2, PrintedStartsClean
  <2>2. last'.name \in Parsing /\ last'.name \notin Catalog
        /\ last'.outcome \notin {"ok", "invalid"}
    BY <1>2 DEF Printed, Parsing, Others, Catalog
  <2>3. /\ errors'.error = last'.outcome
        /\ errors'.status = IF last'.outcome = "status" THEN 5 ELSE 0
        /\ errors'.raw = IF last'.outcome = "transport" THEN 7 ELSE 0
    BY <1>1, <2>1, <2>2, ErrorsFromClean
  <2>4. errors'.status # 0 <=> last'.outcome = "status"
    BY <2>3
  <2>5. errors'.raw # 0 <=> last'.outcome = "transport"
    BY <2>3
  <2>6. QED  BY <2>3, <2>4, <2>5 DEF PrintedTogether
<1>3. CASE ~Printed(last')
  BY <1>3 DEF PrintedTogether, Printed
<1>4. QED  BY <1>2, <1>3

(* fnsvc_last_error, fnsvc_last_status and fnsvc_last_raw_error tell of    *)
(* one call where FLS and FBOOT print them together (fls.c, fboot.c).      *)
THEOREM ErrorsPrintedTogether == ErrorsSpec => []PrintedTogether
<1>1. ErrorsInit => PrintedTogether
  BY DEF ErrorsInit, PrintedTogether, Call
<1>2. PrintedTogether /\ [ErrorsNext]_errorVars => PrintedTogether'
  <2>1. CASE ErrorsNext
    <3>1. PICK name \in DiskCalls \cup Catalog \cup Others : \E outcome \in Outcomes(name) :
            \E reason \in Reasons \cup {"unreported", "none"} : Make(Call(name, outcome, reason))
      BY <2>1 DEF ErrorsNext
    <3>2. QED  BY <3>1, MakePrints
  <2>2. CASE UNCHANGED errorVars
    BY <2>2 DEF errorVars, PrintedTogether
  <2>3. QED  BY <2>1, <2>2
<1>3. QED  BY <1>1, <1>2, PTL DEF ErrorsSpec

=============================================================================

---------------------------- MODULE NotifyProofs ----------------------------
(***************************************************************************)
(* EchoTrue, for all lengths of the rounds and any number of rounds, bytes *)
(* and refusals.  While hsionet waits or reads, the stream from its offset *)
(* on is what its round still lacks (EchoInv): the place of a byte depends *)
(* on what was read, never on the edges of the line or on the clock.       *)
(***************************************************************************)
EXTENDS Notify, SequenceTheorems, TLAPS

(* The rest of a round, from the offset on.                                *)
Lacks(asked) ==
  /\ asked \in Nat \ {0} /\ Len(stream) = offset + asked
  /\ \A i \in 1..asked : stream[offset + i] = <<run.round, (run.total + i) - 1>>

EchoInv ==
  /\ run \in [round : Nat, total : Nat, pending : BOOLEAN, waited : Nat]
  /\ offset \in Nat /\ stream \in Seq(Nat \X Nat)
  /\ pc # "bad_data"
  /\ pc \in {"write", "wait", "read_round"} => kind = "hsionet"
  /\ pc = "write" => offset = Len(stream)
  /\ pc \in {"wait", "read_round"} => Lacks(Asked)

LEMMA RoundLengths ==
  ASSUME NEW round \in Nat
  PROVE  LengthOf(round) \in Nat \ {0}
<1>1. Lengths \in Seq(Nat \ {0}) /\ Len(Lengths) \in Nat \ {0}
  BY NotifyAssumption, EmptySeq
<1>2. (round % Len(Lengths)) + 1 \in 1..Len(Lengths)
  BY <1>1
<1>3. Lengths[(round % Len(Lengths)) + 1] \in Nat \ {0}
  BY <1>1, <1>2, ElementOfSeq
<1>4. QED  BY <1>3 DEF LengthOf

LEMMA EchoInit == Init => EchoInv
<1> SUFFICES ASSUME Init PROVE EchoInv
  OBVIOUS
<1>1. stream \in Seq(Nat \X Nat) /\ (kind = "hsionet" => Len(stream) = 0)
  <2>1. CASE kind \in {"tcp", "http"}
    <3>1. stream = [i \in 1..MaxBytes |-> <<0, i>>] /\ MaxBytes \in Nat
      BY <2>1, NotifyAssumption DEF Init
    <3>2. stream \in [1..MaxBytes -> Nat \X Nat]
      BY <3>1
    <3>3. stream \in Seq(Nat \X Nat)
      BY <3>1, <3>2, SeqDef
    <3>4. QED  BY <2>1, <3>3
  <2>2. CASE kind \notin {"tcp", "http"}
    BY <2>2, EmptySeq DEF Init
  <2>3. QED  BY <2>1, <2>2
<1>2. kind \in {"hsionet", "tcp", "http", "edges"} /\ offset = 0
      /\ run = [round |-> 0, total |-> 0, pending |-> FALSE, waited |-> 0]
      /\ pc = CASE kind = "hsionet" -> "write" [] kind = "edges" -> "count" [] OTHER -> "top"
  BY DEF Init
<1>3. pc \in {"write", "count", "top"} /\ (pc = "write" => kind = "hsionet")
  BY <1>2
<1>4. QED  BY <1>1, <1>2, <1>3 DEF EchoInv

-----------------------------------------------------------------------------
(* The response is what the round lacks when it has read nothing.          *)
LEMMA WriteRoundEchoes ==
  ASSUME EchoInv, WriteRound
  PROVE  EchoInv'
<1>1. pc = "write" /\ kind' = kind /\ offset' = offset
  BY DEF WriteRound
<1>2. CASE /\ stream' = stream \o Response(run.round) /\ pc' = "wait"
           /\ run' = [run EXCEPT !.total = 0, !.pending = TRUE, !.waited = 0]
  <2> DEFINE response == Response(run.round)  n == LengthOf(run.round)
  <2>1. run.round \in Nat /\ n \in Nat \ {0} /\ offset = Len(stream)
    BY <1>1, RoundLengths DEF EchoInv
  <2>2. response \in [1..n -> Nat \X Nat] /\ \A i \in 1..n : response[i] = <<run.round, i - 1>>
    BY <2>1 DEF Response
  <2> HIDE DEF response, n
  <2>3. response \in Seq(Nat \X Nat) /\ Len(response) = n
    BY <2>1, <2>2, SeqDef
  <2>4. stream' = stream \o response /\ stream \in Seq(Nat \X Nat) /\ Len(stream) \in Nat
    BY <1>2, LenProperties DEF EchoInv, response
  <2>5. /\ stream' \in Seq(Nat \X Nat) /\ Len(stream') = Len(stream) + n
        /\ \A i \in 1..(Len(stream) + n) :
             stream'[i] = IF i <= Len(stream) THEN stream[i] ELSE response[i - Len(stream)]
    BY <2>3, <2>4, ConcatProperties
  <2>6. \A i \in 1..n : stream'[offset + i] = <<run.round, i - 1>>
    BY <2>1, <2>2, <2>4, <2>5
  <2>7. /\ run' \in [round : Nat, total : Nat, pending : BOOLEAN, waited : Nat]
        /\ run'.round = run.round /\ run'.total = 0
    BY <1>2 DEF EchoInv
  <2>8. Asked' = n
    BY <2>1, <2>7 DEF Asked, n, LengthOf
  <2>9. ASSUME NEW i \in 1..Asked'
        PROVE  stream'[offset' + i] = <<run'.round, (run'.total + i) - 1>>
    <3>1. i \in 1..n /\ (run'.total + i) - 1 = i - 1
      BY <2>1, <2>7, <2>8
    <3>2. QED  BY <1>1, <2>6, <2>7, <3>1
  <2>10. Asked' \in Nat \ {0} /\ Len(stream') = offset' + Asked'
    BY <1>1, <2>1, <2>5, <2>8
  <2>11. Lacks(Asked)'
    BY <2>9, <2>10 DEF Lacks
  <2>12. kind = "hsionet" /\ offset' \in Nat
    BY <1>1 DEF EchoInv
  <2>13. QED  BY <1>1, <1>2, <2>5, <2>7, <2>11, <2>12 DEF EchoInv
<1>3. CASE pc' \in {"write", "done"} /\ UNCHANGED <<stream, run>>
  BY <1>1, <1>3 DEF EchoInv
<1>4. QED  BY <1>2, <1>3 DEF WriteRound

(* A reply takes from the front of what the round lacks.                   *)
LEMMA GetDataEchoes ==
  ASSUME EchoInv, pc = "read_round", NEW received \in 1..Unread, received <= Asked,
         GetData(received), UNCHANGED <<kind, stream>>
  PROVE  EchoInv'
<1>1. /\ Asked \in Nat \ {0} /\ Len(stream) = offset + Asked
      /\ \A i \in 1..Asked : stream[offset + i] = <<run.round, (run.total + i) - 1>>
  BY DEF EchoInv, Lacks
<1>2. kind = "hsionet" /\ offset \in Nat /\ stream \in Seq(Nat \X Nat)
  BY DEF EchoInv
<1>3. run \in [round : Nat, total : Nat, pending : BOOLEAN, waited : Nat]
  BY DEF EchoInv
<1>4. Asked \in Nat \ {0} /\ Len(stream) = offset + Asked
  BY <1>1
<1>5. received \in Nat \ {0} /\ received <= Asked
  BY <1>4
<1>6. Matches(received)
  <2> SUFFICES ASSUME NEW i \in 1..received
               PROVE  stream[offset + i] = <<run.round, run.total + i - 1>>
    BY DEF Matches
  <2>1. i \in 1..Asked
    BY <1>4, <1>5
  <2>2. stream[offset + i] = <<run.round, (run.total + i) - 1>>
    BY <1>1, <2>1
  <2>3. (run.total + i) - 1 = run.total + i - 1
    BY <1>3, <1>5
  <2>4. QED  BY <2>2, <2>3
<1>7. offset' = offset + received /\ offset' \in Nat
  <2>1. offset' = offset + received
    BY DEF GetData, AdvanceBy
  <2>2. QED  BY <1>2, <1>5, <2>1
<1>8. CASE received = Asked
  <2> DEFINE next == run.round + 1
  <2>1. pc' = "write" /\ run' = [run EXCEPT !.round = next, !.total = 0]
    BY <1>6, <1>8 DEF GetData
  <2>2. run' \in [round : Nat, total : Nat, pending : BOOLEAN, waited : Nat]
    <3>1. next \in Nat
      BY <1>3
    <3> HIDE DEF next
    <3>2. QED  BY <1>3, <2>1, <3>1
  <2>3. offset' = Len(stream')
    BY <1>4, <1>7, <1>8
  <2>4. QED  BY <1>2, <1>7, <2>1, <2>2, <2>3 DEF EchoInv
<1>9. CASE received # Asked
  <2> DEFINE sum == run.total + received
  <2>1. pc' = "wait" /\ run' = [run EXCEPT !.total = sum, !.pending = TRUE]
    BY <1>6, <1>9 DEF GetData
  <2>2. /\ run' \in [round : Nat, total : Nat, pending : BOOLEAN, waited : Nat]
        /\ run'.round = run.round /\ run'.total = run.total + received
    <3>1. sum \in Nat
      BY <1>3, <1>5
    <3> HIDE DEF sum
    <3>2. /\ run' \in [round : Nat, total : Nat, pending : BOOLEAN, waited : Nat]
          /\ run'.round = run.round /\ run'.total = sum
      BY <1>3, <2>1, <3>1
    <3>3. QED  BY <3>2 DEF sum
  <2>3. /\ Asked = LengthOf(run.round) - run.total /\ run.total \in Nat
        /\ LengthOf(run.round) \in Nat
    BY <1>3, RoundLengths DEF Asked
  <2>4. Asked' = LengthOf(run.round) - (run.total + received)
    BY <2>2 DEF Asked, LengthOf
  <2>5. Asked' = Asked - received /\ Asked' \in Nat \ {0} /\ Len(stream') = offset' + Asked'
    <3>1. Asked' = Asked - received
      BY <1>5, <2>3, <2>4
    <3>2. QED  BY <1>2, <1>4, <1>5, <1>7, <1>9, <3>1
  <2>6. ASSUME NEW i \in 1..Asked'
        PROVE  stream'[offset' + i] = <<run'.round, (run'.total + i) - 1>>
    <3>1. /\ received + i \in 1..Asked /\ offset' + i = offset + (received + i)
          /\ (run.total + (received + i)) - 1 = (run'.total + i) - 1
      <4>1. i \in Nat \ {0} /\ i <= Asked - received
        BY <1>4, <1>5, <2>5
      <4>2. received + i \in 1..Asked
        BY <1>4, <1>5, <4>1
      <4>3. offset' + i = offset + (received + i)
        BY <1>2, <1>5, <1>7, <4>1
      <4>4. (run.total + (received + i)) - 1 = (run'.total + i) - 1
        BY <1>5, <2>2, <2>3, <4>1
      <4>5. QED  BY <4>2, <4>3, <4>4
    <3>2. stream[offset + (received + i)] = <<run.round, (run.total + (received + i)) - 1>>
      BY <1>1, <3>1
    <3>3. QED  BY <2>2, <3>1, <3>2
  <2>7. Lacks(Asked)'
    BY <2>5, <2>6 DEF Lacks
  <2>8. QED  BY <1>2, <1>7, <2>1, <2>2, <2>7 DEF EchoInv
<1>10. QED  BY <1>8, <1>9

LEMMA ReadRoundEchoes ==
  ASSUME EchoInv, ReadRound
  PROVE  EchoInv'
<1>1. pc = "read_round" /\ UNCHANGED <<kind, stream>>
  BY DEF ReadRound
<1>2. CASE pc' \in {"wait", "done"} /\ UNCHANGED <<offset, run>>
  <2>1. Lacks(Asked) => Lacks(Asked)'
    BY <1>1, <1>2 DEF Lacks, Asked, LengthOf
  <2>2. QED  BY <1>1, <1>2, <2>1 DEF EchoInv
<1>3. QED  BY <1>1, <1>2, GetDataEchoes DEF ReadRound

(* Everything else leaves the rest of the round as it is.                  *)
LEMMA OthersEcho ==
  ASSUME EchoInv, UNCHANGED <<kind, stream, offset>>,
         run' \in [round : Nat, total : Nat, pending : BOOLEAN, waited : Nat],
         run'.round = run.round, run'.total = run.total,
         \/ pc' = pc
         \/ pc = "wait" /\ pc' = "read_round"
         \/ pc' \notin {"write", "wait", "read_round", "bad_data"}
  PROVE  EchoInv'
<1>1. Lacks(Asked) => Lacks(Asked)'
  BY DEF Lacks, Asked, LengthOf
<1>2. QED  BY <1>1 DEF EchoInv

LEMMA EchoStays == EchoInv /\ [Next]_vars => EchoInv'
<1> SUFFICES ASSUME EchoInv, [Next]_vars PROVE EchoInv'
  OBVIOUS
<1> USE DEF session
<1>1. run \in [round : Nat, total : Nat, pending : BOOLEAN, waited : Nat]
  BY DEF EchoInv
<1>2. CASE WaitRound
  <2>1. /\ pc = "wait" /\ pc' = "read_round" /\ UNCHANGED <<kind, stream, offset>>
        /\ run' = [run EXCEPT !.pending = FALSE, !.waited = 0]
    BY <1>2 DEF WaitRound
  <2>2. /\ run' \in [round : Nat, total : Nat, pending : BOOLEAN, waited : Nat]
        /\ run'.round = run.round /\ run'.total = run.total
    BY <1>1, <2>1
  <2>3. QED  BY <2>1, <2>2, OthersEcho
<1>3. CASE Tick
  <2>1. /\ UNCHANGED <<kind, stream, offset, pc>>
        /\ run' = run \/ run' = [run EXCEPT !.waited = @ + 1]
    BY <1>3 DEF Tick
  <2>2. /\ run' \in [round : Nat, total : Nat, pending : BOOLEAN, waited : Nat]
        /\ run'.round = run.round /\ run'.total = run.total
    BY <1>1, <2>1
  <2>3. QED  BY <2>1, <2>2, OthersEcho
<1>4. CASE Arrive \/ InfoArrives \/ Key \/ Pass \/ Ready \/ Info \/ Edge \/ CountKey \/ Loop
  <2>1. UNCHANGED <<kind, stream, offset, run>>
    BY <1>4 DEF Arrive, InfoArrives, Key, Pass, Ready, Info, Edge, CountKey, Loop,
       Compare, Store, Show, Shown
  <2>2. pc' = pc \/ pc' \notin {"write", "wait", "read_round", "bad_data"}
    BY <1>4 DEF Arrive, InfoArrives, Key, Pass, Ready, Info, Edge, CountKey, Loop,
       Compare, Store, Show, Shown, First
  <2>3. QED  BY <1>1, <2>1, <2>2, OthersEcho
<1>5. CASE Read
  <2>1. /\ pc = "read" /\ pc' \in {"read", "top"} /\ UNCHANGED <<kind, stream, run>>
        /\ offset' = offset \/ \E got \in 1..Unread : offset' = offset + got
    BY <1>5 DEF Read, AfterData
  <2>2. offset' \in Nat
    BY <2>1 DEF EchoInv
  <2>3. QED  BY <2>1, <2>2 DEF EchoInv
<1>6. CASE UNCHANGED vars
  BY <1>1, <1>6, OthersEcho DEF vars
<1>7. QED  BY <1>2, <1>3, <1>4, <1>5, <1>6, WriteRoundEchoes, ReadRoundEchoes DEF Next, Program

(* hsionet's echo test reports no byte out of place and ends no round      *)
(* before its whole reply, whatever a read returns of it, and whichever    *)
(* edges of the PROCEED line are lost.                                     *)
THEOREM EchoAlwaysTrue == Spec => []EchoTrue
<1>1. EchoInv => EchoTrue
  BY DEF EchoInv, EchoTrue
<1>2. QED  BY <1>1, EchoInit, EchoStays, PTL DEF Spec

=============================================================================

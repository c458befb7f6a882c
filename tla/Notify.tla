------------------------------- MODULE Notify -------------------------------
(***************************************************************************)
(* The Atari programs that learn from the PROCEED line when to read:       *)
(* hsionet's echo test, with its server, and proctest's network session    *)
(* and its counters of the line.  The line's interrupt, its library and    *)
(* the FujiNet's session are external: a session holds bytes until they    *)
(* are read, and the line has an edge when some arrive.  hsionet must also *)
(* work when an edge is lost, or never sent.                               *)
(***************************************************************************)
EXTENDS Integers, Sequences

CONSTANTS
  Lengths,    \* bytes the echo server answers in each round
  MaxRounds,  \* rounds of hsionet until a key is pressed
  MaxBytes,   \* bytes proctest's session receives
  MaxBusy,    \* refusals and failures of requests
  Fallback,   \* ticks after which hsionet reads without an edge (60)
  MaxEdges,   \* edges of the line while proctest counts them
  Quiet       \* ticks without an edge before proctest draws (3)

ASSUME NotifyAssumption ==
  /\ Lengths \in Seq(Nat \ {0}) /\ Lengths # <<>>
  /\ {MaxRounds, MaxBytes, MaxBusy, MaxEdges} \subseteq Nat
  /\ {Fallback, Quiet} \subseteq Nat \ {0}

VARIABLES
  kind,    \* the program: "hsionet", "tcp" and "http" for proctest's session, "edges"
  pc,
  stream,  \* what the peer has sent or will send: for each byte its round and place
  arrived, \* bytes of it that reached the FujiNet
  offset,  \* bytes of it the program has read
  info,    \* the status of the HTTP response reached the FujiNet
  told,    \* the interrupt saw an edge nobody asked about yet
  faults,  \* refused and failed requests so far
  run,     \* hsionet: its round, bytes of it read, pending, ticks since a read
  page,    \* proctest: use_proc, have_info
  line,    \* proctest: mode, the PIA's flag, counts, what is shown
  excused  \* history: unread bytes that no edge will announce

session == <<stream, arrived, offset, info>>
vars == <<kind, pc, session, told, faults, run, page, line, excused>>

Init ==
  /\ kind \in {"hsionet", "tcp", "http", "edges"}
  /\ pc = CASE kind = "hsionet" -> "write" [] kind = "edges" -> "count" [] OTHER -> "top"
  /\ stream = IF kind \in {"tcp", "http"} THEN [i \in 1..MaxBytes |-> <<0, i>>] ELSE <<>>
  /\ arrived \in 0..(IF kind = "tcp" THEN 1 ELSE 0)
  /\ offset = 0 /\ info = FALSE /\ told = FALSE /\ faults = 0
  /\ run = [round |-> 0, total |-> 0, pending |-> FALSE, waited |-> 0]
  /\ page = [useProc |-> TRUE, haveInfo |-> kind = "tcp"]
  /\ line = [interrupt |-> FALSE, flag |-> FALSE, polled |-> 0, count |-> 0, seen |-> 0,
             dirty |-> TRUE, since |-> Quiet, shown |-> 0, edges |-> 0]
  /\ excused = (arrived > 0)

Unread == arrived - offset
Waiting == Unread > 0 \/ (info /\ ~page.haveInfo)
Fault == faults < MaxBusy /\ faults' = faults + 1

-----------------------------------------------------------------------------
(* The network and the FujiNet.                                            *)
Arrive ==
  /\ arrived < Len(stream) /\ (kind = "http" => info)
  /\ arrived' = arrived + 1
  /\ IF kind = "hsionet" THEN told' \in {told, TRUE} ELSE told' = page.useProc
  /\ excused' = (excused /\ ~page.useProc)
  /\ UNCHANGED <<kind, pc, stream, offset, info, faults, run, page, line>>

InfoArrives ==
  /\ kind = "http" /\ ~info
  /\ info' = TRUE /\ told' = page.useProc
  /\ UNCHANGED <<kind, pc, stream, arrived, offset, faults, run, page, line, excused>>

-----------------------------------------------------------------------------
(* hsionet's run_test.                                                     *)
LengthOf(round) == Lengths[(round % Len(Lengths)) + 1]
Response(round) == [i \in 1..LengthOf(round) |-> <<round, i - 1>>]
Asked == LengthOf(run.round) - run.total

(* The write is repeated while the FujiNet is busy.                        *)
WriteRound ==
  /\ pc = "write"
  /\ \/ /\ run.round < MaxRounds
        /\ stream' = stream \o Response(run.round) /\ pc' = "wait"
        /\ run' = [run EXCEPT !.total = 0, !.pending = TRUE, !.waited = 0]
        /\ UNCHANGED faults
     \/ Fault /\ pc' \in {"write", "done"} /\ UNCHANGED <<stream, run>>
     \/ run.round > 0 /\ pc' = "done" /\ UNCHANGED <<stream, run, faults>>
  /\ UNCHANGED <<kind, arrived, offset, info, told, page, line, excused>>

DueNever == FALSE
Due == run.waited >= Fallback
WaitRound ==
  /\ pc = "wait" /\ (told \/ run.pending \/ Due)
  /\ told' = FALSE /\ pc' = "read_round"
  /\ run' = [run EXCEPT !.pending = FALSE, !.waited = 0]
  /\ UNCHANGED <<kind, session, faults, page, line, excused>>

(* The program looks at the clock many times in a tick.                    *)
Counting == {"count", "store", "draw", "drawn"}
Tick ==
  /\ \/ pc = "wait" /\ run.waited < Fallback /\ run' = [run EXCEPT !.waited = @ + 1]
        /\ UNCHANGED line
     \/ pc \in Counting /\ line.since < Quiet /\ line' = [line EXCEPT !.since = @ + 1]
        /\ UNCHANGED run
  /\ UNCHANGED <<kind, pc, session, told, faults, page, excused>>

(* A reply has some of what arrived.  What is left of it makes a read      *)
(* pending, and so does what the round still lacks.                        *)
AdvanceByNone(received, asked) == 0
AdvanceBy(received, asked) == received
Matches(received) ==
  \A i \in 1..received : stream[offset + i] = <<run.round, run.total + i - 1>>
GetData(received) ==
  /\ offset' = offset + AdvanceBy(received, Asked)
  /\ run' = IF received = Asked
            THEN [run EXCEPT !.round = @ + 1, !.total = 0]
            ELSE [run EXCEPT !.total = @ + received, !.pending = TRUE]
  /\ pc' = IF ~Matches(received) THEN "bad_data"
           ELSE IF received = Asked THEN "write" ELSE "wait"
ReadRound ==
  /\ pc = "read_round"
  /\ \/ /\ \E received \in 1..Unread : received <= Asked /\ GetData(received)
        /\ UNCHANGED faults
     \/ Unread = 0 /\ pc' = "wait" /\ UNCHANGED <<offset, run, faults>>
     \/ Fault /\ pc' \in {"wait", "done"} /\ UNCHANGED <<offset, run>>
  /\ UNCHANGED <<kind, stream, arrived, info, told, page, line, excused>>

-----------------------------------------------------------------------------
(* proctest's page_url: key M changes between PROC and polling, X leaves.  *)
Key ==
  /\ pc = "top"
  /\ \/ page' = [page EXCEPT !.useProc = ~@] /\ told' = FALSE
        /\ excused' = (~page.useProc /\ Waiting)
        /\ UNCHANGED pc
     \/ pc' = "done" /\ UNCHANGED <<page, told, excused>>
  /\ UNCHANGED <<kind, session, faults, run, line>>

(* An edge is followed by fn_ready, which lists a session with something   *)
(* to read; a FujiNet without that call makes the program try.             *)
First == IF page.haveInfo THEN "read" ELSE "info"
Pass ==
  /\ pc = "top" /\ (page.useProc => told)
  /\ pc' = IF page.useProc THEN "ready" ELSE First
  /\ told' = FALSE
  /\ UNCHANGED <<kind, session, faults, run, page, line, excused>>
Ready ==
  /\ pc = "ready"
  /\ \/ pc' = (IF Waiting THEN First ELSE "top") /\ UNCHANGED faults
     \/ Fault /\ pc' = First
  /\ UNCHANGED <<kind, session, told, run, page, line, excused>>

Info ==
  /\ pc = "info"
  /\ \/ info /\ page' = [page EXCEPT !.haveInfo = TRUE] /\ pc' = "read" /\ UNCHANGED faults
     \/ ~info /\ pc' = "top" /\ UNCHANGED <<page, faults>>
     \/ Fault /\ page' = [page EXCEPT !.haveInfo = TRUE] /\ pc' = "read"
  /\ UNCHANGED <<kind, session, told, run, line, excused>>

(* It reads until the session has no more; a read that fails ends that, and *)
(* what it left is not announced again.                                    *)
AfterDataOnce == "top"
AfterData == "read"
Read ==
  /\ pc = "read"
  /\ \/ /\ \E got \in 1..Unread : offset' = offset + got
        /\ pc' = AfterData /\ UNCHANGED <<faults, excused>>
     \/ Unread = 0 /\ pc' = "top" /\ UNCHANGED <<offset, faults, excused>>
     \/ Fault /\ pc' = "top" /\ excused' = (page.useProc /\ Unread > 0 /\ ~told)
        /\ UNCHANGED offset
  /\ UNCHANGED <<kind, stream, arrived, info, told, run, page, line>>

-----------------------------------------------------------------------------
(* proctest's main: P polls the PIA's flag, I counts interrupts, R resets. *)
Edge ==
  /\ pc \in Counting /\ line.edges < MaxEdges
  /\ line' = [line EXCEPT !.edges = @ + 1, !.flag = ~line.interrupt,
                          !.count = IF line.interrupt THEN @ + 1 ELSE @]
  /\ UNCHANGED <<kind, pc, session, told, faults, run, page, excused>>

Pressed(l) == [l EXCEPT !.seen = l.count, !.since = Quiet, !.dirty = TRUE]
CountKey ==
  /\ pc = "count"
  /\ \/ line' = Pressed([line EXCEPT !.interrupt = FALSE, !.flag = FALSE])
     \/ line' = Pressed([line EXCEPT !.interrupt = TRUE, !.count = IF line.interrupt THEN @ ELSE 0])
     \/ line' = Pressed([line EXCEPT !.polled = 0, !.count = IF line.interrupt THEN 0 ELSE @])
  /\ UNCHANGED <<kind, pc, session, told, faults, run, page, excused>>

(* One pass of the loop notices an edge, and draws the counts when edges   *)
(* have stopped.  The interrupt may count another between the comparison,  *)
(* the reading of the count that is stored, that of the one that is shown, *)
(* and the end of the drawing.                                             *)
NoticeFlag(l) == [l EXCEPT !.polled = @ + 1, !.flag = FALSE, !.since = 0, !.dirty = TRUE]
NoticeQuietly(l) == [l EXCEPT !.seen = l.count, !.since = 0]
NoticeCount(l) == [l EXCEPT !.seen = l.count, !.since = 0, !.dirty = TRUE]
Counted(l) == IF l.interrupt THEN l.count ELSE l.polled
IsQuiet == line.dirty /\ line.since >= Quiet

Compare ==
  /\ pc = "count"
  /\ line' = IF ~line.interrupt /\ line.flag THEN NoticeFlag(line) ELSE line
  /\ pc' = IF line.interrupt /\ line.count # line.seen THEN "store" ELSE "draw"
Store == pc = "store" /\ line' = NoticeCount(line) /\ pc' = "draw"
Show ==
  /\ pc = "draw"
  /\ \/ IsQuiet /\ line' = [line EXCEPT !.shown = Counted(line)] /\ pc' = "drawn"
     \/ ~IsQuiet /\ line' = line /\ pc' = "count"
Shown == pc = "drawn" /\ line' = [line EXCEPT !.dirty = FALSE] /\ pc' = "count"
Loop ==
  /\ Compare \/ Store \/ Show \/ Shown
  /\ UNCHANGED <<kind, session, told, faults, run, page, excused>>

-----------------------------------------------------------------------------
Program == WriteRound \/ WaitRound \/ ReadRound \/ Pass \/ Ready \/ Info \/ Read \/ Loop
Next == Arrive \/ InfoArrives \/ Tick \/ Program \/ Key \/ Edge \/ CountKey
Spec == Init /\ [][Next]_vars /\ WF_vars(Program) /\ WF_vars(Tick)

(* hsionet finds no byte out of place, whatever the FujiNet returns of a   *)
(* response at a time and refuses, and a round ends with its whole reply.  *)
EchoTrue == pc # "bad_data" /\ (pc = "write" => offset = Len(stream))

(* What arrived is read: by hsionet although edges are lost, by proctest   *)
(* unless it came before PROC was enabled, or a read failed.               *)
DataArrives == Waiting ~> (~Waiting \/ pc = "done" \/ excused)

(* What proctest shows catches up with the counts it shows.                *)
CountsShown ==
  (kind = "edges" /\ line.shown # Counted(line)) ~> (line.shown = Counted(line))

=============================================================================

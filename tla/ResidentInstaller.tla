-------------------------- MODULE ResidentInstaller --------------------------
(***************************************************************************)
(* The transient installer of the resident N: handler as MyDOS runs it     *)
(* (fnresident_o65_loader.s, DISK_SOURCE, ASM_RESIDENT): it borrows a free *)
(* IOCB and the cc65 zero page, streams the o65 file into the memory above *)
(* MEMLO while relocating it, initialises it, and publishes it in HATABS.  *)
(* It may be run any number of times, between other programs that install  *)
(* handlers; RESET may strike at any step.                                 *)
(*                                                                         *)
(* Memory is counted in cells.  An image is three cells, for its TEXT,     *)
(* DATA (with the handler table and the marker) and BSS; a cell says what  *)
(* it contains.  The installer occupies the cell at LoaderStart.           *)
(***************************************************************************)
EXTENDS Naturals, Sequences

CONSTANTS
  HatSlots,     \* entries of HATABS (11)
  Iocbs,        \* number of the last IOCB (7); 0 is the editor's
  BufferSize,   \* sections read from disk by one CIO call
  BootMemlo,    \* MEMLO after a reset
  LoaderStart   \* where the installer itself is ($6000)

ASSUME InstallerAssumption ==
  /\ HatSlots \in Nat \ {0} /\ Iocbs \in Nat \ {0} /\ BufferSize \in Nat \ {0}
  /\ BootMemlo \in Nat /\ LoaderStart \in Nat /\ BootMemlo < LoaderStart

VARIABLES
  hatabs,    \* the OS's table of handlers; `by` is history: who published it
  memlo,     \* the OS's start of free memory
  memory,
  iocb,      \* the IOCBs: free, the user's, borrowed by us, open on our file
  zp,        \* whose bytes the cc65 zero page holds
  pc,        \* next step of the installer, "rest" when it does not run
  run,       \* the installer's variables
  outcome,   \* R_OUTCOME
  faulty     \* history: a disk error or a bad file was met in this run

machine == <<hatabs, memlo, memory>>
caller == <<iocb, zp>>
vars == <<machine, caller, pc, run, outcome, faulty>>

Rom == LoaderStart + 1
Addresses == 0..LoaderStart
NoEntry == [name |-> "none", table |-> 0, by |-> "os"]
BootTable == [s \in 1..HatSlots |->
  IF s = 1 THEN [name |-> "P", table |-> Rom, by |-> "os"] ELSE NoEntry]
NoRun == [iocb |-> 0, slot |-> 1, base |-> 0, end |-> 0,
          position |-> 0, buffered |-> 0]

Init ==
  /\ hatabs = BootTable /\ memlo = BootMemlo
  /\ memory = [a \in Addresses |-> IF a = LoaderStart THEN "loader" ELSE "junk"]
  /\ iocb = [i \in 1..Iocbs |-> "free"] /\ zp = "caller"
  /\ pc = "rest" /\ run = NoRun /\ outcome = "none" /\ faulty = FALSE

-----------------------------------------------------------------------------
At(step) == pc = step
Goto(step) == pc' = step /\ UNCHANGED <<outcome, faulty>>
(* finish with an outcome: for a reason of the machine, or for one of the  *)
(* disk or the file.                                                       *)
Stop(result) == pc' = "finish" /\ outcome' = result /\ faulty' = faulty
Fail(result) == pc' = "finish" /\ outcome' = result /\ faulty' = TRUE

(* An image: base, base + 1 and base + 2.                                  *)
Alloc == 3
TableOffset == 1
Store(cells) == memory' = [a \in Addresses |->
  IF a \in DOMAIN cells THEN cells[a] ELSE memory[a]]
Complete(base) ==
  /\ base + Alloc <= LoaderStart + 1
  /\ memory[base] = "text" /\ memory[base + 1] = "data" /\ memory[base + 2] = "bss"

Start ==
  /\ At("rest")
  /\ zp' = "loader" /\ run' = NoRun
  /\ pc' = "iocb" /\ outcome' = "memory" /\ faulty' = FALSE
  /\ UNCHANGED <<machine, iocb>>

(* disk_open_header: the highest free IOCB; then OPEN, then GET of both    *)
(* headers.  Too little room below the stack or the screen for the buffers *)
(* and a table of IOCBs that are all taken are reasons of the machine, but *)
(* _main reports them as it does a bad file.                               *)
IsFree(i) == iocb[i] = "free"
BorrowIocb ==
  /\ At("iocb")
  /\ \/ \E i \in 1..Iocbs :
          /\ IsFree(i) /\ \A j \in (i + 1)..Iocbs : ~IsFree(j)
          /\ iocb' = [iocb EXCEPT ![i] = "borrowed"]
          /\ run' = [run EXCEPT !.iocb = i]
          /\ Goto("open")
     \/ (\A i \in 1..Iocbs : ~IsFree(i)) /\ Stop("format") /\ UNCHANGED <<iocb, run>>
     \/ Stop("format") /\ UNCHANGED <<iocb, run>>
  /\ UNCHANGED <<machine, zp>>

OpenFile ==
  /\ At("open")
  /\ \/ iocb' = [iocb EXCEPT ![run.iocb] = "open"] /\ Goto("header")
     \/ iocb' = iocb /\ Fail("format")
  /\ UNCHANGED <<machine, zp, run>>

(* GET of the headers and validate_wrapper.                                *)
ReadHeader ==
  /\ At("header")
  /\ Goto("scan") \/ Fail("format")
  /\ UNCHANGED <<machine, caller, run>>

-----------------------------------------------------------------------------
(* An N: entry is our own if the memory it implies for its image starts    *)
(* below MEMLO and has our marker in it.                                   *)
IsOwn(entry) ==
  /\ entry.table >= TableOffset /\ entry.table - TableOffset < memlo
  /\ memory[entry.table] \in {"raw data", "data"}

(* The scan ends at the first N: and at the first empty entry.             *)
ScanEndsAt(s) ==
  /\ hatabs[s].name \in {"N", "none"}
  /\ \A t \in 1..(s - 1) : hatabs[t].name \notin {"N", "none"}

ScanHatabs ==
  /\ At("scan")
  /\ \/ \E s \in 1..HatSlots :
          /\ ScanEndsAt(s)
          /\ \/ hatabs[s].name = "none" /\ run' = [run EXCEPT !.slot = s] /\ Goto("ranges")
             \/ /\ hatabs[s].name = "N" /\ run' = run
                /\ Stop(IF IsOwn(hatabs[s]) THEN "own" ELSE "foreign")
     \/ /\ \A s \in 1..HatSlots : hatabs[s].name \notin {"N", "none"}
        /\ run' = run /\ Stop("no slot")
  /\ UNCHANGED <<machine, caller>>

(* The image ends below the installer; that it ends below the stack and    *)
(* the screen follows, since disk_open_header found those above $9400.     *)
Fits(end) == end <= LoaderStart

AlignedDown(a) == a - (a % 2)
Aligned(a) == a + (a % 2)

CalculateRanges ==
  LET base == Aligned(memlo) IN
  /\ At("ranges")
  /\ run' = [run EXCEPT !.base = base, !.end = base + Alloc]
  /\ IF Fits(base + Alloc) THEN Goto("parse") ELSE Stop("memory")
  /\ UNCHANGED <<machine, caller>>

(* parse_o65_header, on the staged header.                                 *)
ParseHeader ==
  /\ At("parse")
  /\ Goto("load") \/ Fail("format")
  /\ UNCHANGED <<machine, caller, run>>

-----------------------------------------------------------------------------
(* The rest of the module is a stream of sections.                         *)
Sections == <<"options", "text", "data", "imports", "text relocations",
              "data relocations", "exports">>
ModuleEnd == Len(Sections)

Lesser(a, b) == IF a < b THEN a ELSE b
WholeBuffer == BufferSize
Request == Lesser(BufferSize, ModuleEnd - run.position)

(* disk_read_byte on an empty buffer: the file ends with the module, so a  *)
(* request for more is an error although disk and file are good.           *)
Refill ==
  /\ At("load") /\ run.buffered = 0 /\ run.position < ModuleEnd
  /\ IF run.position + Request <= ModuleEnd
     THEN run' = [run EXCEPT !.buffered = Request] /\ Goto("load")
     ELSE run' = run /\ Stop("format")
  /\ UNCHANGED <<machine, caller>>

DiskError ==
  /\ At("load") /\ run.buffered = 0
  /\ run' = run /\ Fail("format")
  /\ UNCHANGED <<machine, caller>>

(* What a section does to memory; BSS is cleared once DATA is copied, and  *)
(* the relocations turn the copied cells into ones that run at base.       *)
Effect(section, base) ==
  CASE section = "text" -> [a \in {base} |-> "raw text"]
    [] section = "data" -> [a \in {base + 1, base + 2} |->
                              IF a = base + 1 THEN "raw data" ELSE "zero"]
    [] section = "text relocations" -> [a \in {base} |-> "text"]
    [] section = "data relocations" -> [a \in {base + 1} |-> "data"]
    [] OTHER -> <<>>

Load ==
  LET section == Sections[run.position + 1] IN
  /\ At("load") /\ run.buffered > 0
  /\ Store(Effect(section, run.base))
  /\ run' = [run EXCEPT !.position = @ + 1, !.buffered = @ - 1]
  /\ Goto(IF run.position + 1 = ModuleEnd THEN "prepare" ELSE "load")
  /\ UNCHANGED <<hatabs, memlo, caller>>

(* A section that is not what the module profile allows, or a module that  *)
(* ends early or late: load_module gives up, whatever it wrote so far.     *)
BadSection ==
  LET section == Sections[run.position + 1] IN
  /\ At("load") /\ run.buffered > 0
  /\ memory' = memory \/ Store(Effect(section, run.base))
  /\ run' = run /\ Fail("format")
  /\ UNCHANGED <<hatabs, memlo, caller>>

-----------------------------------------------------------------------------
(* publish_hatabs writes the vector first, the name next, MEMLO last.      *)
NameFirst == <<"name", "vector", "raise", "finish">>
PublishOrder == <<"vector", "name", "raise", "finish">>
After(step) == PublishOrder[1 + CHOOSE i \in 1..3 : PublishOrder[i] = step]

(* prepare_and_init: the marker must have arrived; then the module's entry *)
(* is called, in a zero page that now belongs to it.                       *)
Prepare ==
  /\ At("prepare")
  /\ zp' = "module"
  /\ Store([a \in {run.base + 2} |-> "bss"])
  /\ Goto("validate") \/ Fail("init")
  /\ UNCHANGED <<hatabs, memlo, iocb, run>>

NoMarker ==
  /\ At("prepare")
  /\ Fail("init")
  /\ UNCHANGED <<machine, caller, run>>

ValidateVectors ==
  /\ At("validate")
  /\ Goto(PublishOrder[1]) \/ Fail("format")
  /\ UNCHANGED <<machine, caller, run>>

PublishVector ==
  /\ At("vector")
  /\ hatabs' = [hatabs EXCEPT ![run.slot].table = run.base + TableOffset]
  /\ Goto(After("vector"))
  /\ UNCHANGED <<memlo, memory, caller, run>>

PublishName ==
  /\ At("name")
  /\ hatabs' = [hatabs EXCEPT ![run.slot].name = "N", ![run.slot].by = "loader"]
  /\ Goto(After("name"))
  /\ UNCHANGED <<memlo, memory, caller, run>>

RaiseToStart ==
  /\ At("raise")
  /\ memlo' = run.base
  /\ pc' = After("raise") /\ outcome' = "installed" /\ faulty' = faulty
  /\ UNCHANGED <<hatabs, memory, caller, run>>
RaiseMemlo ==
  /\ At("raise")
  /\ memlo' = run.end
  /\ pc' = After("raise") /\ outcome' = "installed" /\ faulty' = faulty
  /\ UNCHANGED <<hatabs, memory, caller, run>>

(* disk_close: the borrowed IOCB, opened or not, is closed and gets its    *)
(* old contents back.                                                      *)
RestoreOpened ==
  [i \in 1..Iocbs |-> IF iocb[i] = "open" THEN "free" ELSE iocb[i]]
RestoreIocb ==
  IF run.iocb = 0 THEN iocb ELSE [iocb EXCEPT ![run.iocb] = "free"]

Finish ==
  /\ At("finish")
  /\ iocb' = RestoreIocb
  /\ zp' = "caller"
  /\ run' = NoRun
  /\ pc' = "rest"
  /\ UNCHANGED <<machine, outcome, faulty>>

-----------------------------------------------------------------------------
(* Other programs run while the installer does not.                        *)
UserIocb(i) ==
  /\ At("rest")
  /\ \/ iocb[i] = "free" /\ iocb' = [iocb EXCEPT ![i] = "user"]
     \/ iocb[i] = "user" /\ iocb' = [iocb EXCEPT ![i] = "free"]
  /\ UNCHANGED <<machine, zp, pc, run, outcome, faulty>>

OtherHandler(s) ==
  LET Entry(name, table) == [name |-> name, table |-> table, by |-> "other"] IN
  /\ At("rest")
  /\ hatabs[s].name = "none" /\ \A t \in 1..(s - 1) : hatabs[t].name # "none"
  /\ \E name \in {"N", "P"} :
       \/ /\ memlo < LoaderStart /\ memlo' = memlo + 1
          /\ Store([a \in {memlo} |-> "foreign"])
          /\ hatabs' = [hatabs EXCEPT ![s] = Entry(name, memlo)]
       \/ hatabs' = [hatabs EXCEPT ![s] = Entry(name, Rom)] /\ UNCHANGED <<memlo, memory>>
  /\ UNCHANGED <<caller, pc, run, outcome, faulty>>

(* RESET keeps memory but not the tables of the OS.                        *)
Reset ==
  /\ hatabs' = BootTable /\ memlo' = BootMemlo /\ memory' = memory
  /\ iocb' = [i \in 1..Iocbs |-> "free"] /\ zp' = "caller"
  /\ pc' = "rest" /\ run' = NoRun /\ outcome' = "none" /\ faulty' = FALSE

-----------------------------------------------------------------------------
LoaderStep ==
  \/ Start \/ BorrowIocb \/ OpenFile \/ ReadHeader \/ ScanHatabs \/ CalculateRanges
  \/ ParseHeader \/ Refill \/ DiskError \/ Load \/ BadSection
  \/ Prepare \/ NoMarker \/ ValidateVectors
  \/ PublishVector \/ PublishName \/ RaiseMemlo \/ Finish

Next ==
  \/ LoaderStep
  \/ \E i \in 1..Iocbs : UserIocb(i)
  \/ \E s \in 1..HatSlots : OtherHandler(s)
  \/ Reset

Spec == Init /\ [][Next]_vars

-----------------------------------------------------------------------------
Entry == [name : {"none", "N", "P"}, table : 0..Rom, by : {"os", "other", "loader"}]

TypeOK ==
  /\ hatabs \in [1..HatSlots -> Entry]
  /\ memlo \in 0..LoaderStart
  /\ memory \in [Addresses -> {"junk", "loader", "foreign", "raw text", "raw data",
                              "zero", "text", "data", "bss"}]
  /\ iocb \in [1..Iocbs -> {"free", "user", "borrowed", "open"}]
  /\ zp \in {"caller", "loader", "module"}
  /\ run \in [iocb : 0..Iocbs, slot : 1..HatSlots,
              base : 0..(LoaderStart + 1), end : 0..(LoaderStart + 1 + Alloc),
              position : 0..ModuleEnd, buffered : 0..BufferSize]
  /\ run.position + run.buffered <= ModuleEnd
  /\ faulty \in BOOLEAN

(* Whenever an N: of ours can be found in HATABS, between any two steps of *)
(* this or of a later run, its vector leads to a complete, relocated and   *)
(* initialised image: it is published last and never loaded over.          *)
PublishedWorks == \A s \in 1..HatSlots :
  hatabs[s].name = "N" /\ hatabs[s].by = "loader" =>
    hatabs[s].table > 0 /\ Complete(hatabs[s].table - TableOffset)

(* Whatever stopped the run, its caller gets back the IOCB that was        *)
(* borrowed, closed, and its zero page.                                    *)
CallerUntouched ==
  pc = "rest" => zp = "caller" /\ \A i \in 1..Iocbs : iocb[i] \in {"free", "user"}

(* Nothing below MEMLO, which may be another program's, and nothing of the *)
(* installer itself is ever written.                                       *)
WritesFreeMemory ==
  [][\A a \in Addresses : memory'[a] # memory[a] => memlo <= a /\ a < LoaderStart]_vars

(* The reported outcome is so, and stays so while other programs run:      *)
(* installed and own mean that a working N: of ours is in the table and    *)
(* below MEMLO; foreign, that another's N: comes first; no slot, that the  *)
(* table has neither an N: nor an empty entry; memory, that the image does *)
(* not fit above MEMLO.  A bad format is not reported of a good file on a  *)
(* good disk by a run that came as far as opening it; a run that got no    *)
(* IOCB or no room for its buffers reports the same outcome.               *)
OutcomeTrue ==
  pc \in {"finish", "rest"} =>
    /\ outcome \in {"installed", "own"} =>
         \E s \in 1..HatSlots :
           /\ hatabs[s].name = "N" /\ hatabs[s].by = "loader"
           /\ hatabs[s].table - TableOffset + Alloc <= memlo
    /\ outcome = "foreign" =>
         \E s \in 1..HatSlots :
           ScanEndsAt(s) /\ hatabs[s].name = "N" /\ hatabs[s].by # "loader"
    /\ outcome = "no slot" =>
         \A s \in 1..HatSlots : hatabs[s].name \notin {"N", "none"}
    /\ outcome = "memory" => ~Fits(Aligned(memlo) + Alloc)
    /\ outcome = "format" /\ pc = "finish" => faulty \/ run.iocb = 0

(* The steps of a run amount to one atomic installation, or to nothing.    *)
Visible(s) == IF hatabs[s].name = "none" THEN [name |-> "none", table |-> 0]
              ELSE [name |-> hatabs[s].name, table |-> hatabs[s].table]
Atomically == INSTANCE HandlerTable WITH
  BootTable <- [s \in 1..HatSlots |-> [name |-> BootTable[s].name, table |-> BootTable[s].table]],
  Size <- Alloc, Ceiling <- LoaderStart,
  table <- [s \in 1..HatSlots |-> Visible(s)],
  memlo <- IF pc = "raise" THEN run.end ELSE memlo

InstallsAtomically == Atomically!Spec

=============================================================================

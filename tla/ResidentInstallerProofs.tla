------------------------ MODULE ResidentInstallerProofs ---------------------
(***************************************************************************)
(* The proofs about the installer, for any size of HATABS, number of IOCBs, *)
(* disk buffer, MEMLO and place of the installer: what is in memory and in *)
(* the tables of the OS at each step of a run, and that the steps amount to *)
(* one installation.  The second half is about the relocation of its image, *)
(* for any byte, segments, load address and operands of the linker.        *)
(***************************************************************************)
EXTENDS ResidentInstaller, Relocation, SequenceTheorems, TLAPS

Searching == {"iocb", "open", "header", "scan", "ranges", "parse"}
Loaded == {"prepare", "validate", "vector", "name", "raise"}
Initialised == {"validate", "vector", "name", "raise"}
Based == {"parse", "load"} \cup Loaded
Placed == ({"ranges"} \cup Based) \ {"raise"}
Steps == {"rest", "finish", "load"} \cup Searching \cup Loaded

MachineTypes ==
  /\ hatabs \in [1..HatSlots -> Entry]
  /\ memlo \in 0..LoaderStart
  /\ memory \in [Addresses -> {"junk", "loader", "foreign", "raw text", "raw data",
                              "zero", "text", "data", "bss"}]
CallerTypes ==
  /\ iocb \in [1..Iocbs -> {"free", "user", "borrowed", "open"}]
  /\ zp \in {"caller", "loader", "module"}
IsRun(r) ==
  /\ r \in [iocb : 0..Iocbs, slot : 1..HatSlots,
            base : 0..(LoaderStart + 1), end : 0..(LoaderStart + 1 + Alloc),
            position : 0..ModuleEnd, buffered : 0..BufferSize]
  /\ r.position + r.buffered <= ModuleEnd
TypeInv == MachineTypes /\ CallerTypes /\ IsRun(run) /\ faulty \in BOOLEAN /\ pc \in Steps

(* Nothing of the caller's is kept but what Finish will give back.         *)
BorrowInv ==
  /\ pc = "rest" => zp = "caller"
  /\ \A i \in 1..Iocbs : iocb[i] \in {"borrowed", "open"} =>
       run.iocb = i /\ pc \notin {"rest", "iocb"}

(* The image's cells are free memory, below the installer.                 *)
RangeInv ==
  pc \in Based =>
    run.base = Aligned(memlo) /\ run.end = run.base + Alloc /\ run.end <= LoaderStart

(* The entry that was found stays the first empty one until it is named.   *)
EarlierTaken(s) == \A t \in 1..(s - 1) : hatabs[t].name \notin {"N", "none"}
SlotInv ==
  /\ pc \in Placed => hatabs[run.slot].name = "none" /\ EarlierTaken(run.slot)
  /\ pc = "name" => hatabs[run.slot].table = run.base + TableOffset
  /\ pc = "raise" =>
       /\ hatabs[run.slot].name = "N" /\ hatabs[run.slot].by = "loader"
       /\ hatabs[run.slot].table = run.base + TableOffset

(* How far the image is.                                                   *)
ImageInv ==
  /\ pc \in Searching => run.position = 0 /\ run.buffered = 0
  /\ pc = "load" /\ run.position >= 5 => memory[run.base] = "text"
  /\ pc = "load" /\ run.position >= 6 => memory[run.base + 1] = "data"
  /\ pc \in Loaded => memory[run.base] = "text" /\ memory[run.base + 1] = "data"
  /\ pc \in Initialised => memory[run.base + 2] = "bss"

(* Images that were published are complete and below MEMLO, but the one    *)
(* for which MEMLO is about to be raised; another program's N: does not    *)
(* have our marker.                                                        *)
Ours(s) == hatabs[s].name = "N" /\ hatabs[s].by = "loader"
BelowMemlo(s) == hatabs[s].table - TableOffset + Alloc <= memlo
PublishedInv ==
  \A s \in 1..HatSlots : Ours(s) =>
    /\ hatabs[s].table > 0 /\ Complete(hatabs[s].table - TableOffset)
    /\ BelowMemlo(s) \/ (pc = "raise" /\ s = run.slot)
ForeignInv ==
  \A s \in 1..HatSlots : hatabs[s].name = "N" /\ hatabs[s].by # "loader" =>
    hatabs[s].table = Rom \/ (hatabs[s].table < memlo /\ memory[hatabs[s].table] = "foreign")

OutcomeInv ==
  outcome \in {"installed", "own"} => \E s \in 1..HatSlots : Ours(s) /\ BelowMemlo(s)

InstallerInv ==
  /\ TypeInv /\ BorrowInv /\ RangeInv /\ SlotInv /\ ImageInv
  /\ PublishedInv /\ ForeignInv /\ OutcomeInv

-----------------------------------------------------------------------------
LEMMA Constants ==
  /\ HatSlots \in Nat /\ HatSlots > 0 /\ Iocbs \in Nat /\ Iocbs > 0
  /\ BufferSize \in Nat /\ BufferSize > 0
  /\ BootMemlo \in Nat /\ LoaderStart \in Nat /\ BootMemlo < LoaderStart
  /\ Alloc = 3 /\ TableOffset = 1 /\ Rom = LoaderStart + 1 /\ ModuleEnd = 7
<1>1. Len(Sections) = 7
  BY DEF Sections
<1>2. QED
  BY <1>1, InstallerAssumption DEF Alloc, TableOffset, Rom, ModuleEnd

LEMMA AlignedBounds ==
  ASSUME NEW a \in Nat
  PROVE  Aligned(a) \in Nat /\ a <= Aligned(a) /\ Aligned(a) <= a + 1
BY DEF Aligned

LEMMA AlignedGrows ==
  ASSUME NEW a \in Nat, NEW b \in Nat, a <= b
  PROVE  Aligned(a) \in Nat /\ Aligned(b) \in Nat /\ Aligned(a) <= Aligned(b)
<1>1. CASE a = b
  BY <1>1, AlignedBounds
<1>2. CASE a < b
  <2>1. a + 1 <= b /\ Aligned(a) <= a + 1 /\ b <= Aligned(b)
    BY <1>2, AlignedBounds
  <2>2. Aligned(a) \in Nat /\ Aligned(b) \in Nat
    BY AlignedBounds
  <2>3. QED  BY <2>1, <2>2
<1>3. QED  BY <1>1, <1>2

LEMMA PublishSteps ==
  /\ PublishOrder[1] = "vector" /\ After("vector") = "name"
  /\ After("name") = "raise" /\ After("raise") = "finish"
<1>1. /\ PublishOrder[1] = "vector" /\ PublishOrder[2] = "name"
      /\ PublishOrder[3] = "raise" /\ PublishOrder[4] = "finish"
  BY DEF PublishOrder
<1>2. (CHOOSE i \in 1..3 : PublishOrder[i] = "vector") = 1
  BY <1>1
<1>3. (CHOOSE i \in 1..3 : PublishOrder[i] = "name") = 2
  BY <1>1
<1>4. (CHOOSE i \in 1..3 : PublishOrder[i] = "raise") = 3
  BY <1>1
<1>5. QED  BY <1>1, <1>2, <1>3, <1>4 DEF After

(* What a section writes, and where.                                       *)
Contents == {"raw text", "raw data", "zero", "text", "data", "bss", "foreign"}
LEMMA Effects ==
  ASSUME NEW section, NEW base \in Nat
  PROVE  /\ DOMAIN Effect(section, base) \subseteq {base, base + 1, base + 2}
         /\ \A a \in DOMAIN Effect(section, base) : Effect(section, base)[a] \in Contents
<1>1. CASE section = "text"
  BY <1>1 DEF Effect, Contents
<1>2. CASE section = "data"
  BY <1>2 DEF Effect, Contents
<1>3. CASE section = "text relocations"
  BY <1>3 DEF Effect, Contents
<1>4. CASE section = "data relocations"
  BY <1>4 DEF Effect, Contents
<1>5. CASE section \notin {"text", "data", "text relocations", "data relocations"}
  <2>1. Effect(section, base) = <<>>
    BY <1>5 DEF Effect
  <2>2. DOMAIN Effect(section, base) = {}
    BY <2>1
  <2>3. QED  BY <2>2
<1>6. QED  BY <1>1, <1>2, <1>3, <1>4, <1>5

(* Storing in some cells leaves the others alone.                          *)
LEMMA Stores ==
  ASSUME TypeInv, NEW cells, Store(cells), \A a \in DOMAIN cells : cells[a] \in Contents
  PROVE  /\ memory' \in [Addresses -> {"junk", "loader"} \cup Contents]
         /\ \A a \in Addresses \ DOMAIN cells : memory'[a] = memory[a]
         /\ \A a \in Addresses \cap DOMAIN cells : memory'[a] = cells[a]
BY DEF Store, TypeInv, MachineTypes, Contents

LEMMA NoRunTypes == IsRun(NoRun)
BY Constants DEF IsRun, NoRun

LEMMA Types ==
  ASSUME TypeInv
  PROVE  /\ memlo \in Nat /\ memlo <= LoaderStart
         /\ \A s \in 1..HatSlots : hatabs[s] \in Entry /\ hatabs[s].table \in 0..Rom
         /\ run.base \in Nat /\ run.end \in Nat /\ run.slot \in 1..HatSlots
         /\ run.position \in Nat /\ run.buffered \in Nat /\ run.iocb \in 0..Iocbs
         /\ run.position + run.buffered <= ModuleEnd
<1>1. /\ memlo \in 0..LoaderStart /\ hatabs \in [1..HatSlots -> Entry]
      /\ run.iocb \in 0..Iocbs /\ run.slot \in 1..HatSlots
      /\ run.base \in 0..(LoaderStart + 1) /\ run.end \in 0..(LoaderStart + 1 + Alloc)
      /\ run.position \in 0..ModuleEnd /\ run.buffered \in 0..BufferSize
      /\ run.position + run.buffered <= ModuleEnd
  BY DEF TypeInv, MachineTypes, IsRun
<1>2. \A e \in Entry : e.table \in 0..Rom
  BY DEF Entry
<1>3. \A s \in 1..HatSlots : hatabs[s] \in Entry /\ hatabs[s].table \in 0..Rom
  BY <1>1, <1>2
<1>4. LoaderStart \in Nat /\ Iocbs \in Nat /\ BufferSize \in Nat /\ Alloc = 3 /\ ModuleEnd = 7
  BY Constants
<1>5. memlo \in Nat /\ memlo <= LoaderStart
  BY <1>1, <1>4
<1>6. run.base \in Nat /\ run.end \in Nat /\ run.position \in Nat /\ run.buffered \in Nat
  BY <1>1, <1>4
<1>7. QED  BY <1>1, <1>3, <1>5, <1>6

-----------------------------------------------------------------------------
(* A step that leaves HATABS and MEMLO alone, and of memory what is below  *)
(* it, leaves what was published alone.                                    *)
LEMMA PublishedStays ==
  ASSUME TypeInv, PublishedInv, ForeignInv, UNCHANGED <<hatabs, memlo>>,
         \A a \in Addresses : a < memlo => memory'[a] = memory[a],
         pc # "raise"
  PROVE  PublishedInv' /\ ForeignInv'
<1> USE Constants
<1>1. PublishedInv'
  <2> SUFFICES ASSUME NEW s \in 1..HatSlots, Ours(s)'
               PROVE  /\ hatabs'[s].table > 0 /\ Complete(hatabs[s].table - TableOffset)'
                      /\ BelowMemlo(s)'
    BY DEF PublishedInv
  <2> DEFINE t == hatabs[s].table
  <2>1. t \in Nat /\ hatabs' = hatabs /\ memlo' = memlo /\ memlo \in 0..LoaderStart
    BY Types
  <2>2. t > 0 /\ Complete(t - TableOffset) /\ BelowMemlo(s)
    BY <2>1 DEF PublishedInv, Ours
  <2>3. {t - 1, t, t + 1} \subseteq Addresses /\ t + 2 <= memlo
    BY <2>1, <2>2 DEF BelowMemlo, Addresses
  <2>4. memory'[t - 1] = memory[t - 1] /\ memory'[t] = memory[t] /\ memory'[t + 1] = memory[t + 1]
    BY <2>1, <2>3 DEF Addresses
  <2>5. QED  BY <2>1, <2>2, <2>4 DEF Complete, BelowMemlo
<1>2. ForeignInv'
  <2> SUFFICES ASSUME NEW s \in 1..HatSlots, hatabs[s].name = "N", hatabs[s].by # "loader"
               PROVE  hatabs[s].table = Rom
                        \/ (hatabs[s].table < memlo /\ memory'[hatabs[s].table] = "foreign")
    BY DEF ForeignInv
  <2>1. hatabs[s].table \in 0..Rom /\ memlo \in 0..LoaderStart
    BY Types
  <2>2. QED  BY <2>1 DEF ForeignInv, Addresses
<1>3. QED  BY <1>1, <1>2

(* The outcome stays true while HATABS and MEMLO stay as they are.         *)
LEMMA OutcomeStays ==
  ASSUME OutcomeInv, UNCHANGED <<hatabs, memlo>>,
         outcome' = outcome \/ outcome' \notin {"installed", "own"}
  PROVE  OutcomeInv'
<1>1. \A s \in 1..HatSlots : (Ours(s) /\ BelowMemlo(s))' <=> (Ours(s) /\ BelowMemlo(s))
  BY DEF Ours, BelowMemlo
<1>2. QED  BY <1>1 DEF OutcomeInv

(* The same of a step that only goes on, or ends the run.                  *)
LEMMA WalkStays ==
  ASSUME TypeInv, PublishedInv, ForeignInv, OutcomeInv, UNCHANGED machine, pc # "raise",
         \/ \E step : Goto(step)
         \/ \E result : (Fail(result) \/ Stop(result)) /\ result \notin {"installed", "own"}
  PROVE  PublishedInv' /\ ForeignInv' /\ OutcomeInv'
<1>1. PublishedInv' /\ ForeignInv'
  <2>1. hatabs' = hatabs /\ memlo' = memlo /\ memory' = memory
    BY DEF machine
  <2>2. QED  BY <2>1, PublishedStays
<1>2. OutcomeInv'
  <2>1. hatabs' = hatabs /\ memlo' = memlo
    BY DEF machine
  <2>2. outcome' = outcome \/ outcome' \notin {"installed", "own"}
    BY DEF Goto, Fail, Stop
  <2>3. QED  BY <2>1, <2>2, OutcomeStays
<1>3. QED  BY <1>1, <1>2

-----------------------------------------------------------------------------
LEMMA InitInv == Init => InstallerInv
<1> SUFFICES ASSUME Init PROVE InstallerInv  OBVIOUS
<1> USE Constants DEF Init
<1>1. \A s \in 1..HatSlots : hatabs[s] = BootTable[s] /\ hatabs[s].name # "N"
  BY DEF BootTable, NoEntry
<1>2. hatabs \in [1..HatSlots -> Entry]
  <2>1. NoEntry \in Entry /\ [name |-> "P", table |-> Rom, by |-> "os"] \in Entry
    BY DEF NoEntry, Entry
  <2>2. QED  BY <2>1 DEF BootTable
<1>3. TypeInv
  <2>1. MachineTypes
    BY <1>2 DEF MachineTypes, Addresses
  <2>2. CallerTypes
    BY DEF CallerTypes
  <2>3. QED  BY <2>1, <2>2, NoRunTypes DEF TypeInv, Steps
<1>4. QED
  BY <1>1, <1>3 DEF InstallerInv, BorrowInv, RangeInv, SlotInv, ImageInv, PublishedInv,
     ForeignInv, OutcomeInv, Based, Placed, Searching, Loaded, Initialised, Ours

(* One step of the installer that leaves the machine as it is.             *)
LEMMA Starts == InstallerInv /\ Start => InstallerInv'
<1> SUFFICES ASSUME InstallerInv, Start PROVE InstallerInv'  OBVIOUS
<1> USE Constants DEF InstallerInv, Start, At
<1>1. TypeInv'
  <2>1. MachineTypes' /\ CallerTypes'
    BY DEF MachineTypes, CallerTypes, machine, TypeInv
  <2>2. QED  BY <2>1, NoRunTypes DEF TypeInv, Steps, Searching
<1>2. PublishedInv' /\ ForeignInv'
  BY PublishedStays DEF machine, TypeInv
<1>3. OutcomeInv'
  BY OutcomeStays DEF machine
<1>4. QED
  BY <1>1, <1>2, <1>3 DEF BorrowInv, RangeInv, SlotInv, ImageInv,
     Based, Placed, Searching, Loaded, Initialised, NoRun

LEMMA Borrows == InstallerInv /\ BorrowIocb => InstallerInv'
<1> SUFFICES ASSUME InstallerInv, BorrowIocb PROVE InstallerInv'  OBVIOUS
<1> USE Constants DEF InstallerInv, BorrowIocb, At
<1>1. PublishedInv' /\ ForeignInv' /\ OutcomeInv'
  BY WalkStays DEF TypeInv
<1>2. CASE \E i \in 1..Iocbs : /\ iocb' = [iocb EXCEPT ![i] = "borrowed"]
                               /\ run' = [run EXCEPT !.iocb = i] /\ Goto("open")
  <2> PICK i \in 1..Iocbs : /\ iocb' = [iocb EXCEPT ![i] = "borrowed"]
                            /\ run' = [run EXCEPT !.iocb = i] /\ Goto("open")
    BY <1>2
  <2>1. TypeInv'
    <3>1. MachineTypes' /\ CallerTypes'
      BY DEF MachineTypes, CallerTypes, machine, TypeInv
    <3>2. IsRun(run')
      BY DEF IsRun, TypeInv
    <3>3. QED  BY <3>1, <3>2 DEF TypeInv, Steps, Searching, Goto
  <2>2. BorrowInv'
    BY DEF BorrowInv, Goto, TypeInv, CallerTypes, IsRun
  <2>3. QED
    BY <1>1, <2>1, <2>2 DEF Goto, RangeInv, SlotInv, ImageInv, TypeInv, IsRun,
       Based, Placed, Searching, Loaded, Initialised
<1>3. CASE Stop("format") /\ UNCHANGED <<iocb, run>>
  <2>1. TypeInv'
    <3>1. MachineTypes' /\ CallerTypes'
      BY <1>3 DEF MachineTypes, CallerTypes, machine, TypeInv
    <3>2. QED  BY <1>3, <3>1 DEF TypeInv, Steps, Stop
  <2>2. QED
    BY <1>1, <1>3, <2>1 DEF Stop, BorrowInv, RangeInv, SlotInv, ImageInv,
       Based, Placed, Searching, Loaded, Initialised
<1>4. QED  BY <1>2, <1>3

(* A run that ends leaves the machine and the IOCBs to Finish.             *)
LEMMA Ends ==
  ASSUME InstallerInv, UNCHANGED <<machine, caller, run>>, pc # "raise", pc # "rest", pc # "iocb",
         \E result : (Fail(result) \/ Stop(result)) /\ result \notin {"installed", "own"}
  PROVE  InstallerInv'
<1>0. pc' = "finish" /\ faulty' \in BOOLEAN
  BY DEF Fail, Stop, InstallerInv, TypeInv
<1>1. PublishedInv' /\ ForeignInv' /\ OutcomeInv'
  BY WalkStays DEF InstallerInv
<1>2. TypeInv'
  <2>1. MachineTypes' /\ CallerTypes' /\ IsRun(run')
    BY DEF MachineTypes, CallerTypes, machine, caller, TypeInv, InstallerInv
  <2>2. QED  BY <1>0, <2>1 DEF TypeInv, Steps
<1>3. QED
  BY <1>0, <1>1, <1>2 DEF InstallerInv, BorrowInv, RangeInv, SlotInv, ImageInv, caller,
     Based, Placed, Searching, Loaded, Initialised

LEMMA Opens == InstallerInv /\ OpenFile => InstallerInv'
<1> SUFFICES ASSUME InstallerInv, OpenFile PROVE InstallerInv'  OBVIOUS
<1> USE DEF InstallerInv, OpenFile, At
<1>1. PublishedInv' /\ ForeignInv' /\ OutcomeInv'
  BY WalkStays
<1>2. CASE iocb' = [iocb EXCEPT ![run.iocb] = "open"] /\ Goto("header")
  <2>1. TypeInv'
    <3>1. MachineTypes' /\ CallerTypes'
      BY <1>2 DEF MachineTypes, CallerTypes, machine, TypeInv
    <3>2. QED  BY <1>2, <3>1 DEF TypeInv, Steps, Searching, Goto
  <2>2. BorrowInv'
    BY <1>2 DEF BorrowInv, Goto, TypeInv, CallerTypes
  <2>3. QED
    BY <1>1, <1>2, <2>1, <2>2 DEF Goto, RangeInv, SlotInv, ImageInv, machine,
       Based, Placed, Searching, Loaded, Initialised
<1>3. CASE iocb' = iocb /\ Fail("format")
  BY <1>3, Ends DEF caller
<1>4. QED  BY <1>2, <1>3

LEMMA ReadsHeader == InstallerInv /\ ReadHeader => InstallerInv'
<1> SUFFICES ASSUME InstallerInv, ReadHeader PROVE InstallerInv'  OBVIOUS
<1> USE DEF ReadHeader, At
<1>1. CASE Fail("format")
  BY <1>1, Ends DEF caller
<1>2. CASE Goto("scan")
  <2> USE DEF InstallerInv
  <2>1. PublishedInv' /\ ForeignInv' /\ OutcomeInv'
    BY <1>2, WalkStays
  <2>2. TypeInv'
    <3>1. MachineTypes' /\ CallerTypes'
      BY DEF MachineTypes, CallerTypes, machine, caller, TypeInv
    <3>2. QED  BY <1>2, <3>1 DEF TypeInv, Steps, Searching, Goto
  <2>3. QED
    BY <1>2, <2>1, <2>2 DEF Goto, BorrowInv, RangeInv, SlotInv, ImageInv, machine, caller,
       Based, Placed, Searching, Loaded, Initialised
<1>3. QED  BY <1>1, <1>2

(* The first empty entry, or the N: that is there: it has our marker only  *)
(* if it is ours.                                                          *)
LEMMA Scans == InstallerInv /\ ScanHatabs => InstallerInv'
<1> SUFFICES ASSUME InstallerInv, ScanHatabs PROVE InstallerInv'  OBVIOUS
<1>0. /\ pc = "scan" /\ UNCHANGED <<machine, caller>>
      /\ hatabs' = hatabs /\ memlo' = memlo /\ memory' = memory /\ iocb' = iocb /\ zp' = zp
  BY DEF ScanHatabs, At, machine, caller
<1>1. CASE run' = run /\ Stop("no slot")
  <2>1. "no slot" \notin {"installed", "own"}
    OBVIOUS
  <2>2. \E result : Stop(result) /\ result \notin {"installed", "own"}
    BY <1>1, <2>1
  <2>3. QED  BY <1>0, <1>1, <2>2, Ends
<1>2. CASE \E s \in 1..HatSlots : /\ ScanEndsAt(s) /\ hatabs[s].name = "none"
                                  /\ run' = [run EXCEPT !.slot = s] /\ Goto("ranges")
  <2> USE DEF InstallerInv
  <2> PICK s \in 1..HatSlots : /\ ScanEndsAt(s) /\ hatabs[s].name = "none"
                               /\ run' = [run EXCEPT !.slot = s] /\ Goto("ranges")
    BY <1>2
  <2>1. PublishedInv' /\ ForeignInv' /\ OutcomeInv'
    BY <1>0, WalkStays
  <2>2. /\ IsRun(run') /\ run'.slot = s /\ run'.iocb = run.iocb
        /\ run'.position = run.position /\ run'.buffered = run.buffered
    BY DEF IsRun, TypeInv
  <2>3. TypeInv'
    <3>1. MachineTypes' /\ CallerTypes'
      BY <1>0 DEF MachineTypes, CallerTypes, TypeInv
    <3>2. QED  BY <2>2, <3>1 DEF TypeInv, Steps, Searching, Goto
  <2>4. SlotInv'
    BY <1>0, <2>2 DEF SlotInv, Goto, EarlierTaken, ScanEndsAt, Placed, Based, Loaded
  <2>5. QED
    BY <1>0, <2>1, <2>2, <2>3, <2>4 DEF Goto, BorrowInv, RangeInv, ImageInv,
       Based, Searching, Loaded, Initialised
<1>3. CASE \E s \in 1..HatSlots : /\ ScanEndsAt(s) /\ hatabs[s].name = "N" /\ run' = run
                                  /\ Stop(IF IsOwn(hatabs[s]) THEN "own" ELSE "foreign")
  <2> PICK s \in 1..HatSlots : /\ ScanEndsAt(s) /\ hatabs[s].name = "N" /\ run' = run
                               /\ Stop(IF IsOwn(hatabs[s]) THEN "own" ELSE "foreign")
    BY <1>3
  <2>1. CASE ~IsOwn(hatabs[s])
    BY <1>0, <2>1, Ends
  <2>2. CASE IsOwn(hatabs[s])
    <3> USE DEF InstallerInv
    <3>1. Ours(s) /\ BelowMemlo(s)
      <4>1. /\ hatabs[s].table \in Nat /\ memlo \in Nat /\ memlo <= LoaderStart
            /\ hatabs[s].table < memlo + 1 /\ hatabs[s].table # Rom
            /\ memory[hatabs[s].table] # "foreign"
        <5>1. /\ hatabs[s].table - TableOffset < memlo /\ memory[hatabs[s].table] # "foreign"
          BY <2>2 DEF IsOwn
        <5>2. hatabs[s].table \in Nat /\ memlo \in Nat /\ memlo <= LoaderStart
          BY Types, Constants
        <5>3. QED  BY <5>1, <5>2, Constants
      <4>2. Ours(s)
        BY <4>1 DEF ForeignInv, Ours
      <4>3. QED  BY <1>0, <4>2 DEF PublishedInv
    <3>2. outcome' = "own" /\ pc' = "finish" /\ faulty' = faulty
      BY <2>2 DEF Stop
    <3>3. OutcomeInv'
      <4>1. (Ours(s) /\ BelowMemlo(s))'
        BY <1>0, <3>1 DEF Ours, BelowMemlo
      <4>2. QED  BY <3>2, <4>1 DEF OutcomeInv
    <3>4. PublishedInv' /\ ForeignInv'
      BY <1>0, PublishedStays
    <3>5. TypeInv'
      <4>1. MachineTypes' /\ CallerTypes'
        BY <1>0 DEF MachineTypes, CallerTypes, TypeInv
      <4>2. QED  BY <3>2, <4>1 DEF TypeInv, Steps
    <3>6. QED
      BY <1>0, <3>2, <3>3, <3>4, <3>5 DEF BorrowInv, RangeInv, SlotInv, ImageInv,
         Based, Placed, Searching, Loaded, Initialised
  <2>3. QED  BY <2>1, <2>2
<1>4. QED  BY <1>1, <1>2, <1>3 DEF ScanHatabs

LEMMA CalculatesRanges == InstallerInv /\ CalculateRanges => InstallerInv'
<1> SUFFICES ASSUME InstallerInv, CalculateRanges PROVE InstallerInv'  OBVIOUS
<1> DEFINE base == Aligned(memlo)
<1>0. /\ pc = "ranges" /\ UNCHANGED <<machine, caller>>
      /\ hatabs' = hatabs /\ memlo' = memlo /\ memory' = memory /\ iocb' = iocb /\ zp' = zp
      /\ run' = [run EXCEPT !.base = base, !.end = base + Alloc]
      /\ IF Fits(base + Alloc) THEN Goto("parse") ELSE Stop("memory")
  BY DEF CalculateRanges, At, machine, caller
<1>1. base \in Nat /\ base <= LoaderStart + 1
  BY AlignedBounds, Types, Constants DEF InstallerInv
<1>2. /\ IsRun(run') /\ run'.base = base /\ run'.end = base + Alloc /\ run'.iocb = run.iocb
      /\ run'.slot = run.slot /\ run'.position = run.position /\ run'.buffered = run.buffered
  <2> HIDE DEF base
  <2>1. base \in 0..(LoaderStart + 1) /\ base + Alloc \in 0..(LoaderStart + 1 + Alloc)
    BY <1>1, Constants
  <2>2. QED  BY <1>0, <2>1 DEF IsRun, InstallerInv, TypeInv
<1> HIDE DEF base
<1> USE DEF InstallerInv
<1>3. PublishedInv' /\ ForeignInv' /\ OutcomeInv'
  <2>1. "memory" \notin {"installed", "own"}
    OBVIOUS
  <2>2. (\E step : Goto(step)) \/ \E r : Stop(r) /\ r \notin {"installed", "own"}
    BY <1>0, <2>1
  <2>3. QED  BY <1>0, <2>2, WalkStays
<1>4. TypeInv'
  <2>1. MachineTypes' /\ CallerTypes'
    BY <1>0 DEF MachineTypes, CallerTypes, TypeInv
  <2>2. QED  BY <1>0, <1>2, <2>1 DEF TypeInv, Steps, Searching, Goto, Stop
<1>5. CASE Fits(base + Alloc)
  <2>1. pc' = "parse"
    BY <1>0, <1>5 DEF Goto
  <2>2. RangeInv'
    BY <1>0, <1>2, <1>5 DEF RangeInv, Fits, base
  <2>3. SlotInv'
    BY <1>0, <1>2, <2>1 DEF SlotInv, EarlierTaken, Placed, Based, Loaded
  <2>4. QED
    BY <1>0, <1>2, <1>3, <1>4, <2>1, <2>2, <2>3 DEF BorrowInv, ImageInv,
       Searching, Loaded, Initialised
<1>6. CASE ~Fits(base + Alloc)
  <2>1. pc' = "finish"
    BY <1>0, <1>6 DEF Stop
  <2>2. QED
    BY <1>0, <1>2, <1>3, <1>4, <2>1 DEF BorrowInv, RangeInv, SlotInv, ImageInv,
       Based, Placed, Searching, Loaded, Initialised
<1>7. QED  BY <1>5, <1>6

LEMMA ParsesHeader == InstallerInv /\ ParseHeader => InstallerInv'
<1> SUFFICES ASSUME InstallerInv, ParseHeader PROVE InstallerInv'  OBVIOUS
<1> USE DEF ParseHeader, At
<1>1. CASE Fail("format")
  BY <1>1, Ends DEF caller
<1>2. CASE Goto("load")
  <2> USE DEF InstallerInv
  <2>0. /\ pc = "parse" /\ pc' = "load" /\ run' = run
        /\ hatabs' = hatabs /\ memlo' = memlo /\ memory' = memory /\ iocb' = iocb /\ zp' = zp
    BY <1>2 DEF Goto, machine, caller
  <2>1. PublishedInv' /\ ForeignInv' /\ OutcomeInv'
    BY <1>2, WalkStays
  <2>2. TypeInv'
    <3>1. MachineTypes' /\ CallerTypes'
      BY <2>0 DEF MachineTypes, CallerTypes, TypeInv
    <3>2. QED  BY <1>2, <2>0, <3>1 DEF TypeInv, Steps, Goto
  <2>3. run.position = 0
    BY <2>0 DEF ImageInv, Searching
  <2>4. RangeInv' /\ SlotInv'
    BY <2>0 DEF RangeInv, SlotInv, EarlierTaken, Placed, Based, Loaded, Searching
  <2>5. QED
    BY <2>0, <2>1, <2>2, <2>3, <2>4 DEF BorrowInv, ImageInv,
       Searching, Loaded, Initialised
<1>3. QED  BY <1>1, <1>2

LEMMA DiskFails == InstallerInv /\ DiskError => InstallerInv'
BY Ends DEF DiskError, At

LEMMA MarkerMissing == InstallerInv /\ NoMarker => InstallerInv'
BY Ends DEF NoMarker, At

(* The request never asks for more than the module has left, so that only  *)
(* the disk can fail it.                                                   *)
LEMMA Refills == InstallerInv /\ Refill => InstallerInv'
<1> SUFFICES ASSUME InstallerInv, Refill PROVE InstallerInv'  OBVIOUS
<1> USE DEF InstallerInv
<1>0. /\ pc = "load" /\ run.position < ModuleEnd /\ UNCHANGED <<machine, caller>>
      /\ hatabs' = hatabs /\ memlo' = memlo /\ memory' = memory /\ iocb' = iocb /\ zp' = zp
  BY DEF Refill, At, machine, caller
<1>1. Request \in 0..BufferSize /\ run.position + Request <= ModuleEnd
  <2>1. ModuleEnd - run.position \in Nat
    BY <1>0, Types, Constants
  <2>2. QED  BY <2>1, Types, Constants DEF Request, Lesser
<1>2. run' = [run EXCEPT !.buffered = Request] /\ Goto("load")
  BY <1>1 DEF Refill
<1> HIDE DEF Request
<1>3. /\ IsRun(run') /\ run'.base = run.base /\ run'.end = run.end /\ run'.iocb = run.iocb
      /\ run'.slot = run.slot /\ run'.position = run.position
  BY <1>1, <1>2 DEF IsRun, TypeInv
<1>4. pc' = "load"
  BY <1>2 DEF Goto
<1>5. PublishedInv' /\ ForeignInv' /\ OutcomeInv'
  BY <1>0, <1>2, WalkStays
<1>6. TypeInv'
  <2>1. MachineTypes' /\ CallerTypes'
    BY <1>0 DEF MachineTypes, CallerTypes, TypeInv
  <2>2. QED  BY <1>2, <1>3, <2>1 DEF TypeInv, Steps, Goto
<1>7. RangeInv' /\ SlotInv'
  BY <1>0, <1>3, <1>4 DEF RangeInv, SlotInv, EarlierTaken, Placed, Based
<1>8. QED
  BY <1>0, <1>3, <1>4, <1>5, <1>6, <1>7 DEF BorrowInv, ImageInv, Searching, Loaded, Initialised

LEMMA ValidatesVectors == InstallerInv /\ ValidateVectors => InstallerInv'
<1> SUFFICES ASSUME InstallerInv, ValidateVectors PROVE InstallerInv'  OBVIOUS
<1> USE DEF ValidateVectors, At
<1>1. CASE Fail("format")
  BY <1>1, Ends DEF caller
<1>2. CASE Goto(PublishOrder[1])
  <2> USE DEF InstallerInv
  <2>0. /\ pc = "validate" /\ pc' = "vector" /\ run' = run
        /\ hatabs' = hatabs /\ memlo' = memlo /\ memory' = memory /\ iocb' = iocb /\ zp' = zp
    BY <1>2, PublishSteps DEF Goto, machine, caller
  <2>1. PublishedInv' /\ ForeignInv' /\ OutcomeInv'
    BY <1>2, WalkStays
  <2>2. TypeInv'
    <3>1. MachineTypes' /\ CallerTypes'
      BY <2>0 DEF MachineTypes, CallerTypes, TypeInv
    <3>2. QED  BY <1>2, <2>0, <3>1 DEF TypeInv, Steps, Loaded, Goto
  <2>3. RangeInv' /\ SlotInv'
    BY <2>0 DEF RangeInv, SlotInv, EarlierTaken, Placed, Based, Loaded
  <2>4. QED
    BY <2>0, <2>1, <2>2, <2>3 DEF BorrowInv, ImageInv, Searching, Loaded, Initialised
<1>3. QED  BY <1>1, <1>2

-----------------------------------------------------------------------------
(* What the installer stores goes into the image's cells, which are free.  *)
LEMMA StoresInImage ==
  ASSUME InstallerInv, pc \in Based \ {"raise"}, UNCHANGED <<hatabs, memlo>>,
         NEW cells, Store(cells), \A a \in DOMAIN cells : cells[a] \in Contents,
         DOMAIN cells \subseteq {run.base, run.base + 1, run.base + 2}
  PROVE  /\ MachineTypes' /\ PublishedInv' /\ ForeignInv'
         /\ {run.base, run.base + 1, run.base + 2} \subseteq Addresses
         /\ \A a \in Addresses \ DOMAIN cells : memory'[a] = memory[a]
         /\ \A a \in DOMAIN cells : memory'[a] = cells[a]
<1> USE DEF InstallerInv
<1>1. /\ memlo \in Nat /\ run.base \in Nat /\ memlo <= run.base /\ run.base + 2 < LoaderStart
  <2>1. run.base = Aligned(memlo) /\ run.end = run.base + Alloc /\ run.end <= LoaderStart
    BY DEF RangeInv
  <2>2. QED  BY <2>1, Types, Constants, AlignedBounds
<1>2. {run.base, run.base + 1, run.base + 2} \subseteq Addresses
  BY <1>1, Constants DEF Addresses
<1>3. /\ memory' \in [Addresses -> {"junk", "loader"} \cup Contents]
      /\ \A a \in Addresses \ DOMAIN cells : memory'[a] = memory[a]
      /\ \A a \in Addresses \cap DOMAIN cells : memory'[a] = cells[a]
  BY Stores
<1>4. MachineTypes'
  BY <1>3 DEF MachineTypes, TypeInv, Contents
<1>5. \A a \in Addresses : a < memlo => memory'[a] = memory[a]
  BY <1>1, <1>3, Constants DEF Addresses
<1>6. PublishedInv' /\ ForeignInv'
  BY <1>5, PublishedStays
<1>7. QED  BY <1>2, <1>3, <1>4, <1>6

LEMMA SectionAt ==
  /\ Sections[5] = "text relocations" /\ Sections[6] = "data relocations"
  /\ Sections[7] = "exports"
BY DEF Sections

LEMMA Loads == InstallerInv /\ Load => InstallerInv'
<1> SUFFICES ASSUME InstallerInv, Load PROVE InstallerInv'  OBVIOUS
<1> USE DEF InstallerInv
<1> DEFINE section == Sections[run.position + 1]  cells == Effect(section, run.base)
<1>0. /\ pc = "load" /\ run.buffered > 0 /\ Store(cells)
      /\ run' = [run EXCEPT !.position = @ + 1, !.buffered = @ - 1]
      /\ Goto(IF run.position + 1 = ModuleEnd THEN "prepare" ELSE "load")
      /\ hatabs' = hatabs /\ memlo' = memlo /\ iocb' = iocb /\ zp' = zp
  BY DEF Load, At, caller
<1>1. /\ IsRun(run') /\ run'.base = run.base /\ run'.end = run.end /\ run'.iocb = run.iocb
      /\ run'.slot = run.slot /\ run'.position = run.position + 1
      /\ run.position \in 0..6
  <2>1. /\ run.position \in Nat /\ run.buffered \in Nat /\ run.position + 1 <= ModuleEnd
        /\ (run.position + 1) + (run.buffered - 1) <= ModuleEnd
    BY <1>0, Types, Constants
  <2>2. run.position + 1 \in 0..ModuleEnd /\ run.buffered - 1 \in 0..BufferSize
    BY <1>0, <2>1, Constants DEF IsRun, TypeInv
  <2>3. /\ run'.base = run.base /\ run'.end = run.end /\ run'.iocb = run.iocb
        /\ run'.slot = run.slot /\ run'.position = run.position + 1
        /\ run'.buffered = run.buffered - 1
    BY <1>0 DEF IsRun, TypeInv
  <2>4. run' \in [iocb : 0..Iocbs, slot : 1..HatSlots,
                 base : 0..(LoaderStart + 1), end : 0..(LoaderStart + 1 + Alloc),
                 position : 0..ModuleEnd, buffered : 0..BufferSize]
    BY <1>0, <2>2 DEF IsRun, TypeInv
  <2>5. QED  BY <2>1, <2>3, <2>4, Constants DEF IsRun
<1>2. /\ pc' = IF run.position + 1 = 7 THEN "prepare" ELSE "load"
      /\ outcome' = outcome /\ faulty' = faulty
  BY <1>0, Constants DEF Goto
<1>3. /\ DOMAIN cells \subseteq {run.base, run.base + 1, run.base + 2}
      /\ \A a \in DOMAIN cells : cells[a] \in Contents
  BY Effects, Types
<1>4. /\ MachineTypes' /\ PublishedInv' /\ ForeignInv'
      /\ {run.base, run.base + 1, run.base + 2} \subseteq Addresses
      /\ \A a \in Addresses \ DOMAIN cells : memory'[a] = memory[a]
      /\ \A a \in DOMAIN cells : memory'[a] = cells[a]
  <2> HIDE DEF cells
  <2>1. pc \in Based \ {"raise"}
    BY <1>0 DEF Based
  <2>2. QED  BY <1>0, <1>3, <2>1, StoresInImage
<1>5. OutcomeInv'
  BY <1>0, <1>2, OutcomeStays
<1>6. TypeInv'
  <2>1. CallerTypes'
    BY <1>0 DEF CallerTypes, TypeInv
  <2>2. QED  BY <1>1, <1>2, <1>4, <2>1 DEF TypeInv, Steps, Loaded
<1>7. RangeInv' /\ SlotInv' /\ BorrowInv'
  BY <1>0, <1>1, <1>2 DEF RangeInv, SlotInv, BorrowInv, EarlierTaken, Placed, Based, Loaded
(* TEXT is relocated by the fifth section, DATA by the sixth.              *)
<1>8. /\ run.position >= 4 => memory'[run.base] = "text"
      /\ run.position >= 5 => memory'[run.base + 1] = "data"
  <2>0. run.base \in Nat
    BY Types
  <2>1. CASE run.position = 4
    <3>0. section = "text relocations"
      <4>1. run.position + 1 = 5
        BY <2>1
      <4>2. QED  BY <4>1, SectionAt
    <3> HIDE DEF section
    <3>1. cells = [a \in {run.base} |-> "text"]
      BY <3>0 DEF Effect
    <3>2. QED  BY <1>4, <2>1, <3>1
  <2>2. CASE run.position = 5
    <3>0. section = "data relocations"
      <4>1. run.position + 1 = 6
        BY <2>2
      <4>2. QED  BY <4>1, SectionAt
    <3> HIDE DEF section
    <3>1. cells = [a \in {run.base + 1} |-> "data"]
      BY <3>0 DEF Effect
    <3>2. DOMAIN cells = {run.base + 1} /\ cells[run.base + 1] = "data"
      BY <3>1
    <3>3. memory[run.base] = "text"
      BY <1>0, <2>2 DEF ImageInv
    <3> HIDE DEF cells
    <3>4. memory'[run.base] = "text"
      BY <1>4, <2>0, <3>2, <3>3
    <3>5. QED  BY <1>4, <3>2, <3>4
  <2>3. CASE run.position = 6
    <3>0. section = "exports"
      <4>1. run.position + 1 = 7
        BY <2>3
      <4>2. QED  BY <4>1, SectionAt
    <3> HIDE DEF section
    <3>1. cells = <<>>
      BY <3>0 DEF Effect
    <3>2. DOMAIN cells = {}
      BY <3>1
    <3>3. memory[run.base] = "text" /\ memory[run.base + 1] = "data"
      BY <1>0, <2>3 DEF ImageInv
    <3> HIDE DEF cells
    <3>4. QED  BY <1>4, <3>2, <3>3
  <2>4. QED  BY <1>1, <2>1, <2>2, <2>3
<1>9. ImageInv'
  BY <1>1, <1>2, <1>8 DEF ImageInv, Searching, Loaded, Initialised
<1>10. QED  BY <1>4, <1>5, <1>6, <1>7, <1>9

LEMMA GivesUp == InstallerInv /\ BadSection => InstallerInv'
<1> SUFFICES ASSUME InstallerInv, BadSection PROVE InstallerInv'  OBVIOUS
<1> DEFINE cells == Effect(Sections[run.position + 1], run.base)
<1>0. /\ pc = "load" /\ run' = run /\ Fail("format")
      /\ hatabs' = hatabs /\ memlo' = memlo /\ iocb' = iocb /\ zp' = zp
      /\ memory' = memory \/ Store(cells)
  BY DEF BadSection, At, caller
<1>1. CASE memory' = memory
  BY <1>0, <1>1, Ends DEF machine, caller
<1>2. CASE Store(cells)
  <2> USE DEF InstallerInv
  <2>1. MachineTypes' /\ PublishedInv' /\ ForeignInv'
    <3>1. /\ DOMAIN cells \subseteq {run.base, run.base + 1, run.base + 2}
          /\ \A a \in DOMAIN cells : cells[a] \in Contents
      BY Effects, Types
    <3> HIDE DEF cells
    <3>2. pc \in Based \ {"raise"}
      BY <1>0 DEF Based
    <3>3. QED  BY <1>0, <1>2, <3>1, <3>2, StoresInImage
  <2>2. pc' = "finish" /\ outcome' = "format" /\ faulty' = TRUE
    BY <1>0 DEF Fail
  <2>3. OutcomeInv'
    BY <2>2 DEF OutcomeInv
  <2>4. TypeInv'
    <3>1. CallerTypes'
      BY <1>0 DEF CallerTypes, TypeInv
    <3>2. QED  BY <1>0, <2>1, <2>2, <3>1 DEF TypeInv, Steps
  <2>5. QED
    BY <1>0, <2>1, <2>2, <2>3, <2>4 DEF BorrowInv, RangeInv, SlotInv, ImageInv,
       Based, Placed, Searching, Loaded, Initialised
<1>3. QED  BY <1>0, <1>1, <1>2

LEMMA Prepares == InstallerInv /\ Prepare => InstallerInv'
<1> SUFFICES ASSUME InstallerInv, Prepare PROVE InstallerInv'  OBVIOUS
<1> USE DEF InstallerInv
<1> DEFINE cells == [a \in {run.base + 2} |-> "bss"]
<1>0. /\ pc = "prepare" /\ run' = run /\ Store(cells) /\ zp' = "module" /\ iocb' = iocb
      /\ hatabs' = hatabs /\ memlo' = memlo
      /\ Goto("validate") \/ Fail("init")
  BY DEF Prepare, At
<1>1. DOMAIN cells = {run.base + 2} /\ cells[run.base + 2] = "bss" /\ "bss" \in Contents
  BY DEF Contents
<1> HIDE DEF cells
<1>2. /\ MachineTypes' /\ PublishedInv' /\ ForeignInv'
      /\ {run.base, run.base + 1, run.base + 2} \subseteq Addresses
      /\ \A a \in Addresses \ DOMAIN cells : memory'[a] = memory[a]
      /\ \A a \in DOMAIN cells : memory'[a] = cells[a]
  <2>1. pc \in Based \ {"raise"}
    BY <1>0 DEF Based, Loaded
  <2>2. QED  BY <1>0, <1>1, <2>1, StoresInImage
<1>3. /\ memory'[run.base] = "text" /\ memory'[run.base + 1] = "data"
      /\ memory'[run.base + 2] = "bss"
  <2>1. memory[run.base] = "text" /\ memory[run.base + 1] = "data"
    BY <1>0 DEF ImageInv, Loaded
  <2>2. QED  BY <1>1, <1>2, <2>1, Types
<1>4. (pc' = "validate" \/ pc' = "finish") /\ faulty' \in BOOLEAN
  BY <1>0 DEF Goto, Fail, TypeInv
<1>5. OutcomeInv'
  <2>1. \/ outcome' = outcome /\ faulty' = faulty
        \/ outcome' \notin {"installed", "own"} /\ (outcome' = "format" => faulty')
    BY <1>0 DEF Goto, Fail
  <2>2. QED  BY <1>0, <2>1, OutcomeStays
<1>6. TypeInv'
  <2>1. CallerTypes'
    BY <1>0 DEF CallerTypes, TypeInv
  <2>2. QED  BY <1>0, <1>2, <1>4, <2>1 DEF TypeInv, Steps, Loaded
<1>7. RangeInv' /\ SlotInv' /\ BorrowInv'
  BY <1>0, <1>4 DEF RangeInv, SlotInv, BorrowInv, EarlierTaken, Placed, Based, Loaded
<1>8. ImageInv'
  BY <1>0, <1>3, <1>4 DEF ImageInv, Searching, Loaded, Initialised
<1>9. QED  BY <1>2, <1>5, <1>6, <1>7, <1>8

-----------------------------------------------------------------------------
(* The entry's vector: no handler is found in it yet.                      *)
LEMMA PublishesVector == InstallerInv /\ PublishVector => InstallerInv'
<1> SUFFICES ASSUME InstallerInv, PublishVector PROVE InstallerInv'  OBVIOUS
<1> USE DEF InstallerInv
<1> DEFINE s == run.slot
<1>0. /\ pc = "vector" /\ pc' = "name" /\ run' = run /\ outcome' = outcome /\ faulty' = faulty
      /\ memlo' = memlo /\ memory' = memory /\ iocb' = iocb /\ zp' = zp
      /\ hatabs' = [hatabs EXCEPT ![s].table = run.base + TableOffset]
  BY PublishSteps DEF PublishVector, At, Goto, caller
<1>1. s \in 1..HatSlots /\ hatabs[s].name = "none"
  BY <1>0, Types DEF SlotInv, Placed, Based, Loaded
<1>2. run.base + TableOffset \in 0..Rom
  BY <1>0, Types, Constants DEF RangeInv, Based, Loaded
<1> HIDE DEF s
<1>3. /\ hatabs' \in [1..HatSlots -> Entry]
      /\ hatabs'[s].name = "none" /\ hatabs'[s].table = run.base + TableOffset
      /\ \A t \in 1..HatSlots : hatabs'[t].name = hatabs[t].name /\ hatabs'[t].by = hatabs[t].by
      /\ \A t \in (1..HatSlots) \ {s} : hatabs'[t] = hatabs[t]
  <2>1. hatabs \in [1..HatSlots -> Entry]
    BY DEF TypeInv, MachineTypes
  <2>2. [hatabs[s] EXCEPT !.table = run.base + TableOffset] \in Entry
    BY <1>1, <1>2, <2>1 DEF Entry
  <2>3. \A t \in 1..HatSlots :
          hatabs'[t] = IF t = s THEN [hatabs[s] EXCEPT !.table = run.base + TableOffset]
                       ELSE hatabs[t]
    BY <1>0, <2>1
  <2>4. \A e \in Entry : LET f == [e EXCEPT !.table = run.base + TableOffset]
                         IN  /\ f.name = e.name /\ f.by = e.by
                             /\ f.table = run.base + TableOffset
    BY DEF Entry
  <2>5. QED  BY <1>0, <1>1, <2>1, <2>2, <2>3, <2>4
<1>4. \A t \in 1..HatSlots : hatabs'[t].name = "N" => t # s /\ hatabs'[t] = hatabs[t]
  BY <1>3
<1>5. PublishedInv'
  <2> SUFFICES ASSUME NEW t \in 1..HatSlots, Ours(t)'
               PROVE  /\ hatabs'[t].table > 0 /\ Complete(hatabs[t].table - TableOffset)'
                      /\ BelowMemlo(t)'
    BY DEF PublishedInv
  <2>1. hatabs'[t] = hatabs[t] /\ Ours(t)
    BY <1>4 DEF Ours
  <2>2. QED  BY <1>0, <2>1 DEF PublishedInv, Complete, BelowMemlo
<1>6. ForeignInv'
  BY <1>0, <1>4 DEF ForeignInv
<1>7. OutcomeInv'
  <2>1. \A t \in 1..HatSlots : Ours(t) /\ BelowMemlo(t) => (Ours(t) /\ BelowMemlo(t))'
    BY <1>0, <1>1, <1>3 DEF Ours, BelowMemlo
  <2>2. QED  BY <1>0, <2>1 DEF OutcomeInv
<1>8. TypeInv'
  <2>1. MachineTypes' /\ CallerTypes'
    BY <1>0, <1>3 DEF MachineTypes, CallerTypes, TypeInv
  <2>2. QED  BY <1>0, <2>1 DEF TypeInv, Steps, Loaded
<1>9. SlotInv'
  <2>1. EarlierTaken(s)
    BY <1>0 DEF SlotInv, Placed, Based, Loaded, s
  <2>2. \A t \in 1..(s - 1) : hatabs'[t].name = hatabs[t].name
    BY <1>1, <1>3, Constants
  <2>3. QED  BY <1>0, <1>3, <2>1, <2>2 DEF SlotInv, EarlierTaken, s
<1>10. RangeInv' /\ BorrowInv' /\ ImageInv'
  BY <1>0 DEF RangeInv, BorrowInv, ImageInv, Based, Loaded, Searching, Initialised
<1>11. QED  BY <1>5, <1>6, <1>7, <1>8, <1>9, <1>10

(* The name: from here on the handler is found, and it is complete.        *)
LEMMA PublishesName == InstallerInv /\ PublishName => InstallerInv'
<1> SUFFICES ASSUME InstallerInv, PublishName PROVE InstallerInv'  OBVIOUS
<1> USE DEF InstallerInv
<1> DEFINE s == run.slot
<1>0. /\ pc = "name" /\ pc' = "raise" /\ run' = run /\ outcome' = outcome /\ faulty' = faulty
      /\ memlo' = memlo /\ memory' = memory /\ iocb' = iocb /\ zp' = zp
      /\ hatabs' = [hatabs EXCEPT ![s].name = "N", ![s].by = "loader"]
  BY PublishSteps DEF PublishName, At, Goto, caller
<1>1. /\ s \in 1..HatSlots /\ hatabs[s].name = "none"
      /\ hatabs[s].table = run.base + TableOffset
  BY <1>0, Types DEF SlotInv, Placed, Based, Loaded
<1>2. /\ run.base \in Nat /\ run.base + Alloc <= LoaderStart
      /\ Complete(run.base)
  <2>1. run.base \in Nat /\ run.base + Alloc <= LoaderStart
    BY <1>0, Types DEF RangeInv, Based, Loaded
  <2>2. QED  BY <1>0, <2>1, Constants DEF ImageInv, Loaded, Initialised, Complete
<1> HIDE DEF s
<1>3. /\ hatabs' \in [1..HatSlots -> Entry]
      /\ hatabs'[s].name = "N" /\ hatabs'[s].by = "loader"
      /\ hatabs'[s].table = run.base + TableOffset
      /\ \A t \in (1..HatSlots) \ {s} : hatabs'[t] = hatabs[t]
  <2>1. hatabs \in [1..HatSlots -> Entry]
    BY DEF TypeInv, MachineTypes
  <2>2. \A e \in Entry : LET f == [e EXCEPT !.name = "N"]
                             g == [f EXCEPT !.by = "loader"]
                         IN  /\ g \in Entry /\ g.name = "N" /\ g.by = "loader"
                             /\ g.table = e.table
    BY DEF Entry
  <2>3. hatabs' = [hatabs EXCEPT ![s] = [[hatabs[s] EXCEPT !.name = "N"] EXCEPT !.by = "loader"]]
    BY <1>0, <1>1, <2>1
  <2>4. QED  BY <1>1, <2>1, <2>2, <2>3
<1>4. PublishedInv'
  <2> SUFFICES ASSUME NEW t \in 1..HatSlots, Ours(t)'
               PROVE  /\ hatabs'[t].table > 0 /\ Complete(hatabs[t].table - TableOffset)'
                      /\ BelowMemlo(t)' \/ (pc' = "raise" /\ t = run'.slot)
    BY DEF PublishedInv
  <2>1. CASE t = s
    <3>1. hatabs'[t].table - TableOffset = run.base /\ hatabs'[t].table > 0
      BY <1>2, <1>3, <2>1, Constants
    <3>2. QED  BY <1>0, <1>2, <2>1, <3>1 DEF Complete, s
  <2>2. CASE t # s
    <3>1. hatabs'[t] = hatabs[t] /\ Ours(t)
      BY <1>3, <2>2 DEF Ours
    <3>2. QED  BY <1>0, <3>1 DEF PublishedInv, Complete, BelowMemlo
  <2>3. QED  BY <2>1, <2>2
<1>5. ForeignInv'
  BY <1>0, <1>3 DEF ForeignInv
<1>6. OutcomeInv'
  <2>1. \A t \in 1..HatSlots : Ours(t) /\ BelowMemlo(t) => (Ours(t) /\ BelowMemlo(t))'
    BY <1>0, <1>1, <1>3 DEF Ours, BelowMemlo
  <2>2. QED  BY <1>0, <2>1 DEF OutcomeInv
<1>7. TypeInv'
  <2>1. MachineTypes' /\ CallerTypes'
    BY <1>0, <1>3 DEF MachineTypes, CallerTypes, TypeInv
  <2>2. QED  BY <1>0, <2>1 DEF TypeInv, Steps, Loaded
<1>8. SlotInv'
  BY <1>0, <1>3 DEF SlotInv, Placed, s
<1>9. RangeInv' /\ BorrowInv' /\ ImageInv'
  BY <1>0 DEF RangeInv, BorrowInv, ImageInv, Based, Loaded, Searching, Initialised
<1>10. QED  BY <1>4, <1>5, <1>6, <1>7, <1>8, <1>9

LEMMA RaisesMemlo == InstallerInv /\ RaiseMemlo => InstallerInv'
<1> SUFFICES ASSUME InstallerInv, RaiseMemlo PROVE InstallerInv'  OBVIOUS
<1> USE DEF InstallerInv
<1>0. /\ pc = "raise" /\ pc' = "finish" /\ run' = run /\ outcome' = "installed" /\ faulty' = faulty
      /\ memlo' = run.end /\ hatabs' = hatabs /\ memory' = memory /\ iocb' = iocb /\ zp' = zp
  BY PublishSteps DEF RaiseMemlo, At, caller
<1>1. /\ run.base = Aligned(memlo) /\ run.end = run.base + Alloc /\ run.end <= LoaderStart
      /\ run.base \in Nat /\ memlo \in Nat /\ memlo <= run.base
  BY <1>0, Types, AlignedBounds DEF RangeInv, Based, Loaded
<1>2. Ours(run.slot)' /\ BelowMemlo(run.slot)' /\ run.slot \in 1..HatSlots
  <2>1. /\ hatabs[run.slot].name = "N" /\ hatabs[run.slot].by = "loader"
        /\ hatabs[run.slot].table = run.base + TableOffset /\ run.slot \in 1..HatSlots
    BY <1>0, Types DEF SlotInv
  <2>2. QED  BY <1>0, <1>1, <2>1, Constants DEF Ours, BelowMemlo
<1>3. PublishedInv'
  <2> SUFFICES ASSUME NEW t \in 1..HatSlots, Ours(t)
               PROVE  /\ hatabs[t].table > 0 /\ Complete(hatabs[t].table - TableOffset)'
                      /\ BelowMemlo(t)'
    BY <1>0 DEF PublishedInv, Ours
  <2>1. /\ hatabs[t].table > 0 /\ Complete(hatabs[t].table - TableOffset)
        /\ BelowMemlo(t) \/ t = run.slot
    BY DEF PublishedInv
  <2>2. BelowMemlo(t)'
    <3>1. hatabs[t].table \in Nat
      BY Types, Constants
    <3>2. QED  BY <1>0, <1>1, <1>2, <2>1, <3>1, Constants DEF BelowMemlo
  <2>3. QED  BY <1>0, <2>1, <2>2 DEF Complete
<1>4. ForeignInv'
  <2>1. \A t \in 1..HatSlots : hatabs[t].table \in Nat
    BY Types, Constants
  <2>2. QED  BY <1>0, <1>1, <2>1, Constants DEF ForeignInv
<1>5. OutcomeInv'
  BY <1>0, <1>2 DEF OutcomeInv
<1>6. TypeInv'
  <2>1. MachineTypes'
    <3>1. run.end \in 0..LoaderStart
      BY <1>1, Constants
    <3>2. QED  BY <1>0, <3>1 DEF MachineTypes, TypeInv
  <2>2. CallerTypes'
    BY <1>0 DEF CallerTypes, TypeInv
  <2>3. QED  BY <1>0, <2>1, <2>2 DEF TypeInv, Steps
<1>7. QED
  BY <1>0, <1>3, <1>4, <1>5, <1>6 DEF BorrowInv, RangeInv, SlotInv, ImageInv,
     Based, Placed, Searching, Loaded, Initialised

LEMMA Finishes == InstallerInv /\ Finish => InstallerInv'
<1> SUFFICES ASSUME InstallerInv, Finish PROVE InstallerInv'  OBVIOUS
<1> USE DEF InstallerInv
<1>0. /\ pc = "finish" /\ pc' = "rest" /\ run' = NoRun /\ outcome' = outcome /\ faulty' = faulty
      /\ memlo' = memlo /\ hatabs' = hatabs /\ memory' = memory
      /\ iocb' = RestoreIocb /\ zp' = "caller"
  BY DEF Finish, At, machine
<1>1. /\ iocb' \in [1..Iocbs -> {"free", "user", "borrowed", "open"}]
      /\ \A i \in 1..Iocbs : iocb'[i] \in {"free", "user"}
  BY <1>0, Types DEF RestoreIocb, BorrowInv, TypeInv, CallerTypes
<1>2. PublishedInv' /\ ForeignInv'
  BY <1>0, PublishedStays
<1>3. OutcomeInv'
  BY <1>0, OutcomeStays
<1>4. TypeInv'
  <2>1. MachineTypes' /\ CallerTypes'
    BY <1>0, <1>1 DEF MachineTypes, CallerTypes, TypeInv
  <2>2. QED  BY <1>0, <2>1, NoRunTypes DEF TypeInv, Steps
<1>5. QED
  BY <1>0, <1>1, <1>2, <1>3, <1>4 DEF BorrowInv, RangeInv, SlotInv, ImageInv,
     Based, Placed, Searching, Loaded, Initialised

-----------------------------------------------------------------------------
(* Other programs, and RESET.                                              *)
LEMMA UserOpensOrCloses ==
  ASSUME InstallerInv, NEW i \in 1..Iocbs, UserIocb(i)
  PROVE  InstallerInv'
<1> USE DEF InstallerInv
<1>0. /\ pc = "rest" /\ pc' = "rest" /\ run' = run /\ outcome' = outcome /\ faulty' = faulty
      /\ memlo' = memlo /\ hatabs' = hatabs /\ memory' = memory /\ zp' = zp
      /\ \/ iocb' = [iocb EXCEPT ![i] = "user"]
         \/ iocb' = [iocb EXCEPT ![i] = "free"]
  BY DEF UserIocb, At, machine
<1>1. /\ iocb' \in [1..Iocbs -> {"free", "user", "borrowed", "open"}]
      /\ \A j \in 1..Iocbs : iocb'[j] = iocb[j] \/ iocb'[j] \in {"free", "user"}
  BY <1>0 DEF TypeInv, CallerTypes
<1>2. PublishedInv' /\ ForeignInv'
  BY <1>0, PublishedStays
<1>3. OutcomeInv'
  BY <1>0, OutcomeStays
<1>4. TypeInv'
  <2>1. MachineTypes' /\ CallerTypes'
    BY <1>0, <1>1 DEF MachineTypes, CallerTypes, TypeInv
  <2>2. QED  BY <1>0, <2>1 DEF TypeInv
<1>5. BorrowInv'
  BY <1>0, <1>1 DEF BorrowInv
<1>6. QED
  BY <1>0, <1>2, <1>3, <1>4, <1>5 DEF RangeInv, SlotInv, ImageInv,
     Based, Placed, Searching, Loaded, Initialised

LEMMA OthersInstall ==
  ASSUME InstallerInv, NEW s \in 1..HatSlots, OtherHandler(s)
  PROVE  InstallerInv'
<1> USE DEF InstallerInv
<1> DEFINE cells == [a \in {memlo} |-> "foreign"]
           E(name, t) == [name |-> name, table |-> t, by |-> "other"]
<1>0. /\ pc = "rest" /\ pc' = "rest" /\ run' = run /\ outcome' = outcome /\ faulty' = faulty
      /\ iocb' = iocb /\ zp' = zp /\ hatabs[s].name = "none"
  BY DEF OtherHandler, At, caller
<1>1. PICK name \in {"N", "P"} :
        \/ /\ memlo < LoaderStart /\ memlo' = memlo + 1 /\ Store(cells)
           /\ hatabs' = [hatabs EXCEPT ![s] = E(name, memlo)]
        \/ hatabs' = [hatabs EXCEPT ![s] = E(name, Rom)] /\ UNCHANGED <<memlo, memory>>
  BY DEF OtherHandler
<1>2. memlo \in Nat /\ memlo <= LoaderStart /\ memlo \in 0..Rom /\ Rom \in 0..Rom
  BY Types, Constants
<1>3. PICK t \in {memlo, Rom} :
        /\ hatabs' = [hatabs EXCEPT ![s] = E(name, t)]
        /\ memlo' \in 0..LoaderStart /\ memlo <= memlo'
        /\ memory' \in [Addresses -> {"junk", "loader"} \cup Contents]
        /\ \A a \in Addresses : a < memlo => memory'[a] = memory[a]
        /\ t = Rom \/ (t < memlo' /\ memory'[t] = "foreign")
  <2>1. CASE /\ memlo < LoaderStart /\ memlo' = memlo + 1 /\ Store(cells)
             /\ hatabs' = [hatabs EXCEPT ![s] = E(name, memlo)]
    <3>1. DOMAIN cells = {memlo} /\ cells[memlo] = "foreign" /\ "foreign" \in Contents
      BY DEF Contents
    <3> HIDE DEF cells, E
    <3>2. /\ memory' \in [Addresses -> {"junk", "loader"} \cup Contents]
          /\ \A a \in Addresses \ {memlo} : memory'[a] = memory[a]
          /\ \A a \in Addresses \cap {memlo} : memory'[a] = "foreign"
      BY <2>1, <3>1, Stores
    <3>3. memlo \in Addresses /\ memlo < memlo' /\ memlo' \in 0..LoaderStart
      BY <1>2, <2>1, Constants DEF Addresses
    <3>4. QED  BY <1>2, <2>1, <3>2, <3>3 DEF Addresses
  <2>2. CASE hatabs' = [hatabs EXCEPT ![s] = E(name, Rom)] /\ UNCHANGED <<memlo, memory>>
    <3> HIDE DEF E
    <3>1. memory' \in [Addresses -> {"junk", "loader"} \cup Contents] /\ memlo' \in 0..LoaderStart
      BY <2>2 DEF Contents, TypeInv, MachineTypes
    <3>2. QED  BY <1>2, <2>2, <3>1
  <2>3. QED  BY <1>1, <2>1, <2>2
<1>4. E(name, t) \in Entry
  BY <1>2 DEF Entry
<1>5. /\ hatabs' \in [1..HatSlots -> Entry] /\ hatabs'[s].by = "other" /\ hatabs'[s].table = t
      /\ \A u \in (1..HatSlots) \ {s} : hatabs'[u] = hatabs[u]
  <2>1. hatabs'[s] = E(name, t)
    BY <1>3 DEF TypeInv, MachineTypes
  <2>2. E(name, t).by = "other" /\ E(name, t).table = t
    OBVIOUS
  <2> HIDE DEF E
  <2>3. QED  BY <1>3, <1>4, <2>1, <2>2 DEF TypeInv, MachineTypes
<1> HIDE DEF E, cells
<1>6. PublishedInv'
  <2> SUFFICES ASSUME NEW u \in 1..HatSlots, Ours(u)'
               PROVE  /\ hatabs'[u].table > 0 /\ Complete(hatabs[u].table - TableOffset)'
                      /\ BelowMemlo(u)'
    BY DEF PublishedInv
  <2>1. u # s /\ hatabs'[u] = hatabs[u]
    BY <1>5 DEF Ours
  <2>2. /\ hatabs[u].table > 0 /\ Complete(hatabs[u].table - TableOffset) /\ BelowMemlo(u)
    BY <1>0, <2>1 DEF PublishedInv, Ours
  <2> DEFINE v == hatabs[u].table
  <2>3. v \in Nat /\ v > 0 /\ v + 2 <= memlo /\ v - TableOffset + Alloc <= memlo
    <3>1. v \in Nat /\ v > 0
      BY <2>2, Types, Constants
    <3>2. v - TableOffset + Alloc <= memlo
      BY <2>2 DEF BelowMemlo
    <3> HIDE DEF v
    <3>3. QED  BY <1>2, <3>1, <3>2, Constants
  <2>8. memlo <= memlo' /\ memlo' \in Nat
    BY <1>3, Constants
  <2>4. memory'[v - 1] = memory[v - 1] /\ memory'[v] = memory[v] /\ memory'[v + 1] = memory[v + 1]
    <3> HIDE DEF v
    <3>1. /\ v - 1 \in Addresses /\ v \in Addresses /\ v + 1 \in Addresses
          /\ v - 1 < memlo /\ v < memlo /\ v + 1 < memlo
      BY <1>2, <2>3, Constants DEF Addresses
    <3>2. QED  BY <1>3, <3>1
  <2>5. BelowMemlo(u)'
    <3>1. v - TableOffset + Alloc <= memlo'
      <4> HIDE DEF v
      <4>1. QED  BY <1>2, <2>3, <2>8, Constants
    <3>2. QED  BY <2>1, <3>1 DEF BelowMemlo
  <2>6. Complete(hatabs[u].table - TableOffset)'
    BY <2>1, <2>2, <2>3, <2>4, Constants DEF Complete
  <2>7. QED  BY <2>1, <2>2, <2>5, <2>6
<1>7. ForeignInv'
  <2> SUFFICES ASSUME NEW u \in 1..HatSlots, hatabs'[u].name = "N", hatabs'[u].by # "loader"
               PROVE  hatabs'[u].table = Rom
                        \/ (hatabs'[u].table < memlo' /\ memory'[hatabs'[u].table] = "foreign")
    BY DEF ForeignInv
  <2>1. CASE u = s
    BY <1>3, <1>5, <2>1
  <2>2. CASE u # s
    <3>1. hatabs'[u] = hatabs[u]
      BY <1>5, <2>2
    <3>7. hatabs[u].table \in 0..Rom
      BY Types
    <3>8. hatabs[u].table \in Nat
      <4> DEFINE v == hatabs[u].table
      <4>1. v \in 0..Rom /\ Rom \in Nat
        BY <3>7, Constants
      <4> HIDE DEF v
      <4>2. v \in Nat
        BY <4>1
      <4>3. QED  BY <4>2 DEF v
    <3>2. \/ hatabs[u].table = Rom
          \/ hatabs[u].table < memlo /\ memory[hatabs[u].table] = "foreign"
      BY <3>1 DEF ForeignInv
    <3>3. memlo' \in Nat
      BY <1>3, Constants
    <3>4. memlo <= memlo'
      BY <1>3
    <3>5. CASE hatabs[u].table < memlo /\ memory[hatabs[u].table] = "foreign"
      <4>1. hatabs[u].table \in Addresses /\ hatabs[u].table < memlo'
        BY <1>2, <3>8, <3>3, <3>4, <3>5, Constants DEF Addresses
      <4>2. QED  BY <1>3, <3>1, <3>5, <4>1
    <3>6. QED  BY <3>1, <3>2, <3>5
  <2>3. QED  BY <2>1, <2>2
<1>8. OutcomeInv'
  <2>1. ASSUME NEW u \in 1..HatSlots, Ours(u), BelowMemlo(u)
        PROVE  (Ours(u) /\ BelowMemlo(u))'
    <3>1. u # s /\ hatabs'[u] = hatabs[u]
      BY <1>0, <1>5, <2>1 DEF Ours
    <3>2. hatabs[u].table \in Nat /\ memlo' \in Nat
      BY <1>3, Types, Constants
    <3>3. QED  BY <1>2, <1>3, <2>1, <3>1, <3>2, Constants DEF Ours, BelowMemlo
  <2>2. QED  BY <1>0, <2>1 DEF OutcomeInv
<1>9. TypeInv'
  <2>1. MachineTypes' /\ CallerTypes'
    BY <1>0, <1>3, <1>5 DEF MachineTypes, CallerTypes, TypeInv, Contents
  <2>2. QED  BY <1>0, <2>1 DEF TypeInv
<1>10. QED
  BY <1>0, <1>6, <1>7, <1>8, <1>9 DEF BorrowInv, RangeInv, SlotInv, ImageInv,
     Based, Placed, Searching, Loaded, Initialised

LEMMA Resets == InstallerInv /\ Reset => InstallerInv'
<1> SUFFICES ASSUME InstallerInv, Reset PROVE InstallerInv'  OBVIOUS
<1> USE Constants DEF Reset, InstallerInv
<1>1. \A s \in 1..HatSlots : hatabs'[s] = BootTable[s] /\ hatabs'[s].name # "N"
  BY DEF BootTable, NoEntry
<1>2. hatabs' \in [1..HatSlots -> Entry]
  <2>1. NoEntry \in Entry /\ [name |-> "P", table |-> Rom, by |-> "os"] \in Entry
    BY DEF NoEntry, Entry
  <2>2. QED  BY <2>1 DEF BootTable
<1>3. TypeInv'
  <2>1. MachineTypes'
    <3>1. BootMemlo \in 0..LoaderStart
      OBVIOUS
    <3>2. QED  BY <1>2, <3>1 DEF MachineTypes, TypeInv
  <2>2. CallerTypes'
    BY DEF CallerTypes
  <2>3. QED  BY <2>1, <2>2, NoRunTypes DEF TypeInv, Steps
<1>4. QED
  BY <1>1, <1>3 DEF BorrowInv, RangeInv, SlotInv, ImageInv, PublishedInv,
     ForeignInv, OutcomeInv, Based, Placed, Searching, Loaded, Initialised, Ours

LEMMA InstallerStep == InstallerInv /\ [Next]_vars => InstallerInv'
<1> SUFFICES ASSUME InstallerInv, [Next]_vars PROVE InstallerInv'  OBVIOUS
<1>1. CASE LoaderStep
  BY <1>1, Starts, Borrows, Opens, ReadsHeader, Scans, CalculatesRanges, ParsesHeader,
     Refills, DiskFails, Loads, GivesUp, Prepares, MarkerMissing, ValidatesVectors,
     PublishesVector, PublishesName, RaisesMemlo, Finishes DEF LoaderStep
<1>2. CASE (\E i \in 1..Iocbs : UserIocb(i)) \/ (\E s \in 1..HatSlots : OtherHandler(s)) \/ Reset
  BY <1>2, UserOpensOrCloses, OthersInstall, Resets
<1>3. CASE UNCHANGED vars
  <2>1. /\ hatabs' = hatabs /\ memlo' = memlo /\ memory' = memory /\ iocb' = iocb /\ zp' = zp
        /\ pc' = pc /\ run' = run /\ outcome' = outcome /\ faulty' = faulty
    BY <1>3 DEF vars, machine, caller
  <2> USE DEF InstallerInv
  <2>4. TypeInv'
    BY <2>1 DEF TypeInv, MachineTypes, CallerTypes
  <2>5. BorrowInv'
    BY <2>1 DEF BorrowInv
  <2>6. RangeInv'
    BY <2>1 DEF RangeInv
  <2>7. SlotInv'
    BY <2>1 DEF SlotInv, EarlierTaken
  <2>8. ImageInv'
    BY <2>1 DEF ImageInv
  <2>9. PublishedInv'
    BY <2>1 DEF PublishedInv, Ours, BelowMemlo, Complete
  <2>10. ForeignInv' /\ OutcomeInv'
    BY <2>1 DEF ForeignInv, OutcomeInv, Ours, BelowMemlo
  <2>11. QED  BY <2>4, <2>5, <2>6, <2>7, <2>8, <2>9, <2>10
<1>4. QED  BY <1>1, <1>2, <1>3 DEF Next

LEMMA InstallerInvariance == Spec => []InstallerInv
BY InitInv, InstallerStep, PTL DEF Spec

-----------------------------------------------------------------------------
(* The installer's state keeps its types.                                  *)
THEOREM InstallerTypes == Spec => []TypeOK
<1>1. InstallerInv => TypeOK
  BY DEF InstallerInv, TypeInv, MachineTypes, CallerTypes, IsRun, TypeOK
<1>2. QED  BY <1>1, InstallerInvariance, PTL

(* Whenever N: is found in HATABS it is complete, at every step of every   *)
(* run, whatever failed before: it is published last, and nothing below    *)
(* MEMLO is written.                                                       *)
THEOREM PublishedHandlersWork == Spec => []PublishedWorks
<1>1. InstallerInv => PublishedWorks
  BY DEF InstallerInv, PublishedInv, PublishedWorks, Ours
<1>2. QED  BY <1>1, InstallerInvariance, PTL

(* However a run ends, IOCBs and zero page are the caller's again.         *)
THEOREM CallersUntouched == Spec => []CallerUntouched
<1>1. InstallerInv => CallerUntouched
  BY DEF InstallerInv, BorrowInv, CallerUntouched, TypeInv, CallerTypes
<1>2. QED  BY <1>1, InstallerInvariance, PTL

(* What a finished run reported: the table and MEMLO only change in ways   *)
(* that keep it so, up to a RESET, which forgets it, or the next run.      *)
AnotherIsFirst ==
  \E s \in 1..HatSlots : ScanEndsAt(s) /\ hatabs[s].name = "N" /\ hatabs[s].by # "loader"
NoneLeft == \A s \in 1..HatSlots : hatabs[s].name \notin {"N", "none"}
TooHigh == ~Fits(Aligned(memlo) + Alloc)
VerdictInv ==
  /\ pc = "iocb" => run.iocb = 0
  /\ pc \in {"finish", "rest"} =>
       /\ outcome = "foreign" => AnotherIsFirst
       /\ outcome = "no slot" => NoneLeft
       /\ outcome = "memory" => TooHigh
       /\ outcome = "format" /\ pc = "finish" => faulty \/ run.iocb = 0

(* A run that has to go on, or that gives up because of the disk or the    *)
(* file, says nothing of the machine.                                      *)
LEMMA VerdictOfFault ==
  ASSUME \/ \E step : Goto(step) /\ step \notin {"iocb", "finish", "rest"}
         \/ Fail("format") \/ Fail("init")
  PROVE  VerdictInv'
BY DEF VerdictInv, Goto, Fail

LEMMA FaultsJudge ==
  ASSUME InstallerInv,
         \/ OpenFile \/ ReadHeader \/ ParseHeader \/ Refill \/ DiskError \/ Load \/ BadSection
         \/ Prepare \/ NoMarker \/ ValidateVectors \/ PublishVector \/ PublishName
  PROVE  VerdictInv'
<1>1. CASE OpenFile \/ ReadHeader \/ ParseHeader \/ DiskError \/ BadSection
  BY <1>1, VerdictOfFault DEF OpenFile, ReadHeader, ParseHeader, DiskError, BadSection
<1>2. CASE Prepare \/ NoMarker
  BY <1>2, VerdictOfFault DEF Prepare, NoMarker
<1>3. CASE ValidateVectors \/ PublishVector \/ PublishName
  BY <1>3, VerdictOfFault, PublishSteps DEF ValidateVectors, PublishVector, PublishName
<1>4. CASE Load
  <2> DEFINE next == IF run.position + 1 = ModuleEnd THEN "prepare" ELSE "load"
  <2>1. Goto(next)
    BY <1>4 DEF Load
  <2>2. next \notin {"iocb", "finish", "rest"}
    OBVIOUS
  <2> HIDE DEF next
  <2>3. QED  BY <2>1, <2>2, VerdictOfFault
<1>5. CASE Refill
  <2>1. run.position + Request <= ModuleEnd
    <3>1. ModuleEnd - run.position \in Nat
      BY <1>5, Types, Constants DEF Refill, InstallerInv
    <3>2. QED  BY <3>1, Types, Constants DEF Request, Lesser, InstallerInv
  <2>2. Goto("load")
    BY <1>5, <2>1 DEF Refill
  <2>3. QED  BY <2>2, VerdictOfFault
<1>6. QED  BY <1>1, <1>2, <1>3, <1>4, <1>5

(* The machine's own reasons.  An N: that the scan does not take for our   *)
(* own is another's, for each of ours has the marker and is below MEMLO.   *)
LEMMA MachineJudges ==
  ASSUME InstallerInv, VerdictInv, Start \/ BorrowIocb \/ ScanHatabs \/ CalculateRanges
  PROVE  VerdictInv'
<1>1. CASE Start
  BY <1>1 DEF Start, VerdictInv, NoRun
<1>2. CASE BorrowIocb
  BY <1>2 DEF BorrowIocb, At, VerdictInv, Goto, Stop
<1>3. CASE ScanHatabs
  <2>0. pc = "scan" /\ hatabs' = hatabs /\ memlo' = memlo /\ memory' = memory
    BY <1>3 DEF ScanHatabs, At, machine
  <2>1. CASE NoneLeft /\ Stop("no slot")
    BY <2>0, <2>1 DEF VerdictInv, Stop, NoneLeft
  <2>2. CASE Goto("ranges")
    BY <2>2, VerdictOfFault
  <2>3. CASE \E s \in 1..HatSlots : /\ ScanEndsAt(s) /\ hatabs[s].name = "N"
                                    /\ Stop(IF IsOwn(hatabs[s]) THEN "own" ELSE "foreign")
    <3> PICK s \in 1..HatSlots : /\ ScanEndsAt(s) /\ hatabs[s].name = "N"
                                 /\ Stop(IF IsOwn(hatabs[s]) THEN "own" ELSE "foreign")
      BY <2>3
    <3>1. CASE IsOwn(hatabs[s])
      BY <3>1 DEF VerdictInv, Stop
    <3>2. CASE ~IsOwn(hatabs[s])
      <4>1. hatabs[s].by # "loader"
        <5> SUFFICES ASSUME hatabs[s].by = "loader" PROVE IsOwn(hatabs[s])
          BY <3>2
        <5>1. /\ hatabs[s].table > 0 /\ Complete(hatabs[s].table - TableOffset) /\ BelowMemlo(s)
          BY <2>0 DEF InstallerInv, PublishedInv, Ours
        <5> DEFINE t == hatabs[s].table
        <5>2. t \in Nat /\ t > 0 /\ t - TableOffset + Alloc <= memlo /\ memlo \in Nat
          BY <5>1, Types, Constants DEF BelowMemlo, InstallerInv
        <5>3. memory[t - TableOffset + 1] = "data"
          BY <5>1 DEF Complete
        <5> HIDE DEF t
        <5>4. t >= TableOffset /\ t - TableOffset < memlo /\ t - TableOffset + 1 = t
          BY <5>2, Constants
        <5>5. t >= TableOffset /\ t - TableOffset < memlo /\ memory[t] = "data"
          BY <5>3, <5>4
        <5>6. QED  BY <5>5 DEF IsOwn, t
      <4>2. AnotherIsFirst'
        BY <2>0, <4>1 DEF AnotherIsFirst, ScanEndsAt
      <4>3. pc' = "finish" /\ outcome' = "foreign"
        BY <3>2 DEF Stop
      <4>4. QED  BY <4>2, <4>3 DEF VerdictInv
    <3>3. QED  BY <3>1, <3>2
  <2>4. QED  BY <1>3, <2>1, <2>2, <2>3 DEF ScanHatabs, NoneLeft
<1>4. CASE CalculateRanges
  <2>0. hatabs' = hatabs /\ memlo' = memlo
    BY <1>4 DEF CalculateRanges, machine
  <2>1. CASE TooHigh /\ Stop("memory")
    <3>1. TooHigh'
      BY <2>0, <2>1 DEF TooHigh
    <3>2. QED  BY <2>1, <3>1 DEF VerdictInv, Stop
  <2>2. CASE Goto("parse")
    BY <2>2, VerdictOfFault
  <2>3. QED  BY <1>4, <2>1, <2>2 DEF CalculateRanges, TooHigh
<1>5. QED  BY <1>1, <1>2, <1>3, <1>4

(* Nothing takes an entry out of the table, or lowers MEMLO, but RESET.    *)
LEMMA OthersKeepVerdict ==
  ASSUME InstallerInv, VerdictInv, NEW s \in 1..HatSlots, OtherHandler(s)
  PROVE  VerdictInv'
<1>0. pc = "rest" /\ pc' = "rest" /\ outcome' = outcome /\ hatabs[s].name = "none"
  BY DEF OtherHandler, At
<1>1. \A u \in 1..HatSlots : hatabs[u].name # "none" => hatabs'[u] = hatabs[u]
  <2>1. PICK e : hatabs' = [hatabs EXCEPT ![s] = e]
    BY DEF OtherHandler
  <2>2. hatabs \in [1..HatSlots -> Entry]
    BY DEF InstallerInv, TypeInv, MachineTypes
  <2>3. QED  BY <1>0, <2>1, <2>2
<1>2. memlo \in Nat /\ memlo' \in Nat /\ memlo <= memlo'
  <2>1. memlo \in Nat
    BY Types DEF InstallerInv
  <2>2. memlo' = memlo + 1 \/ memlo' = memlo
    BY DEF OtherHandler
  <2>3. QED  BY <2>1, <2>2
<1>3. AnotherIsFirst => AnotherIsFirst'
  <2> SUFFICES ASSUME AnotherIsFirst PROVE AnotherIsFirst'  OBVIOUS
  <2>1. PICK u \in 1..HatSlots :
          ScanEndsAt(u) /\ hatabs[u].name = "N" /\ hatabs[u].by # "loader"
    BY DEF AnotherIsFirst
  <2>2. hatabs'[u] = hatabs[u] /\ \A t \in 1..(u - 1) : hatabs'[t] = hatabs[t]
    BY <1>1, <2>1, Constants DEF ScanEndsAt
  <2>3. ScanEndsAt(u)'
    BY <2>1, <2>2 DEF ScanEndsAt
  <2>4. QED  BY <2>1, <2>2, <2>3 DEF AnotherIsFirst
<1>4. NoneLeft => NoneLeft'
  BY <1>0 DEF NoneLeft
<1>5. TooHigh => TooHigh'
  <2>1. Aligned(memlo) \in Nat /\ Aligned(memlo') \in Nat /\ Aligned(memlo) <= Aligned(memlo')
    BY <1>2, AlignedGrows
  <2>2. Aligned(memlo)' = Aligned(memlo')
    BY DEF Aligned
  <2>3. QED  BY <2>1, <2>2, Constants DEF TooHigh, Fits
<1>6. QED  BY <1>0, <1>3, <1>4, <1>5 DEF VerdictInv

LEMMA VerdictStep == InstallerInv /\ VerdictInv /\ [Next]_vars => VerdictInv'
<1> SUFFICES ASSUME InstallerInv, VerdictInv, [Next]_vars PROVE VerdictInv'  OBVIOUS
<1>1. CASE RaiseMemlo
  BY <1>1, PublishSteps DEF RaiseMemlo, VerdictInv
<1>2. CASE Finish \/ (\E i \in 1..Iocbs : UserIocb(i)) \/ UNCHANGED vars
  <2>1. /\ hatabs' = hatabs /\ memlo' = memlo /\ outcome' = outcome
        /\ \/ pc \in {"finish", "rest"} /\ pc' = "rest"
           \/ pc' = pc /\ run' = run /\ faulty' = faulty
    BY <1>2 DEF Finish, UserIocb, At, vars, machine, caller
  <2>2. /\ AnotherIsFirst => AnotherIsFirst'
        /\ NoneLeft => NoneLeft'
        /\ TooHigh => TooHigh'
    BY <2>1 DEF AnotherIsFirst, ScanEndsAt, NoneLeft, TooHigh
  <2>3. QED  BY <2>1, <2>2 DEF VerdictInv
<1>3. CASE Reset
  BY <1>3 DEF Reset, VerdictInv
<1>4. QED
  BY <1>1, <1>2, <1>3, FaultsJudge, MachineJudges, OthersKeepVerdict DEF Next, LoaderStep

(* What the installer reports is so, for any machine: of its handler, of   *)
(* another's, of a full table or memory, and of the file.                  *)
THEOREM OutcomesTrue == Spec => []OutcomeTrue
<1>1. Init => VerdictInv
  BY DEF Init, VerdictInv
<1>2. Spec => []VerdictInv
  BY <1>1, VerdictStep, InstallerInvariance, PTL DEF Spec
<1>3. InstallerInv /\ VerdictInv => OutcomeTrue
  BY DEF InstallerInv, OutcomeInv, VerdictInv, AnotherIsFirst, NoneLeft, TooHigh,
     OutcomeTrue, Ours, BelowMemlo
<1>4. QED  BY <1>2, <1>3, InstallerInvariance, PTL

(* What is stored by the installer goes into the image, which is free      *)
(* memory, and by another program at MEMLO.                                *)
FreeWrites == \A a \in Addresses : memory'[a] # memory[a] => memlo <= a /\ a < LoaderStart
LEMMA ImageIsFree ==
  ASSUME InstallerInv, pc \in Based, NEW cells, Store(cells),
         DOMAIN cells \subseteq {run.base, run.base + 1, run.base + 2}
  PROVE  FreeWrites
<1>1. run.base = Aligned(memlo) /\ run.end = run.base + Alloc /\ run.end <= LoaderStart
  BY DEF InstallerInv, RangeInv
<1>2. memlo \in Nat /\ run.base \in Nat /\ memlo <= run.base /\ run.base + 2 < LoaderStart
  BY <1>1, Types, Constants, AlignedBounds DEF InstallerInv
<1>3. \A a \in Addresses \ DOMAIN cells : memory'[a] = memory[a]
  BY DEF Store
<1>4. \A a \in {run.base, run.base + 1, run.base + 2} : memlo <= a /\ a < LoaderStart
  BY <1>2, Constants
<1>5. QED  BY <1>3, <1>4 DEF FreeWrites

LEMMA StepWritesFree == InstallerInv /\ [Next]_vars => FreeWrites
<1> SUFFICES ASSUME InstallerInv, [Next]_vars PROVE FreeWrites  OBVIOUS
<1>1. CASE memory' = memory
  BY <1>1 DEF FreeWrites
<1>2. CASE Load \/ BadSection
  <2> DEFINE cells == Effect(Sections[run.position + 1], run.base)
  <2>1. pc = "load" /\ (Store(cells) \/ memory' = memory)
    BY <1>2 DEF Load, BadSection, At
  <2>2. DOMAIN cells \subseteq {run.base, run.base + 1, run.base + 2}
    BY Effects, Types DEF InstallerInv
  <2> HIDE DEF cells
  <2>3. pc \in Based
    BY <2>1 DEF Based
  <2>4. QED  BY <1>1, <2>1, <2>2, <2>3, ImageIsFree
<1>3. CASE Prepare
  <2> DEFINE cells == [a \in {run.base + 2} |-> "bss"]
  <2>1. pc = "prepare" /\ Store(cells)
    BY <1>3 DEF Prepare, At
  <2>2. DOMAIN cells \subseteq {run.base, run.base + 1, run.base + 2}
    OBVIOUS
  <2> HIDE DEF cells
  <2>3. pc \in Based
    BY <2>1 DEF Based, Loaded
  <2>4. QED  BY <2>1, <2>2, <2>3, ImageIsFree
<1>4. ASSUME NEW s \in 1..HatSlots, OtherHandler(s), memory' # memory
      PROVE  FreeWrites
  <2> DEFINE cells == [a \in {memlo} |-> "foreign"]
  <2>1. memlo < LoaderStart /\ Store(cells)
    BY <1>4 DEF OtherHandler
  <2>2. DOMAIN cells = {memlo}
    OBVIOUS
  <2> HIDE DEF cells
  <2>3. \A a \in Addresses \ {memlo} : memory'[a] = memory[a]
    BY <2>1, <2>2 DEF Store
  <2>4. QED  BY <2>1, <2>3, Types DEF FreeWrites, InstallerInv
<1>5. CASE UNCHANGED vars
  BY <1>1, <1>5 DEF vars, machine
<1>6. CASE \/ Start \/ BorrowIocb \/ OpenFile \/ ReadHeader \/ ScanHatabs \/ CalculateRanges
           \/ ParseHeader \/ Refill \/ DiskError \/ NoMarker \/ ValidateVectors
           \/ PublishVector \/ PublishName \/ RaiseMemlo \/ Finish \/ Reset
           \/ \E i \in 1..Iocbs : UserIocb(i)
  <2>1. memory' = memory
    BY <1>6 DEF Start, BorrowIocb, OpenFile, ReadHeader, ScanHatabs, CalculateRanges,
       ParseHeader, Refill, DiskError, NoMarker, ValidateVectors, PublishVector, PublishName,
       RaiseMemlo, Finish, Reset, UserIocb, machine
  <2>2. QED  BY <1>1, <2>1
<1>7. QED  BY <1>1, <1>2, <1>3, <1>4, <1>5, <1>6 DEF Next, LoaderStep

(* No step writes below MEMLO or into the installer.                       *)
THEOREM OnlyFreeMemoryWritten == Spec => WritesFreeMemory
<1>1. InstallerInv /\ [Next]_vars =>
        [\A a \in Addresses : memory'[a] # memory[a] => memlo <= a /\ a < LoaderStart]_vars
  BY StepWritesFree DEF FreeWrites
<1>2. QED  BY <1>1, InstallerInvariance, PTL DEF Spec, WritesFreeMemory

-----------------------------------------------------------------------------
(* The refinement: the abstract installation happens when the name is      *)
(* written.                                                                *)
ShownTable == [s \in 1..HatSlots |-> Visible(s)]
ShownMemlo == IF pc = "raise" THEN run.end ELSE memlo
ShownBoot == [s \in 1..HatSlots |-> [name |-> BootTable[s].name, table |-> BootTable[s].table]]

LEMMA BootShown ==
  ASSUME hatabs = BootTable
  PROVE  ShownTable = ShownBoot
<1>1. \A s \in 1..HatSlots :
        Visible(s) = [name |-> BootTable[s].name, table |-> BootTable[s].table]
  BY DEF Visible, BootTable, NoEntry
<1>2. QED  BY <1>1 DEF ShownTable, ShownBoot

LEMMA EntryShown ==
  ASSUME NEW s \in 1..HatSlots,
         hatabs'[s] = hatabs[s] \/ (hatabs[s].name = "none" /\ hatabs'[s].name = "none")
  PROVE  Visible(s)' = Visible(s)
BY DEF Visible

LEMMA Unseen ==
  ASSUME \A s \in 1..HatSlots :
           hatabs'[s] = hatabs[s] \/ (hatabs[s].name = "none" /\ hatabs'[s].name = "none"),
         ShownMemlo' = ShownMemlo
  PROVE  UNCHANGED Atomically!vars
<1>1. \A s \in 1..HatSlots : Visible(s)' = Visible(s)
  BY EntryShown
<1>2. ShownTable' = ShownTable
  BY <1>1 DEF ShownTable
<1>3. QED  BY <1>2 DEF Atomically!vars, ShownTable, ShownMemlo

LEMMA StartsShown == Init => Atomically!Init
<1> SUFFICES ASSUME Init PROVE Atomically!Init  OBVIOUS
<1>1. ShownTable = ShownBoot
  BY BootShown DEF Init
<1>2. QED  BY <1>1 DEF Init, Atomically!Init, ShownTable, ShownBoot

(* The names that are shown are those in HATABS.                           *)
LEMMA ShownNames ==
  ASSUME TypeInv, NEW s \in 1..HatSlots
  PROVE  /\ ShownTable[s].name = hatabs[s].name
         /\ ShownTable[s] = Atomically!NoEntry <=> hatabs[s].name = "none"
BY DEF ShownTable, Visible, Atomically!NoEntry

LEMMA SlotsShown == Len(ShownBoot) = HatSlots
BY Constants DEF ShownBoot

(* A change of one entry, as it is shown.                                  *)
LEMMA ChangeShown ==
  ASSUME NEW s \in 1..HatSlots, hatabs'[s].name # "none",
         \A t \in (1..HatSlots) \ {s} : hatabs'[t] = hatabs[t]
  PROVE  ShownTable' = [ShownTable EXCEPT
           ![s] = [name |-> hatabs'[s].name, table |-> hatabs'[s].table]]
<1>1. \A t \in (1..HatSlots) \ {s} : Visible(t)' = Visible(t)
  BY EntryShown
<1>2. Visible(s)' = [name |-> hatabs'[s].name, table |-> hatabs'[s].table]
  BY DEF Visible
<1>3. QED  BY <1>1, <1>2 DEF ShownTable

LEMMA NameInstalls == InstallerInv /\ PublishName => \E s \in 1..HatSlots : Atomically!Install(s)
<1> SUFFICES ASSUME InstallerInv, PublishName
             PROVE  Atomically!Install(run.slot) /\ run.slot \in 1..HatSlots
  OBVIOUS
<1> USE DEF InstallerInv
<1> DEFINE s == run.slot
<1>1. /\ pc = "name" /\ pc' = "raise" /\ run' = run /\ memlo' = memlo
      /\ hatabs' = [hatabs EXCEPT ![s].name = "N", ![s].by = "loader"]
  BY PublishSteps DEF PublishName, At, Goto
<1>2. /\ s \in 1..HatSlots /\ hatabs[s].name = "none" /\ EarlierTaken(s)
      /\ hatabs[s].table = run.base + TableOffset
      /\ run.base = Aligned(memlo) /\ run.end = run.base + Alloc /\ run.end <= LoaderStart
  BY <1>1, Types DEF SlotInv, RangeInv, Placed, Based, Loaded
<1> HIDE DEF s
<1>3. /\ hatabs'[s].name = "N" /\ hatabs'[s].table = run.base + TableOffset
      /\ \A t \in (1..HatSlots) \ {s} : hatabs'[t] = hatabs[t]
  <2>1. hatabs \in [1..HatSlots -> Entry]
    BY DEF TypeInv, MachineTypes
  <2>2. \A e \in Entry : LET f == [e EXCEPT !.name = "N"]
                             g == [f EXCEPT !.by = "loader"]
                         IN  g.name = "N" /\ g.table = e.table
    BY DEF Entry
  <2>3. hatabs' = [hatabs EXCEPT ![s] = [[hatabs[s] EXCEPT !.name = "N"] EXCEPT !.by = "loader"]]
    BY <1>1, <1>2, <2>1
  <2>4. QED  BY <1>2, <2>1, <2>2, <2>3
<1>4. Atomically!IsFirstFree(s)
  <2>1. \A t \in 1..(s - 1) : t \in 1..HatSlots /\ hatabs[t].name # "none"
    BY <1>2, Constants DEF EarlierTaken
  <2>2. QED  BY <1>2, <2>1, ShownNames DEF Atomically!IsFirstFree, ShownTable
<1>5. \A t \in 1..s : ShownTable[t].name # "N"
  <2>1. \A t \in 1..s : t \in 1..HatSlots /\ hatabs[t].name # "N"
    BY <1>2, Constants DEF EarlierTaken
  <2>2. QED  BY <2>1, ShownNames
<1>6. ShownTable' = [ShownTable EXCEPT ![s] = [name |-> "N", table |-> Aligned(memlo) + 1]]
  BY <1>2, <1>3, ChangeShown, Constants
<1>7. ShownMemlo = memlo /\ ShownMemlo' = Aligned(memlo) + Alloc /\ Aligned(memlo) + Alloc <= LoaderStart
  BY <1>1, <1>2 DEF ShownMemlo
<1>8. Atomically!Even(ShownMemlo) = Aligned(memlo)
  BY <1>7 DEF Atomically!Even, Aligned
<1>9. QED
  BY <1>2, <1>4, <1>5, <1>6, <1>7, <1>8 DEF Atomically!Install, ShownTable, ShownMemlo, s

LEMMA OthersShown ==
  ASSUME InstallerInv, NEW s \in 1..HatSlots, OtherHandler(s)
  PROVE  Atomically!Other(s)
<1> USE DEF InstallerInv
<1> DEFINE E(name, t) == [name |-> name, table |-> t, by |-> "other"]
<1>1. /\ pc = "rest" /\ pc' = "rest" /\ hatabs[s].name = "none"
      /\ \A t \in 1..(s - 1) : hatabs[t].name # "none"
  BY DEF OtherHandler, At
<1>2. PICK name \in {"N", "P"} :
        \/ memlo' = memlo + 1 /\ hatabs' = [hatabs EXCEPT ![s] = E(name, memlo)]
        \/ memlo' = memlo /\ hatabs' = [hatabs EXCEPT ![s] = E(name, Rom)]
  BY DEF OtherHandler
<1>3. Atomically!IsFirstFree(s)
  <2>1. \A t \in 1..(s - 1) : t \in 1..HatSlots
    BY Constants
  <2>2. QED  BY <1>1, <2>1, ShownNames DEF Atomically!IsFirstFree, ShownTable
<1>4. ASSUME NEW t, hatabs' = [hatabs EXCEPT ![s] = E(name, t)]
      PROVE  ShownTable' = [ShownTable EXCEPT ![s] = [name |-> name, table |-> t]]
  <2>1. /\ hatabs'[s] = E(name, t)
        /\ \A u \in (1..HatSlots) \ {s} : hatabs'[u] = hatabs[u]
    BY <1>4 DEF TypeInv, MachineTypes
  <2>2. E(name, t).name = name /\ E(name, t).table = t /\ name # "none"
    OBVIOUS
  <2> HIDE DEF E
  <2>3. QED  BY <2>1, <2>2, ChangeShown
<1>5. ShownMemlo = memlo /\ ShownMemlo' = memlo'
  BY <1>1 DEF ShownMemlo
<1> HIDE DEF E
<1>6. \/ /\ ShownTable' = [ShownTable EXCEPT ![s] = [name |-> name, table |-> ShownMemlo]]
         /\ ShownMemlo' = ShownMemlo + 1
      \/ /\ ShownTable' = [ShownTable EXCEPT ![s] = [name |-> name, table |-> Rom]]
         /\ ShownMemlo' = ShownMemlo
  BY <1>2, <1>4, <1>5
<1>7. QED  BY <1>3, <1>6 DEF Atomically!Other, ShownTable, ShownMemlo

LEMMA ResetShown == Reset => Atomically!Reset
<1> SUFFICES ASSUME Reset PROVE Atomically!Reset  OBVIOUS
<1>1. \A s \in 1..HatSlots :
        Visible(s)' = [name |-> BootTable[s].name, table |-> BootTable[s].table]
  BY DEF Reset, Visible, BootTable, NoEntry
<1>2. QED  BY <1>1 DEF Reset, Atomically!Reset

(* Nothing is seen of the other steps.                                     *)
LEMMA RestUnseen ==
  ASSUME InstallerInv,
         \/ Start \/ BorrowIocb \/ OpenFile \/ ReadHeader \/ ScanHatabs \/ CalculateRanges
         \/ ParseHeader \/ Refill \/ DiskError \/ Load \/ BadSection
         \/ Prepare \/ NoMarker \/ ValidateVectors \/ PublishVector \/ Finish
         \/ \E i \in 1..Iocbs : UserIocb(i)
  PROVE  UNCHANGED Atomically!vars
<1>1. pc # "raise" /\ pc' # "raise" /\ memlo' = memlo /\ (hatabs' = hatabs \/ PublishVector)
  BY PublishSteps DEF Start, BorrowIocb, OpenFile, ReadHeader, ScanHatabs, CalculateRanges,
     ParseHeader, Refill, DiskError, Load, BadSection, Prepare, NoMarker, ValidateVectors,
     PublishVector, Finish, UserIocb, machine, At, Goto, Stop, Fail
<1>2. ShownMemlo' = ShownMemlo
  BY <1>1 DEF ShownMemlo
<1>3. CASE PublishVector
  <2>1. hatabs[run.slot].name = "none" /\ run.slot \in 1..HatSlots
    BY <1>3, Types DEF InstallerInv, PublishVector, At, SlotInv, Placed, Based, Loaded
  <2>2. /\ hatabs'[run.slot].name = "none"
        /\ \A t \in (1..HatSlots) \ {run.slot} : hatabs'[t] = hatabs[t]
    <3>1. hatabs' = [hatabs EXCEPT ![run.slot].table = run.base + TableOffset]
      BY <1>3 DEF PublishVector
    <3>2. \A e \in Entry : [e EXCEPT !.table = run.base + TableOffset].name = e.name
      BY DEF Entry
    <3>3. hatabs \in [1..HatSlots -> Entry]
      BY DEF InstallerInv, TypeInv, MachineTypes
    <3>4. QED  BY <2>1, <3>1, <3>2, <3>3
  <2>3. QED  BY <1>2, <2>1, <2>2, Unseen
<1>4. CASE hatabs' = hatabs
  BY <1>2, <1>4, Unseen
<1>5. QED  BY <1>1, <1>3, <1>4

LEMMA RaiseUnseen == InstallerInv /\ RaiseMemlo => UNCHANGED Atomically!vars
<1> SUFFICES ASSUME InstallerInv, RaiseMemlo PROVE UNCHANGED Atomically!vars  OBVIOUS
<1>1. pc = "raise" /\ pc' = "finish" /\ run' = run /\ memlo' = run.end /\ hatabs' = hatabs
  BY PublishSteps DEF RaiseMemlo, At
<1>2. ShownMemlo' = ShownMemlo
  BY <1>1 DEF ShownMemlo
<1>3. QED  BY <1>1, <1>2, Unseen

LEMMA StepShown ==
  InstallerInv /\ [Next]_vars => [Atomically!Next]_(Atomically!vars)
<1> SUFFICES ASSUME InstallerInv, [Next]_vars PROVE [Atomically!Next]_(Atomically!vars)  OBVIOUS
<1>1. CASE PublishName
  <2>1. \E s \in 1..HatSlots : Atomically!Install(s)
    BY <1>1, NameInstalls
  <2>2. QED  BY <2>1, SlotsShown DEF Atomically!Next, ShownBoot
<1>2. ASSUME NEW s \in 1..HatSlots, OtherHandler(s)
      PROVE  Atomically!Next
  <2>1. Atomically!Other(s)
    BY <1>2, OthersShown
  <2>2. QED  BY <2>1, SlotsShown DEF Atomically!Next, ShownBoot
<1>3. CASE Reset
  BY <1>3, ResetShown DEF Atomically!Next
<1>4. CASE UNCHANGED vars
  <2>1. hatabs' = hatabs /\ ShownMemlo' = ShownMemlo
    BY <1>4 DEF vars, machine, ShownMemlo
  <2>2. QED  BY <2>1, Unseen
<1>5. CASE RaiseMemlo
  BY <1>5, RaiseUnseen
<1>6. QED  BY <1>1, <1>2, <1>3, <1>4, <1>5, RestUnseen DEF Next, LoaderStep

(* Seen from outside every run amounts to one atomic installation or to    *)
(* nothing: faults, repeated runs and RESET included.                      *)
THEOREM InstallsOnceOrNot == Spec => InstallsAtomically
<1>1. Spec => [][Atomically!Next]_(Atomically!vars)
  BY InstallerInvariance, StepShown, PTL DEF Spec
<1>2. QED  BY StartsShown, <1>1, PTL DEF Spec, InstallsAtomically, Atomically!Spec

-----------------------------------------------------------------------------
(***************************************************************************)
(* The relocation of the image, by relocate_segment.                       *)
(***************************************************************************)
(* A table is what it says of the operands:                                *)
(* after its first r records, count[r] operands are relocated and the last *)
(* place reached is reach[r], in unbounded arithmetic.                     *)
Cells == 0..(TextSize + DataSize - 1)
ByteValues == 0..(ByteSize - 1)
RecordTypes == [skip : BOOLEAN, delta : ByteValues, kind : {"word", "low", "high"},
                target : {"module", "zp"}, low : ByteValues]
Names(record, op) ==
  record.kind = op.kind /\ record.target = op.target /\ record.low = Lo(op.value)
Accounts(ops, records, count, reach) ==
  /\ count \in [0..Len(records) -> 0..Len(ops)]
  /\ reach \in [0..Len(records) -> (-1)..(TextSize + DataSize)]
  /\ count[0] = 0 /\ count[Len(records)] = Len(ops)
  /\ reach[0] = -1 /\ reach[Len(records)] = PlaceOfLast(ops)
  /\ \A r \in 1..Len(records) :
       IF records[r].skip
       THEN count[r] = count[r - 1] /\ reach[r] = reach[r - 1] + ByteSize - 2
       ELSE /\ count[r] = count[r - 1] + 1 /\ reach[r] = reach[r - 1] + records[r].delta
            /\ reach[r] = ops[count[r]].place /\ Names(records[r], ops[count[r]])

Orderly(ops, size) ==
  \A i \in 1..Len(ops) :
    /\ EndOf(ops[i]) <= size
    /\ \A j \in 1..Len(ops) : i < j => EndOf(ops[i]) <= ops[j].place

RelocationTypes ==
  /\ operands \in [Segments -> Seq(Operands)] /\ table \in [Segments -> Seq(RecordTypes)]
  /\ image \in [Cells -> ByteValues]
  /\ segment \in Segments \cup {"linking", "done"}
  /\ consumed \in Nat /\ offset \in 0..(Word - 1)

(* Operands are relocated in the order of the tables, each once: an address *)
(* is the loaded one up to the last record read, the linked one after it,  *)
(* and no other byte is touched.                                           *)
IsRelocated(s, i, count) ==
  \/ segment = "done" \/ (segment = "data" /\ s = "text")
  \/ (segment = s /\ i <= count[s][consumed])
AddressNow(s, i, count) ==
  IF IsRelocated(s, i, count) THEN Resolved(operands[s][i], Base, Zp) ELSE operands[s][i].value
Spot(s, op) == RelocPtr(s) + op.place
Spots(s, op) == Spot(s, op)..(Spot(s, op) + Length(op) - 1)
IsOperand(ops, a) == \E s \in Segments : \E i \in 1..Len(ops[s]) : a \in Spots(s, ops[s][i])
ImageIsMixed(count) ==
  /\ \A s \in Segments : \A i \in 1..Len(operands[s]) : \A a \in Spots(s, operands[s][i]) :
       image[a] = Byte(operands[s][i], AddressNow(s, i, count), a - Spot(s, operands[s][i]))
  /\ \A a \in Cells : ~IsOperand(operands, a) => image[a] = a % ByteSize

ReaderIsAt(count, reach) ==
  segment \in Segments =>
    /\ consumed <= Len(table[segment])
    /\ offset = IF reach[segment][consumed] = -1 THEN Word - 1 ELSE reach[segment][consumed]

Accounted(count, reach) ==
  \A s \in Segments : Accounts(operands[s], table[s], count[s], reach[s])
IsReading(count, reach) ==
  /\ Accounted(count, reach) /\ ReaderIsAt(count, reach)
  /\ segment # "linking" => ImageIsMixed(count)

RelocationInv ==
  /\ RelocationTypes
  /\ \A s \in Segments : Orderly(operands[s], Size(s))
  /\ segment = "linking" => image = Linked(operands, 0, 0)
  /\ \E count, reach : IsReading(count, reach)

LEMMA Products ==
  ASSUME NEW a \in Nat, NEW b \in Nat, NEW c \in Nat, a <= b
  PROVE  a * c \in Nat /\ a * c <= b * c /\ (a + 1) * c = a * c + c
OBVIOUS

LEMMA Division ==
  ASSUME NEW a \in Nat, NEW c \in Nat, c > 0
  PROVE  /\ a \div c \in Nat /\ a % c \in 0..(c - 1)
         /\ a = (a \div c) * c + (a % c)
OBVIOUS

LEMMA Quotient ==
  ASSUME NEW q \in Nat, NEW c \in Nat, NEW r \in 0..(c - 1)
  PROVE  (q * c + r) \div c = q /\ (q * c + r) % c = r
<1> DEFINE a == q * c + r
<1>1. c > 0 /\ a \in Nat
  OBVIOUS
<1>2. a = (a \div c) * c + (a % c) /\ a \div c \in Nat /\ a % c \in 0..(c - 1)
  BY <1>1, Division
<1>3. ASSUME a \div c < q PROVE FALSE
  <2>1. ((a \div c) + 1) * c <= q * c /\ ((a \div c) + 1) * c = (a \div c) * c + c
    BY <1>2, <1>3, Products
  <2> HIDE DEF a
  <2>2. QED  BY <2>1, <1>2 DEF a
<1>4. ASSUME a \div c > q PROVE FALSE
  <2>1. (q + 1) * c <= (a \div c) * c /\ (q + 1) * c = q * c + c
    BY <1>2, <1>4, Products
  <2>2. QED  BY <2>1, <1>2
<1>5. a \div c = q
  BY <1>2, <1>3, <1>4
<1>6. QED  BY <1>5, <1>2

LEMMA Sizes ==
  /\ ByteSize \in Nat /\ ByteSize >= 3 /\ Word \in Nat /\ Word > ByteSize
  /\ TextSize \in Nat /\ DataSize \in Nat /\ TextSize + DataSize < Word
  /\ Base \in 0..(Word - 1) /\ Zp \in 0..(Word - 1) /\ Values \subseteq 0..(Word - 1)
<1>1. ByteSize \in Nat /\ ByteSize >= 3
  BY RelocationAssumption
<1>2. 3 * ByteSize <= Word /\ Word \in Nat
  BY <1>1, Products DEF Word
<1>3. 3 * ByteSize > ByteSize
  BY <1>1
<1>4. /\ Base \in 0..(Word - 1) /\ Values \subseteq 0..(Word - 1)
      /\ Zp \in 0..(ByteSize - 1) /\ Base + TextSize + DataSize < Word
      /\ TextSize \in Nat /\ DataSize \in Nat
  BY RelocationAssumption
<1>5. QED  BY <1>1, <1>2, <1>3, <1>4

(* A word is its two bytes.                                                *)
LEMMA TwoBytes ==
  ASSUME NEW w \in 0..(Word - 1)
  PROVE  Hi(w) \in ByteValues /\ Lo(w) \in ByteValues /\ w = Hi(w) * ByteSize + Lo(w)
<1>1. /\ Hi(w) \in Nat /\ Lo(w) \in ByteValues
      /\ w = Hi(w) * ByteSize + Lo(w)
  BY Sizes, Division DEF Hi, Lo, ByteValues
<1>2. ASSUME Hi(w) >= ByteSize PROVE FALSE
  <2>1. Word <= Hi(w) * ByteSize /\ Hi(w) * ByteSize \in Nat
    BY <1>1, <1>2, Sizes, Products DEF Word
  <2>2. QED  BY <2>1, <1>1, Sizes DEF ByteValues
<1>3. QED  BY <1>1, <1>2, Sizes DEF ByteValues

LEMMA FromBytes ==
  ASSUME NEW h \in ByteValues, NEW l \in ByteValues
  PROVE  /\ h * ByteSize + l \in 0..(Word - 1)
         /\ Hi(h * ByteSize + l) = h /\ Lo(h * ByteSize + l) = l
<1>1. Hi(h * ByteSize + l) = h /\ Lo(h * ByteSize + l) = l
  BY Sizes, Quotient DEF Hi, Lo, ByteValues
<1>2. (h + 1) * ByteSize <= Word /\ (h + 1) * ByteSize = h * ByteSize + ByteSize
  BY Sizes, Products DEF Word, ByteValues
<1>3. h * ByteSize \in Nat
  BY Sizes, Products DEF ByteValues
<1>4. QED  BY <1>1, <1>2, <1>3, Sizes DEF ByteValues

LEMMA Remainder ==
  ASSUME NEW n \in Nat, NEW m \in Nat, n < m + m, m > 0
  PROVE  (n < m => n % m = n) /\ (n >= m => n % m = n - m)
<1>1. CASE n < m
  <2>1. 0 * m = 0
    OBVIOUS
  <2>2. (0 * m + n) % m = n
    BY <1>1, Quotient
  <2>3. QED  BY <2>1, <2>2, <1>1
<1>2. CASE n >= m
  <2>1. 1 * m = m
    OBVIOUS
  <2>2. (1 * m + (n - m)) % m = n - m
    BY <1>2, Quotient
  <2>3. QED  BY <2>1, <2>2, <1>2
<1>3. QED  BY <1>1, <1>2

LEMMA Carry ==
  ASSUME NEW l \in ByteValues, NEW m \in ByteValues
  PROVE  \/ (l + m) \div ByteSize = 0 /\ (l + m) % ByteSize = l + m /\ l + m < ByteSize
         \/ (l + m) \div ByteSize = 1 /\ (l + m) % ByteSize = l + m - ByteSize /\ l + m >= ByteSize
<1>1. CASE l + m < ByteSize
  <2>1. 0 * ByteSize = 0
    BY Sizes
  <2>2. (0 * ByteSize + (l + m)) \div ByteSize = 0 /\ (0 * ByteSize + (l + m)) % ByteSize = l + m
    BY <1>1, Sizes, Quotient DEF ByteValues
  <2>3. QED  BY <2>1, <2>2, <1>1, Sizes DEF ByteValues
<1>2. CASE l + m >= ByteSize
  <2>1. /\ (1 * ByteSize + (l + m - ByteSize)) \div ByteSize = 1
        /\ (1 * ByteSize + (l + m - ByteSize)) % ByteSize = l + m - ByteSize
    BY <1>2, Sizes, Quotient DEF ByteValues
  <2>2. QED  BY <2>1, <1>2, Sizes DEF ByteValues
<1>3. QED  BY <1>1, <1>2, Sizes DEF ByteValues

(* Adding byte by byte with the carry is adding words.                     *)
LEMMA WordSum ==
  ASSUME NEW w \in 0..(Word - 1), NEW v \in 0..(Word - 1)
  PROVE  /\ (w + v) % Word \in 0..(Word - 1)
         /\ Lo((w + v) % Word) = (Lo(w) + Lo(v)) % ByteSize
         /\ Hi((w + v) % Word) = High(Hi(w), Lo(w), v)
<1> DEFINE carry == (Lo(w) + Lo(v)) \div ByteSize
           low == (Lo(w) + Lo(v)) % ByteSize
           high == Hi(w) + Hi(v) + carry
<1>1. /\ Hi(w) \in ByteValues /\ Lo(w) \in ByteValues /\ w = Hi(w) * ByteSize + Lo(w)
      /\ Hi(v) \in ByteValues /\ Lo(v) \in ByteValues /\ v = Hi(v) * ByteSize + Lo(v)
  BY TwoBytes
<1>2. /\ carry \in {0, 1} /\ low \in ByteValues
      /\ Lo(w) + Lo(v) = carry * ByteSize + low
  <2>1. \/ carry = 0 /\ low = Lo(w) + Lo(v) /\ Lo(w) + Lo(v) < ByteSize
        \/ carry = 1 /\ low = Lo(w) + Lo(v) - ByteSize /\ Lo(w) + Lo(v) >= ByteSize
    BY <1>1, Carry
  <2> HIDE DEF carry, low
  <2>2. QED  BY <1>1, <2>1, Sizes DEF ByteValues
<1> HIDE DEF carry, low
<1>3. /\ Hi(w) * ByteSize \in Nat /\ Hi(v) * ByteSize \in Nat
      /\ high * ByteSize = Hi(w) * ByteSize + Hi(v) * ByteSize + carry * ByteSize
  <2>1. /\ Hi(w) * ByteSize \in Nat /\ Hi(v) * ByteSize \in Nat
    BY <1>1, Sizes, Products DEF ByteValues
  <2>2. QED  BY <2>1, <1>1, <1>2, Sizes DEF ByteValues
<1>4. w + v = high * ByteSize + low /\ high \in Nat
  BY <1>1, <1>2, <1>3, Sizes DEF ByteValues
<1>5. high < ByteSize + ByteSize
  BY <1>1, <1>2, Sizes DEF ByteValues
<1>6. /\ w + v < Word => (w + v) % Word = w + v
      /\ w + v >= Word => (w + v) % Word = w + v - Word
      /\ high < ByteSize => High(Hi(w), Lo(w), v) = high
      /\ high >= ByteSize => High(Hi(w), Lo(w), v) = high - ByteSize
  <2> w + v \in Nat /\ w + v < Word + Word /\ Word > 0 /\ Word \in Nat
    BY Sizes
  <2>1. /\ w + v < Word => (w + v) % Word = w + v
        /\ w + v >= Word => (w + v) % Word = w + v - Word
    BY Remainder
  <2> HIDE DEF high
  <2> ByteSize \in Nat /\ ByteSize > 0
    BY Sizes
  <2>2. /\ high < ByteSize => high % ByteSize = high
        /\ high >= ByteSize => high % ByteSize = high - ByteSize
    BY <1>4, <1>5, Remainder
  <2>3. QED  BY <2>1, <2>2, <1>4, Sizes DEF High, high, carry
<1> HIDE DEF high
<1>7. CASE high < ByteSize
  <2>1. high \in ByteValues
    BY <1>4, <1>7, Sizes DEF ByteValues
  <2>2. w + v < Word
    BY <1>2, <1>4, <2>1, FromBytes, Sizes
  <2>3. (w + v) % Word = high * ByteSize + low
    BY <2>2, <1>4, <1>6
  <2>4. Hi((w + v) % Word) = high /\ Lo((w + v) % Word) = low /\ (w + v) % Word \in 0..(Word - 1)
    BY <2>1, <2>3, <1>2, FromBytes
  <2>5. QED  BY <2>4, <1>6, <1>7 DEF low
<1>8. CASE high >= ByteSize
  <2>1. high - ByteSize \in ByteValues
    BY <1>4, <1>5, <1>8, Sizes DEF ByteValues
  <2>2. high * ByteSize = (high - ByteSize) * ByteSize + Word
    BY <1>4, Sizes DEF Word
  <2>3. w + v >= Word
    <3>1. (high - ByteSize) * ByteSize \in Nat
      BY <2>1, Sizes, Products DEF ByteValues
    <3>2. QED  BY <3>1, <2>2, <1>2, <1>4, Sizes DEF ByteValues
  <2>4. (w + v) % Word = (high - ByteSize) * ByteSize + low
    <3>1. (high - ByteSize) * ByteSize \in Nat
      BY <2>1, Sizes, Products DEF ByteValues
    <3>2. (w + v) % Word = w + v - Word
      BY <2>3, <1>6
    <3>3. QED  BY <3>1, <3>2, <2>2, <1>2, <1>4, Sizes DEF ByteValues
  <2>5. /\ Hi((w + v) % Word) = high - ByteSize /\ Lo((w + v) % Word) = low
        /\ (w + v) % Word \in 0..(Word - 1)
    BY <2>1, <2>4, <1>2, FromBytes
  <2>6. QED  BY <2>5, <1>4, <1>6, <1>8, Sizes DEF low
<1>9. QED  BY <1>4, <1>7, <1>8, Sizes

-----------------------------------------------------------------------------
(* The images of the linker.                                               *)
LEMMA OperandFacts ==
  ASSUME NEW op \in Operands
  PROVE  /\ op.place \in Nat /\ op.value \in 0..(Word - 1) /\ Length(op) \in {1, 2}
         /\ (Length(op) = 2 <=> op.kind = "word")
         /\ op.kind \in {"word", "low", "high"} /\ op.target \in {"module", "zp"}
         /\ EndOf(op) = op.place + Length(op) /\ EndOf(op) \in Nat
<1>1. /\ op.place \in 0..(TextSize + DataSize) /\ op.value \in Values
      /\ op.kind \in {"word", "low", "high"} /\ op.target \in {"module", "zp"}
  BY DEF Operands
<1>2. op.value \in 0..(Word - 1)
  BY <1>1, Sizes
<1>3. Length(op) \in {1, 2} /\ (Length(op) = 2 <=> op.kind = "word")
  BY DEF Length
<1>4. op.place \in Nat
  BY <1>1, Sizes
<1>5. EndOf(op) = op.place + Length(op) /\ EndOf(op) \in Nat
  BY <1>3, <1>4 DEF EndOf
<1>6. QED  BY <1>1, <1>2, <1>3, <1>4, <1>5

LEMMA ByteType ==
  ASSUME NEW op \in Operands, NEW w \in 0..(Word - 1), NEW k
  PROVE  Byte(op, w, k) \in ByteValues
BY TwoBytes DEF Byte

LEMMA ResolvedType ==
  ASSUME NEW op \in Operands, NEW module \in 0..(Word - 1), NEW zeropage \in 0..(Word - 1)
  PROVE  Resolved(op, module, zeropage) \in 0..(Word - 1)
BY OperandFacts, WordSum DEF Resolved

LEMMA SpotFacts ==
  ASSUME NEW s \in Segments, NEW op \in Operands, EndOf(op) <= Size(s),
         NEW a \in Spots(s, op)
  PROVE  /\ a \in Cells /\ a - RelocPtr(s) \in op.place..(EndOf(op) - 1)
         /\ s = (IF a < TextSize THEN "text" ELSE "data")
         /\ a - Spot(s, op) = a - RelocPtr(s) - op.place
         /\ a - Spot(s, op) \in 0..(Length(op) - 1)
<1> op.place \in Nat /\ Length(op) \in {1, 2} /\ EndOf(op) = op.place + Length(op)
  BY OperandFacts
<1> TextSize \in Nat /\ DataSize \in Nat
  BY Sizes
<1>1. CASE s = "text"
  BY <1>1 DEF Spots, Spot, RelocPtr, Size, Cells
<1>2. CASE s = "data"
  BY <1>2 DEF Spots, Spot, RelocPtr, Size, Cells
<1>3. QED  BY <1>1, <1>2 DEF Segments

LEMMA LinkedBytes ==
  ASSUME NEW ops \in [Segments -> Seq(Operands)], \A s \in Segments : Orderly(ops[s], Size(s)),
         NEW module \in 0..(Word - 1), NEW zeropage \in 0..(Word - 1)
  PROVE  /\ Linked(ops, module, zeropage) \in [Cells -> ByteValues]
         /\ \A s \in Segments : \A i \in 1..Len(ops[s]) : \A a \in Spots(s, ops[s][i]) :
              Linked(ops, module, zeropage)[a] =
                Byte(ops[s][i], Resolved(ops[s][i], module, zeropage), a - Spot(s, ops[s][i]))
         /\ \A a \in Cells : ~IsOperand(ops, a) =>
              Linked(ops, module, zeropage)[a] = a % ByteSize
<1> DEFINE S(a) == IF a < TextSize THEN "text" ELSE "data"
           P(a) == a - RelocPtr(S(a))
           Here(a) == {i \in DOMAIN ops[S(a)] :
                         P(a) \in ops[S(a)][i].place..(EndOf(ops[S(a)][i]) - 1)}
           Op(a) == ops[S(a)][CHOOSE i \in Here(a) : TRUE]
<1>1. /\ Linked(ops, module, zeropage) =
           [a \in Cells |-> IF Here(a) = {} THEN a % ByteSize
                            ELSE Byte(Op(a), Resolved(Op(a), module, zeropage), P(a) - Op(a).place)]
  BY DEF Linked, Cells
<1>2. ASSUME NEW s \in Segments
      PROVE  /\ ops[s] \in Seq(Operands) /\ DOMAIN ops[s] = 1..Len(ops[s])
             /\ \A i \in 1..Len(ops[s]) : ops[s][i] \in Operands
  OBVIOUS
<1>3. ASSUME NEW a \in Cells, Here(a) # {}
      PROVE  Op(a) \in Operands
  <2>1. (CHOOSE i \in Here(a) : TRUE) \in Here(a)
    BY <1>3
  <2>2. QED  BY <2>1, <1>2 DEF Segments
<1>4. ASSUME NEW a \in Cells
      PROVE  a % ByteSize \in ByteValues
  <2>1. a \in Nat /\ ByteSize \in Nat /\ ByteSize > 0
    BY Sizes DEF Cells
  <2>2. QED  BY <2>1, Division DEF ByteValues
<1>5. Linked(ops, module, zeropage) \in [Cells -> ByteValues]
  <2> DEFINE F(a) == IF Here(a) = {} THEN a % ByteSize
                     ELSE Byte(Op(a), Resolved(Op(a), module, zeropage), P(a) - Op(a).place)
  <2>1. ASSUME NEW a \in Cells PROVE F(a) \in ByteValues
    <3>1. CASE Here(a) = {}
      BY <3>1, <1>4
    <3>2. CASE Here(a) # {}
      <4>1. Op(a) \in Operands
        BY <3>2, <1>3
      <4> HIDE DEF Op, P, Here
      <4>2. Resolved(Op(a), module, zeropage) \in 0..(Word - 1)
        BY <4>1, ResolvedType
      <4>3. QED  BY <3>2, <4>1, <4>2, ByteType
    <3>3. QED  BY <3>1, <3>2
  <2>2. Linked(ops, module, zeropage) = [a \in Cells |-> F(a)]
    BY <1>1
  <2> HIDE DEF F
  <2>3. QED  BY <2>1, <2>2
<1>6. ASSUME NEW s \in Segments, NEW i \in 1..Len(ops[s]), NEW a \in Spots(s, ops[s][i])
      PROVE  Linked(ops, module, zeropage)[a] =
               Byte(ops[s][i], Resolved(ops[s][i], module, zeropage), a - Spot(s, ops[s][i]))
  <2>1. ops[s][i] \in Operands /\ EndOf(ops[s][i]) <= Size(s)
    BY <1>2 DEF Orderly
  <2>2. /\ a \in Cells /\ S(a) = s /\ P(a) \in ops[s][i].place..(EndOf(ops[s][i]) - 1)
        /\ a - Spot(s, ops[s][i]) = P(a) - ops[s][i].place
    BY <2>1, SpotFacts
  <2>3. i \in Here(a)
    BY <2>2, <1>2
  <2>4. ASSUME NEW j \in Here(a) PROVE j = i
    <3>1. j \in 1..Len(ops[s]) /\ P(a) \in ops[s][j].place..(EndOf(ops[s][j]) - 1)
      BY <2>2, <1>2
    <3>2. ops[s][j] \in Operands
      BY <3>1, <1>2
    <3>3. /\ j < i => EndOf(ops[s][j]) <= ops[s][i].place
          /\ i < j => EndOf(ops[s][i]) <= ops[s][j].place
      BY <3>1 DEF Orderly
    <3>4. /\ ops[s][i].place \in Nat /\ EndOf(ops[s][i]) \in Nat
          /\ ops[s][j].place \in Nat /\ EndOf(ops[s][j]) \in Nat
      BY <2>1, <3>2, OperandFacts
    <3> HIDE DEF P
    <3>5. QED  BY <2>2, <3>1, <3>3, <3>4
  <2>5. (CHOOSE j \in Here(a) : TRUE) = i
    BY <2>3, <2>4
  <2>6. Op(a) = ops[s][i]
    BY <2>5, <2>2
  <2> HIDE DEF Op, P, Here
  <2>7. QED  BY <2>2, <2>3, <2>6, <1>1
<1>7. ASSUME NEW a \in Cells, ~IsOperand(ops, a)
      PROVE  Linked(ops, module, zeropage)[a] = a % ByteSize
  <2>1. ASSUME NEW i \in Here(a) PROVE FALSE
    <3>1. S(a) \in Segments /\ i \in 1..Len(ops[S(a)]) /\ ops[S(a)][i] \in Operands
      BY <1>2 DEF Segments
    <3>2. a \in Spots(S(a), ops[S(a)][i])
      <4>1. ops[S(a)][i].place \in Nat /\ EndOf(ops[S(a)][i]) = ops[S(a)][i].place + Length(ops[S(a)][i])
            /\ Length(ops[S(a)][i]) \in Nat
        BY <3>1, OperandFacts
      <4>2. P(a) \in ops[S(a)][i].place..(EndOf(ops[S(a)][i]) - 1)
        OBVIOUS
      <4>3. a \in Int /\ RelocPtr(S(a)) \in Int
        BY Sizes DEF Cells, RelocPtr
      <4> DEFINE o == ops[S(a)][i]  q == RelocPtr(S(a))
      <4> HIDE DEF o, q
      <4>4. a \in (q + o.place)..(q + o.place + Length(o) - 1)
        BY <4>1, <4>2, <4>3 DEF o, q
      <4>5. QED  BY <4>4 DEF Spots, Spot, o, q
    <3>3. QED  BY <3>1, <3>2, <1>7 DEF IsOperand
  <2>2. Here(a) = {}
    BY <2>1
  <2>3. QED  BY <2>2, <1>1
<1>8. QED  BY <1>5, <1>6, <1>7

(* An image in which every operand has been relocated is the linked one.   *)
LEMMA AllRelocated ==
  ASSUME RelocationTypes, \A s \in Segments : Orderly(operands[s], Size(s)),
         NEW count, ImageIsMixed(count), segment = "done"
  PROVE  image = Linked(operands, Base, Zp)
<1> DEFINE L == Linked(operands, Base, Zp)
<1>1. /\ L \in [Cells -> ByteValues]
      /\ \A s \in Segments : \A i \in 1..Len(operands[s]) : \A a \in Spots(s, operands[s][i]) :
           L[a] = Byte(operands[s][i], Resolved(operands[s][i], Base, Zp), a - Spot(s, operands[s][i]))
      /\ \A a \in Cells : ~IsOperand(operands, a) => L[a] = a % ByteSize
  BY LinkedBytes, Sizes DEF RelocationTypes
<1> HIDE DEF L
<1>2. image \in [Cells -> ByteValues]
  BY DEF RelocationTypes
<1>3. ASSUME NEW a \in Cells PROVE image[a] = L[a]
  <2>1. CASE ~IsOperand(operands, a)
    BY <2>1, <1>1 DEF ImageIsMixed
  <2>2. CASE IsOperand(operands, a)
    <3>1. PICK s \in Segments : \E i \in 1..Len(operands[s]) : a \in Spots(s, operands[s][i])
      BY <2>2 DEF IsOperand
    <3>2. PICK i \in 1..Len(operands[s]) : a \in Spots(s, operands[s][i])
      BY <3>1
    <3>3. image[a] = Byte(operands[s][i], AddressNow(s, i, count), a - Spot(s, operands[s][i]))
      BY <3>2 DEF ImageIsMixed
    <3>4. AddressNow(s, i, count) = Resolved(operands[s][i], Base, Zp)
      BY DEF AddressNow, IsRelocated
    <3>5. QED  BY <3>2, <3>3, <3>4, <1>1
  <2>3. QED  BY <2>1, <2>2
<1>4. image = L
  BY <1>1, <1>2, <1>3
<1>5. QED  BY <1>4 DEF L

-----------------------------------------------------------------------------
(* One record.                                                             *)
LEMMA OneOperand ==
  ASSUME NEW ops \in [Segments -> Seq(Operands)], \A s \in Segments : Orderly(ops[s], Size(s)),
         NEW s \in Segments, NEW i \in 1..Len(ops[s]), NEW t \in Segments, NEW j \in 1..Len(ops[t]),
         NEW a \in Spots(s, ops[s][i]), a \in Spots(t, ops[t][j])
  PROVE  s = t /\ i = j
<1>1. /\ ops[s][i] \in Operands /\ EndOf(ops[s][i]) <= Size(s)
      /\ ops[t][j] \in Operands /\ EndOf(ops[t][j]) <= Size(t)
  BY DEF Orderly
<1>2. /\ s = (IF a < TextSize THEN "text" ELSE "data")
      /\ a - RelocPtr(s) \in ops[s][i].place..(EndOf(ops[s][i]) - 1)
  BY <1>1, SpotFacts
<1>3. /\ t = (IF a < TextSize THEN "text" ELSE "data")
      /\ a - RelocPtr(t) \in ops[t][j].place..(EndOf(ops[t][j]) - 1)
  BY <1>1, SpotFacts
<1>4. s = t
  BY <1>2, <1>3
<1>5. /\ i < j => EndOf(ops[s][i]) <= ops[s][j].place
      /\ j < i => EndOf(ops[s][j]) <= ops[s][i].place
  BY <1>4 DEF Orderly
<1>6. /\ ops[s][i].place \in Nat /\ EndOf(ops[s][i]) \in Nat
      /\ ops[s][j].place \in Nat /\ EndOf(ops[s][j]) \in Nat
  BY <1>1, <1>4, OperandFacts
<1>7. QED  BY <1>2, <1>3, <1>4, <1>5, <1>6

LEMMA PatchedBytes ==
  ASSUME image \in [Cells -> ByteValues], NEW s \in Segments, NEW op \in Operands,
         EndOf(op) <= Size(s), NEW record \in RecordTypes, Names(record, op),
         \A a \in Spots(s, op) : image[a] = Byte(op, op.value, a - Spot(s, op))
  PROVE  /\ Patched(record, Spot(s, op)) \in [Cells -> ByteValues]
         /\ \A a \in Spots(s, op) :
              Patched(record, Spot(s, op))[a] = Byte(op, Resolved(op, Base, Zp), a - Spot(s, op))
         /\ \A a \in Cells \ Spots(s, op) : Patched(record, Spot(s, op))[a] = image[a]
<1> DEFINE at == Spot(s, op)
           v == Value(op.target)
           w == Resolved(op, Base, Zp)
           low == (image[at] + Lo(v)) % ByteSize
<1>1. /\ op.value \in 0..(Word - 1) /\ op.kind \in {"word", "low", "high"}
      /\ Length(op) \in {1, 2} /\ (Length(op) = 2 <=> op.kind = "word") /\ op.place \in Nat
  BY OperandFacts
<1>2. v \in 0..(Word - 1) /\ w = (op.value + v) % Word
  BY Sizes DEF Value, Resolved
<1>3. at \in Int /\ Spots(s, op) = at..(at + Length(op) - 1)
  BY <1>1, Sizes DEF Spot, RelocPtr, Spots
<1>4. at \in Cells /\ (op.kind = "word" => at + 1 \in Cells)
  <2>1. at \in Spots(s, op) /\ (op.kind = "word" => at + 1 \in Spots(s, op))
    BY <1>1, <1>3
  <2>2. QED  BY <2>1, SpotFacts
<1>5. /\ w \in 0..(Word - 1) /\ Lo(w) = (Lo(op.value) + Lo(v)) % ByteSize
      /\ Hi(w) = High(Hi(op.value), Lo(op.value), v)
  BY <1>1, <1>2, WordSum
<1>6. Lo(w) \in ByteValues /\ Hi(w) \in ByteValues
  BY <1>5, TwoBytes
<1>7. record.kind = op.kind /\ record.low = Lo(op.value) /\ Value(record.target) = v
  BY DEF Names
<1>8. image[at] = Byte(op, op.value, 0) /\ (op.kind = "word" => image[at + 1] = Byte(op, op.value, 1))
  <2>1. /\ at \in Spots(s, op) /\ at - at = 0
        /\ op.kind = "word" => at + 1 \in Spots(s, op) /\ (at + 1) - at = 1
    BY <1>1, <1>3
  <2>2. QED  BY <2>1
<1> HIDE DEF at, v, w
<1>9. CASE op.kind = "low"
  <2>1. Patched(record, at) = [image EXCEPT ![at] = low]
    BY <1>7, <1>9 DEF Patched
  <2>2. low = Lo(w) /\ Spots(s, op) = {at}
    BY <1>1, <1>3, <1>5, <1>8, <1>9 DEF Byte
  <2>3. Byte(op, w, at - at) = Lo(w)
    BY <1>3, <1>9 DEF Byte
  <2>4. QED  BY <2>1, <2>2, <2>3, <1>4, <1>6 DEF at, w
<1>10. CASE op.kind = "high"
  <2>1. Patched(record, at) = [image EXCEPT ![at] = High(image[at], Lo(op.value), v)]
    BY <1>7, <1>10 DEF Patched
  <2>2. High(image[at], Lo(op.value), v) = Hi(w) /\ Spots(s, op) = {at}
    BY <1>1, <1>3, <1>5, <1>8, <1>10 DEF Byte
  <2>3. Byte(op, w, at - at) = Hi(w)
    BY <1>10 DEF Byte
  <2>4. QED  BY <2>1, <2>2, <2>3, <1>4, <1>6 DEF at, w
<1>11. CASE op.kind = "word"
  <2>1. Patched(record, at) = [image EXCEPT ![at] = low, ![at + 1] = High(image[at + 1], image[at], v)]
    BY <1>7, <1>11 DEF Patched
  <2>2. low = Lo(w) /\ High(image[at + 1], image[at], v) = Hi(w)
    BY <1>5, <1>8, <1>11 DEF Byte
  <2>3. Patched(record, at) = [image EXCEPT ![at] = Lo(w), ![at + 1] = Hi(w)]
    BY <2>1, <2>2
  <2>4. Spots(s, op) = {at, at + 1} /\ at # at + 1
    BY <1>1, <1>3, <1>11
  <2>5. Byte(op, w, at - at) = Lo(w) /\ Byte(op, w, (at + 1) - at) = Hi(w)
    BY <1>3, <1>11 DEF Byte
  <2>6. /\ Patched(record, at) \in [Cells -> ByteValues]
        /\ Patched(record, at)[at] = Lo(w) /\ Patched(record, at)[at + 1] = Hi(w)
        /\ \A a \in Cells \ {at, at + 1} : Patched(record, at)[a] = image[a]
    BY <2>3, <2>4, <1>3, <1>4, <1>6, <1>11
  <2>7. QED  BY <2>4, <2>5, <2>6 DEF at, w
<1>12. QED  BY <1>1, <1>9, <1>10, <1>11

LEMMA Advance ==
  ASSUME NEW reached \in (-1)..(TextSize + DataSize), NEW d \in Nat,
         reached + d \in 0..(TextSize + DataSize)
  PROVE  ((IF reached = -1 THEN Word - 1 ELSE reached) + d) % Word = reached + d
<1>1. CASE reached = -1
  <2> DEFINE n == (Word - 1) + d
  <2>1. n \in Nat /\ n < Word + Word /\ n >= Word /\ n - Word = reached + d
    BY <1>1, Sizes
  <2> HIDE DEF n
  <2>2. n % Word = n - Word
    BY <2>1, Sizes, Remainder
  <2>3. QED  BY <2>1, <2>2, <1>1 DEF n
<1>2. CASE reached # -1
  <2> DEFINE n == reached + d
  <2>1. n \in Nat /\ n < Word /\ n < Word + Word
    BY <1>2, Sizes
  <2> HIDE DEF n
  <2>2. n % Word = n
    BY <2>1, Sizes, Remainder
  <2>3. QED  BY <2>2, <1>2 DEF n
<1>3. QED  BY <1>1, <1>2

-----------------------------------------------------------------------------
(* The linker's table accounts for its operands.                           *)
LEMMA RecordsOf ==
  ASSUME NEW op \in Operands, NEW d \in Nat, d > 0
  PROVE  /\ Skips(d) \in Nat /\ Skips(d) * (ByteSize - 2) \in Nat
         /\ d - Skips(d) * (ByteSize - 2) \in 1..(ByteSize - 2)
         /\ RecordsFor(op, d) \in Seq(RecordTypes) /\ Len(RecordsFor(op, d)) = Skips(d) + 1
         /\ \A k \in 1..Skips(d) : RecordsFor(op, d)[k] = Skip
         /\ RecordsFor(op, d)[Skips(d) + 1] = EntryFor(op, d - Skips(d) * (ByteSize - 2))
<1> DEFINE c == ByteSize - 2
           n == Skips(d)
           e == EntryFor(op, d - n * c)
           skips == [k \in 1..n |-> Skip]
<1>1. c \in Nat /\ c > 0 /\ ByteSize \in Nat
  BY Sizes
<1> HIDE DEF c
<1>2. n \in Nat /\ d - 1 = n * c + ((d - 1) % c) /\ (d - 1) % c \in 0..(c - 1)
  BY <1>1, Division DEF Skips, c
<1> HIDE DEF n
<1>3. n * c \in Nat /\ d - n * c \in 1..c
  BY <1>1, <1>2, Products
<1>4. Skip \in RecordTypes /\ e \in RecordTypes
  <2>1. d - n * c \in ByteValues /\ 0 \in ByteValues
    BY <1>3, <1>1 DEF ByteValues, c
  <2>2. Lo(op.value) \in ByteValues
    BY OperandFacts, TwoBytes
  <2>3. op.kind \in {"word", "low", "high"} /\ op.target \in {"module", "zp"}
    BY OperandFacts
  <2>4. QED  BY <2>1, <2>2, <2>3 DEF Skip, EntryFor, RecordTypes
<1>5. skips \in Seq(RecordTypes) /\ Len(skips) = n
  BY <1>2, <1>4
<1> HIDE DEF e
<1>6. <<e>> \in Seq(RecordTypes) /\ Len(<<e>>) = 1 /\ <<e>>[1] = e
  BY <1>4
<1>7. RecordsFor(op, d) = skips \o <<e>>
  BY DEF RecordsFor, c, n, e
<1>8. \A k \in 1..n : skips[k] = Skip
  OBVIOUS
<1> HIDE DEF skips
<1>9. /\ skips \o <<e>> \in Seq(RecordTypes) /\ Len(skips \o <<e>>) = n + 1
      /\ \A k \in 1..(n + 1) : (skips \o <<e>>)[k] = IF k <= n THEN skips[k] ELSE <<e>>[k - n]
  BY <1>5, <1>6, ConcatProperties
<1>10. /\ \A k \in 1..n : (skips \o <<e>>)[k] = Skip
       /\ (skips \o <<e>>)[n + 1] = e
  BY <1>2, <1>6, <1>8, <1>9
<1>11. QED  BY <1>2, <1>3, <1>7, <1>9, <1>10 DEF c, n, e

LEMMA AccountsGrow ==
  ASSUME NEW ops \in Seq(Operands), NEW records \in Seq(RecordTypes),
         NEW c, NEW r, Accounts(ops, records, c, r),
         NEW op \in Operands, EndOfLast(ops) <= op.place
  PROVE  LET new == records \o RecordsFor(op, op.place - PlaceOfLast(ops)) IN
         /\ new \in Seq(RecordTypes)
         /\ \E c2, r2 : Accounts(Append(ops, op), new, c2, r2)
<1> DEFINE last == PlaceOfLast(ops)
           d == op.place - last
           k == Skips(d)
           b == ByteSize - 2
           n == Len(records)
           m == Len(ops)
           more == RecordsFor(op, d)
           new == records \o more
           longer == Append(ops, op)
<1>1. /\ op.place \in Nat /\ op.place <= TextSize + DataSize
      /\ last \in (-1)..(TextSize + DataSize) /\ last < op.place
  <2>1. op.place \in Nat /\ op.place <= TextSize + DataSize
    BY Sizes DEF Operands
  <2>2. CASE ops = <<>>
    BY <2>1, <2>2, Sizes DEF PlaceOfLast
  <2>3. CASE ops # <<>>
    <3>1. ops[m] \in Operands
      BY <2>3
    <3>2. /\ last = ops[m].place /\ EndOf(ops[m]) <= op.place
          /\ EndOf(ops[m]) = ops[m].place + Length(ops[m]) /\ Length(ops[m]) \in {1, 2}
          /\ ops[m].place \in Nat
      BY <2>3, <3>1, OperandFacts DEF PlaceOfLast, EndOfLast
    <3> HIDE DEF last, m
    <3>3. QED  BY <3>2, <2>1, Sizes
  <2>4. QED  BY <2>2, <2>3
<1>2. d \in Nat /\ d > 0
  BY <1>1, Sizes
<1>3. /\ k \in Nat /\ k * b \in Nat /\ d - k * b \in 1..b /\ b \in Nat
      /\ more \in Seq(RecordTypes) /\ Len(more) = k + 1
      /\ \A j \in 1..k : more[j] = Skip
      /\ more[k + 1] = EntryFor(op, d - k * b)
  <2>1. b \in Nat
    BY Sizes
  <2> HIDE DEF d
  <2>2. QED  BY <2>1, <1>2, RecordsOf
<1>4. n \in Nat /\ m \in Nat
  OBVIOUS
<1> HIDE DEF more
<1>5. /\ new \in Seq(RecordTypes) /\ Len(new) = n + k + 1
      /\ \A j \in 1..(n + k + 1) : new[j] = IF j <= n THEN records[j] ELSE more[j - n]
  <2>1. /\ new \in Seq(RecordTypes) /\ Len(new) = n + Len(more)
        /\ \A j \in 1..(n + Len(more)) : new[j] = IF j <= n THEN records[j] ELSE more[j - n]
    BY <1>3, ConcatProperties
  <2>2. n + Len(more) = n + k + 1
    BY <1>3, <1>4
  <2>3. QED  BY <2>1, <2>2
<1>6. /\ longer \in Seq(Operands) /\ Len(longer) = m + 1
      /\ \A j \in 1..m : longer[j] = ops[j]
      /\ longer[m + 1] = op
  OBVIOUS
<1> DEFINE c2 == [j \in 0..(n + k + 1) |-> IF j <= n THEN c[j] ELSE IF j <= n + k THEN m ELSE m + 1]
           r2 == [j \in 0..(n + k + 1) |->
                    IF j <= n THEN r[j] ELSE IF j <= n + k THEN last + (j - n) * b ELSE op.place]
<1>7. /\ c \in [0..n -> 0..m] /\ r \in [0..n -> (-1)..(TextSize + DataSize)]
      /\ c[0] = 0 /\ c[n] = m /\ r[0] = -1 /\ r[n] = last
  BY DEF Accounts
<1>8. ASSUME NEW j \in 1..n
      PROVE  IF records[j].skip
             THEN c[j] = c[j - 1] /\ r[j] = r[j - 1] + ByteSize - 2
             ELSE /\ c[j] = c[j - 1] + 1 /\ r[j] = r[j - 1] + records[j].delta
                  /\ r[j] = ops[c[j]].place /\ Names(records[j], ops[c[j]])
  BY DEF Accounts
<1> HIDE DEF last, d, k, b, n, m, new, longer
<1>9. ASSUME NEW j \in (n + 1)..(n + k)
      PROVE  /\ (j - n) * b \in Nat /\ (j - n) * b <= k * b
             /\ (j - n) * b = ((j - 1) - n) * b + b
  <2> DEFINE i == (j - 1) - n
  <2>1. j - n = i + 1 /\ i \in Nat /\ i + 1 \in Nat /\ i + 1 <= k
    BY <1>3, <1>4
  <2> HIDE DEF i
  <2>2. (i + 1) * b \in Nat /\ (i + 1) * b <= k * b
    BY <2>1, <1>3, Products
  <2>3. (i + 1) * b = i * b + b
    BY <2>1, <1>3
  <2>4. QED  BY <2>1, <2>2, <2>3 DEF i
<1>10. d = op.place - last /\ b = ByteSize - 2
  BY DEF d, b
<1>11. /\ c2 \in [0..(n + k + 1) -> 0..(m + 1)]
       /\ r2 \in [0..(n + k + 1) -> (-1)..(TextSize + DataSize)]
  <2>1. ASSUME NEW j \in 0..(n + k + 1)
        PROVE  c2[j] \in 0..(m + 1) /\ r2[j] \in (-1)..(TextSize + DataSize)
    <3>1. CASE j <= n
      BY <3>1, <1>3, <1>4, <1>7
    <3>2. CASE j > n /\ j <= n + k
      <4>1. c2[j] = m /\ r2[j] = last + (j - n) * b
        BY <3>2, <1>3, <1>4
      <4>2. (j - n) * b \in Nat /\ (j - n) * b <= k * b
        BY <1>9, <3>2, <1>3, <1>4
      <4> HIDE DEF c2, r2
      <4>3. QED  BY <4>1, <4>2, <1>1, <1>3, <1>4, <1>10, Sizes
    <3>3. CASE j > n + k
      BY <3>3, <1>1, <1>3, <1>4
    <3>4. QED  BY <3>1, <3>2, <3>3, <1>3, <1>4
  <2>2. QED  BY <2>1
<1>12. /\ c2[0] = 0 /\ c2[n + k + 1] = m + 1
       /\ r2[0] = -1 /\ r2[n + k + 1] = op.place
  BY <1>3, <1>4, <1>7
<1>13. PlaceOfLast(longer) = op.place
  BY <1>6, <1>4 DEF PlaceOfLast, m
<1>14. ASSUME NEW j \in 1..(n + k + 1)
       PROVE  IF new[j].skip
              THEN c2[j] = c2[j - 1] /\ r2[j] = r2[j - 1] + ByteSize - 2
              ELSE /\ c2[j] = c2[j - 1] + 1 /\ r2[j] = r2[j - 1] + new[j].delta
                   /\ r2[j] = longer[c2[j]].place
                   /\ Names(new[j], longer[c2[j]])
  <2>1. CASE j <= n
    <3>1. /\ new[j] = records[j] /\ c2[j] = c[j] /\ c2[j - 1] = c[j - 1]
          /\ r2[j] = r[j] /\ r2[j - 1] = r[j - 1] /\ j \in 1..n /\ j - 1 \in 0..n
      BY <2>1, <1>3, <1>4, <1>5
    <3> HIDE DEF c2, r2
    <3>2. ASSUME ~records[j].skip PROVE c[j] \in 1..m
      <4>1. c[j] \in 0..m /\ c[j - 1] \in 0..m
        BY <3>1, <1>7
      <4>2. c[j] = c[j - 1] + 1
        BY <3>1, <3>2, <1>8
      <4>3. QED  BY <4>1, <4>2, <1>4
    <3>3. ~records[j].skip => longer[c[j]] = ops[c[j]]
      BY <3>2, <1>6
    <3>4. QED  BY <3>1, <3>3, <1>8
  <2>2. CASE j > n /\ j <= n + k
    <3>1. new[j] = Skip
      <4>1. ~(j <= n) /\ j - n \in 1..k
        BY <2>2, <1>3, <1>4
      <4>2. QED  BY <4>1, <1>3, <1>5
    <3>2. c2[j] = m /\ c2[j - 1] = m
      <4>1. CASE j - 1 = n
        BY <4>1, <2>2, <1>3, <1>4, <1>7
      <4>2. CASE j - 1 # n
        BY <4>2, <2>2, <1>3, <1>4
      <4>3. QED  BY <4>1, <4>2
    <3>3. r2[j] = last + (j - n) * b
      BY <2>2, <1>3, <1>4
    <3>4. r2[j - 1] = last + ((j - 1) - n) * b
      <4>1. CASE j - 1 = n
        <5>1. r2[j - 1] = last /\ (j - 1) - n = 0
          BY <4>1, <1>3, <1>4, <1>7
        <5>2. 0 * b = 0
          BY <1>3
        <5>3. QED  BY <5>1, <5>2, <1>1
      <4>2. CASE j - 1 # n
        BY <4>2, <2>2, <1>3, <1>4
      <4>3. QED  BY <4>1, <4>2
    <3>5. (j - n) * b \in Nat /\ (j - n) * b = ((j - 1) - n) * b + b
      BY <1>9, <2>2, <1>3, <1>4
    <3>6. ((j - 1) - n) * b \in Int
      BY <1>3, <1>4
    <3> HIDE DEF c2, r2
    <3>7. r2[j] = r2[j - 1] + ByteSize - 2
      BY <3>3, <3>4, <3>5, <3>6, <1>1, <1>10, Sizes
    <3>8. QED  BY <3>1, <3>2, <3>7 DEF Skip
  <2>3. CASE j > n + k
    <3>1. j = n + k + 1
      BY <2>3, <1>3, <1>4
    <3>2. new[j] = EntryFor(op, d - k * b)
      <4>1. j - n = k + 1 /\ ~(j <= n)
        BY <3>1, <1>3, <1>4
      <4>2. QED  BY <4>1, <1>3, <1>5
    <3>3. c2[j] = m + 1 /\ c2[j - 1] = m /\ r2[j] = op.place
      BY <3>1, <1>3, <1>4, <1>7
    <3>4. r2[j - 1] = last + k * b
      <4>1. CASE k = 0
        <5>1. r2[j - 1] = last
          BY <4>1, <3>1, <1>3, <1>4, <1>7
        <5>2. 0 * b = 0
          BY <1>3
        <5>3. QED  BY <5>1, <5>2, <4>1, <1>1
      <4>2. CASE k # 0
        <5>1. (j - 1) - n = k
          BY <3>1, <1>3, <1>4
        <5>2. r2[j - 1] = last + ((j - 1) - n) * b
          BY <3>1, <4>2, <1>3, <1>4
        <5>3. QED  BY <5>1, <5>2
      <4>3. QED  BY <4>1, <4>2
    <3> HIDE DEF c2, r2
    <3>5. longer[c2[j]] = op
      BY <3>3, <1>4, <1>6
    <3>6. r2[j] = r2[j - 1] + (d - k * b) /\ c2[j] = c2[j - 1] + 1
      <4>1. op.place = (last + k * b) + (d - k * b)
        <5>1. d = op.place - last
          BY <1>10
        <5> DEFINE p == k * b
        <5>2. p \in Nat
          BY <1>3
        <5> HIDE DEF p
        <5>3. op.place = (last + p) + (d - p)
          BY <5>1, <5>2, <1>1
        <5>4. QED  BY <5>3 DEF p
      <4>2. QED  BY <4>1, <3>3, <3>4
    <3>7. ~new[j].skip /\ new[j].delta = d - k * b /\ Names(new[j], op)
      BY <3>2 DEF EntryFor, Names
    <3>8. r2[j] = r2[j - 1] + new[j].delta
      BY <3>6, <3>7
    <3>9. r2[j] = longer[c2[j]].place /\ Names(new[j], longer[c2[j]])
      BY <3>3, <3>5, <3>7
    <3>10. QED  BY <3>6, <3>7, <3>8, <3>9
  <2>4. QED  BY <2>1, <2>2, <2>3, <1>3, <1>4
<1> HIDE DEF c2, r2
<1>15. Accounts(longer, new, c2, r2)
  <2>1. Len(longer) = m + 1 /\ Len(new) = n + k + 1
    BY <1>5, <1>6
  <2>2. QED  BY <2>1, <1>11, <1>12, <1>13, <1>14 DEF Accounts
<1>16. QED  BY <1>5, <1>15 DEF new, more, d, last, longer

-----------------------------------------------------------------------------
(* The steps.                                                              *)
LEMMA RelocationStarts == RelocationInit => RelocationInv
<1> SUFFICES ASSUME RelocationInit PROVE RelocationInv
  OBVIOUS
<1>1. /\ operands = [s \in Segments |-> <<>>] /\ table = [s \in Segments |-> <<>>]
      /\ image = Linked(operands, 0, 0) /\ segment = "linking"
      /\ consumed = 0 /\ offset = Word - 1
  BY DEF RelocationInit
<1>2. operands \in [Segments -> Seq(Operands)] /\ table \in [Segments -> Seq(RecordTypes)]
  BY <1>1
<1>3. \A s \in Segments : operands[s] = <<>> /\ table[s] = <<>>
  BY <1>1
<1>4. \A s \in Segments : Orderly(operands[s], Size(s))
  BY <1>3 DEF Orderly
<1>5. image \in [Cells -> ByteValues]
  <2>1. 0 \in 0..(Word - 1)
    BY Sizes
  <2>2. Linked(operands, 0, 0) \in [Cells -> ByteValues]
    BY <2>1, <1>2, <1>4, LinkedBytes
  <2>3. QED  BY <2>2, <1>1
<1>6. RelocationTypes
  BY <1>1, <1>2, <1>5, Sizes DEF RelocationTypes
<1>7. \E count, reach : Accounted(count, reach)
  <2> DEFINE count == [s \in Segments |-> [r \in 0..0 |-> 0]]
             reach == [s \in Segments |-> [r \in 0..0 |-> -1]]
  <2>1. ASSUME NEW s \in Segments
        PROVE  Accounts(operands[s], table[s], count[s], reach[s])
    <3>1. Len(table[s]) = 0 /\ Len(operands[s]) = 0 /\ PlaceOfLast(operands[s]) = -1
      BY <1>3 DEF PlaceOfLast
    <3>2. count[s] = [r \in 0..0 |-> 0] /\ reach[s] = [r \in 0..0 |-> -1]
      OBVIOUS
    <3>3. QED  BY <3>1, <3>2, Sizes DEF Accounts
  <2>2. QED  BY <2>1 DEF Accounted
<1>8. QED
  BY <1>1, <1>4, <1>6, <1>7 DEF RelocationInv, IsReading, ReaderIsAt, Segments

LEMMA LinkStep ==
  ASSUME RelocationInv, NEW s \in Segments, NEW op \in Operands, LinkOperand(s, op)
  PROVE  RelocationInv'
<1> DEFINE d == op.place - PlaceOfLast(operands[s])
<1>1. /\ segment = "linking" /\ segment' = "linking" /\ consumed' = consumed /\ offset' = offset
      /\ EndOfLast(operands[s]) <= op.place /\ EndOf(op) <= Size(s)
      /\ operands' = [operands EXCEPT ![s] = Append(operands[s], op)]
      /\ table' = [table EXCEPT ![s] = table[s] \o RecordsFor(op, d)]
      /\ image' = Linked(operands', 0, 0)
  BY DEF LinkOperand
<1>2. /\ operands \in [Segments -> Seq(Operands)] /\ table \in [Segments -> Seq(RecordTypes)]
      /\ \A t \in Segments : Orderly(operands[t], Size(t))
  BY DEF RelocationInv, RelocationTypes
<1>3. PICK count, reach : Accounted(count, reach)
  BY DEF RelocationInv, IsReading
<1>4. /\ table[s] \o RecordsFor(op, d) \in Seq(RecordTypes)
      /\ \E c, r : Accounts(Append(operands[s], op), table[s] \o RecordsFor(op, d), c, r)
  BY <1>1, <1>2, <1>3, AccountsGrow DEF Accounted
<1>5. PICK c, r : Accounts(Append(operands[s], op), table[s] \o RecordsFor(op, d), c, r)
  BY <1>4
<1>6. operands' \in [Segments -> Seq(Operands)] /\ table' \in [Segments -> Seq(RecordTypes)]
  BY <1>1, <1>2, <1>4
<1>7. \A t \in Segments :
        /\ operands'[t] = IF t = s THEN Append(operands[s], op) ELSE operands[t]
        /\ table'[t] = IF t = s THEN table[s] \o RecordsFor(op, d) ELSE table[t]
  BY <1>1, <1>2
<1>8. Orderly(Append(operands[s], op), Size(s))
  <2> DEFINE ops == operands[s]
             n == Len(ops)
             more == Append(ops, op)
  <2>1. /\ n \in Nat /\ Len(more) = n + 1 /\ more[n + 1] = op
        /\ \A i \in 1..n : more[i] = ops[i] /\ ops[i] \in Operands
    BY <1>2
  <2>2. Orderly(ops, Size(s)) /\ EndOfLast(ops) <= op.place
    BY <1>1, <1>2
  <2>3. n # 0 => EndOfLast(ops) = EndOf(ops[n])
    BY DEF EndOfLast
  <2> HIDE DEF ops, more, n
  <2>4. ASSUME NEW i \in 1..n PROVE EndOf(ops[i]) <= op.place
    <3>1. n # 0 /\ n \in 1..n /\ ops[i] \in Operands /\ ops[n] \in Operands
      BY <2>1
    <3>2. EndOf(ops[n]) <= op.place
      BY <2>2, <2>3, <3>1
    <3>3. /\ EndOf(ops[i]) \in Nat /\ EndOf(ops[n]) \in Nat /\ op.place \in Nat
          /\ ops[n].place \in Nat /\ EndOf(ops[n]) = ops[n].place + Length(ops[n])
          /\ Length(ops[n]) \in {1, 2}
      BY <3>1, OperandFacts
    <3>4. CASE i = n
      BY <3>2, <3>4
    <3>5. CASE i # n
      <4>1. i < n
        BY <3>5, <2>1
      <4>2. EndOf(ops[i]) <= ops[n].place
        BY <4>1, <3>1, <2>2 DEF Orderly, n
      <4>3. QED  BY <4>2, <3>2, <3>3
    <3>6. QED  BY <3>4, <3>5
  <2>5. ASSUME NEW i \in 1..(n + 1) PROVE EndOf(more[i]) <= Size(s)
    BY <2>1, <2>2, <1>1 DEF Orderly, n
  <2>6. ASSUME NEW i \in 1..(n + 1), NEW j \in 1..(n + 1), i < j
        PROVE  EndOf(more[i]) <= more[j].place
    <3>1. i \in 1..n /\ more[i] = ops[i]
      BY <2>1, <2>6
    <3>2. CASE j = n + 1
      BY <3>1, <3>2, <2>1, <2>4
    <3>3. CASE j # n + 1
      <4>1. j \in 1..n /\ more[j] = ops[j]
        BY <3>3, <2>1
      <4>2. QED  BY <4>1, <3>1, <2>2, <2>6 DEF Orderly, n
    <3>4. QED  BY <3>2, <3>3
  <2>7. Orderly(more, Size(s))
    BY <2>1, <2>5, <2>6 DEF Orderly
  <2>8. QED  BY <2>7 DEF more, ops
<1>9. \A t \in Segments : Orderly(operands'[t], Size(t))
  BY <1>2, <1>7, <1>8
<1>10. image' \in [Cells -> ByteValues]
  <2>1. 0 \in 0..(Word - 1)
    BY Sizes
  <2>2. Linked(operands', 0, 0) \in [Cells -> ByteValues]
    BY <2>1, <1>6, <1>9, LinkedBytes
  <2>3. QED  BY <2>2, <1>1
<1>11. RelocationTypes'
  BY <1>1, <1>6, <1>10 DEF RelocationInv, RelocationTypes
<1>12. \E count2, reach2 : \A t \in Segments :
         Accounts(operands'[t], table'[t], count2[t], reach2[t])
  <2> DEFINE count2 == [t \in Segments |-> IF t = s THEN c ELSE count[t]]
             reach2 == [t \in Segments |-> IF t = s THEN r ELSE reach[t]]
  <2>1. \A t \in Segments : /\ count2[t] = (IF t = s THEN c ELSE count[t])
                            /\ reach2[t] = (IF t = s THEN r ELSE reach[t])
    OBVIOUS
  <2> HIDE DEF count2, reach2
  <2>2. ASSUME NEW t \in Segments PROVE Accounts(operands'[t], table'[t], count2[t], reach2[t])
    <3>1. CASE t = s
      BY <3>1, <2>1, <1>5, <1>7
    <3>2. CASE t # s
      BY <3>2, <2>1, <1>3, <1>7 DEF Accounted
    <3>3. QED  BY <3>1, <3>2
  <2>3. QED  BY <2>2
<1>13. QED
  BY <1>1, <1>9, <1>11, <1>12 DEF RelocationInv, IsReading, Accounted, ReaderIsAt, Segments

(* What stays when neither the linker's side nor the image changes.        *)
LEMMA SameImage ==
  ASSUME RelocationInv, UNCHANGED <<operands, image, table>>,
         segment' \in Segments \cup {"done"}, consumed' \in Nat, offset' \in 0..(Word - 1),
         NEW count, NEW reach, IsReading(count, reach), segment # "linking",
         \A s \in Segments : \A i \in 1..Len(operands[s]) :
           IsRelocated(s, i, count)' <=> IsRelocated(s, i, count),
         ReaderIsAt(count, reach)'
  PROVE  RelocationInv'
<1>1. RelocationTypes' /\ \A s \in Segments : Orderly(operands'[s], Size(s))
  BY DEF RelocationInv, RelocationTypes
<1>2. Accounted(count, reach)'
  BY DEF IsReading, Accounted
<1>3. \A s \in Segments : \A i \in 1..Len(operands[s]) :
        AddressNow(s, i, count)' = AddressNow(s, i, count)
  BY DEF AddressNow
<1>4. ImageIsMixed(count)'
  <2> image' = image /\ operands' = operands /\ ImageIsMixed(count)
    BY DEF IsReading
  <2>1. ASSUME NEW s \in Segments, NEW i \in 1..Len(operands[s]), NEW a \in Spots(s, operands[s][i])
        PROVE  image'[a] = Byte(operands'[s][i], AddressNow(s, i, count)', a - Spot(s, operands'[s][i]))
    BY <1>3 DEF ImageIsMixed
  <2>2. \A a \in Cells : ~IsOperand(operands', a) => image'[a] = a % ByteSize
    BY DEF ImageIsMixed
  <2>3. QED  BY <2>1, <2>2 DEF ImageIsMixed
<1>5. segment' # "linking"
  BY DEF Segments
<1>6. QED  BY <1>1, <1>2, <1>4, <1>5 DEF RelocationInv, IsReading

LEMMA AtStart ==
  ASSUME NEW count, NEW reach, Accounted(count, reach), NEW s \in Segments \cup {"done"},
         StartOf(s), operands \in [Segments -> Seq(Operands)]
  PROVE  /\ ReaderIsAt(count, reach)' /\ consumed' \in Nat /\ offset' \in 0..(Word - 1)
         /\ \A t \in Segments : \A i \in 1..Len(operands[t]) : ~(i <= count[t][consumed'])
<1>1. /\ segment' = s /\ consumed' = 0 /\ offset' = Word - 1 /\ table' = table
  BY DEF StartOf
<1>2. \A t \in Segments : count[t][0] = 0 /\ reach[t][0] = -1 /\ Len(table[t]) >= 0
  BY DEF Accounted, Accounts
<1>3. ReaderIsAt(count, reach)'
  BY <1>1, <1>2 DEF ReaderIsAt
<1>4. QED  BY <1>1, <1>2, <1>3, Sizes

LEMMA LoadStep ==
  ASSUME RelocationInv, LoadModule
  PROVE  RelocationInv'
<1>1. segment = "linking" /\ StartOf("text") /\ image = Linked(operands, 0, 0)
  BY DEF LoadModule, RelocationInv
<1>2. PICK count, reach : Accounted(count, reach)
  BY DEF RelocationInv, IsReading
<1>3. /\ operands' = operands /\ image' = image /\ table' = table /\ segment' = "text"
  BY <1>1 DEF StartOf
<1>4. /\ operands \in [Segments -> Seq(Operands)]
      /\ \A s \in Segments : Orderly(operands[s], Size(s))
  BY DEF RelocationInv, RelocationTypes
<1>5. /\ ReaderIsAt(count, reach)' /\ consumed' \in Nat /\ offset' \in 0..(Word - 1)
      /\ \A t \in Segments : \A i \in 1..Len(operands[t]) : ~(i <= count[t][consumed'])
  <2>1. "text" \in Segments \cup {"done"}
    BY DEF Segments
  <2>2. QED  BY <2>1, <1>1, <1>2, <1>4, AtStart
<1>6. RelocationTypes' /\ \A s \in Segments : Orderly(operands'[s], Size(s))
  BY <1>3, <1>4, <1>5 DEF RelocationInv, RelocationTypes, Segments
<1>7. Accounted(count, reach)'
  BY <1>2, <1>3 DEF Accounted
<1>8. ASSUME NEW op \in Operands PROVE Resolved(op, 0, 0) = op.value
  <2>1. op.value \in Nat /\ op.value < Word /\ Word \in Nat /\ Word > 0
    BY OperandFacts, Sizes
  <2>2. op.value % Word = op.value
    BY <2>1, Remainder
  <2>3. op.value + 0 = op.value
    BY <2>1
  <2>4. QED  BY <2>2, <2>3 DEF Resolved
<1>9. ImageIsMixed(count)'
  <2>1. 0 \in 0..(Word - 1)
    BY Sizes
  <2>2. /\ \A s \in Segments : \A i \in 1..Len(operands[s]) : \A a \in Spots(s, operands[s][i]) :
             image[a] = Byte(operands[s][i], Resolved(operands[s][i], 0, 0), a - Spot(s, operands[s][i]))
        /\ \A a \in Cells : ~IsOperand(operands, a) => image[a] = a % ByteSize
    BY <2>1, <1>1, <1>4, LinkedBytes
  <2>3. ASSUME NEW s \in Segments, NEW i \in 1..Len(operands[s])
        PROVE  AddressNow(s, i, count)' = Resolved(operands[s][i], 0, 0)
    <3>1. operands[s][i] \in Operands
      BY <1>4
    <3>2. ~IsRelocated(s, i, count)'
      BY <1>3, <1>5 DEF IsRelocated
    <3>3. QED  BY <3>1, <3>2, <1>3, <1>8 DEF AddressNow
  <2>4. QED  BY <2>2, <2>3, <1>3 DEF ImageIsMixed
<1>10. QED
  BY <1>3, <1>5, <1>6, <1>7, <1>9 DEF RelocationInv, IsReading

LEMMA TableEnds ==
  ASSUME RelocationInv, EndOfTable
  PROVE  RelocationInv'
<1> DEFINE next == IF segment = "text" THEN "data" ELSE "done"
<1>1. segment \in Segments /\ ~Relocating /\ StartOf(next) /\ segment # "linking"
  BY DEF EndOfTable, Segments
<1>2. PICK count, reach : IsReading(count, reach)
  BY DEF RelocationInv
<1>3. /\ operands' = operands /\ image' = image /\ table' = table /\ segment' = next
  BY <1>1 DEF StartOf
<1>4. operands \in [Segments -> Seq(Operands)] /\ consumed \in Nat /\ table \in [Segments -> Seq(RecordTypes)]
  BY DEF RelocationInv, RelocationTypes
<1>5. next \in Segments \cup {"done"}
  BY DEF Segments
<1>6. /\ ReaderIsAt(count, reach)' /\ consumed' \in Nat /\ offset' \in 0..(Word - 1)
      /\ \A t \in Segments : \A i \in 1..Len(operands[t]) : ~(i <= count[t][consumed'])
  BY <1>1, <1>2, <1>4, <1>5, AtStart DEF IsReading
<1>7. \A i \in 1..Len(operands[segment]) : i <= count[segment][consumed]
  <2>1. consumed = Len(table[segment])
    <3>1. consumed <= Len(table[segment]) /\ ~(consumed < Len(table[segment]))
      BY <1>1, <1>2 DEF IsReading, ReaderIsAt, Relocating
    <3>2. Len(table[segment]) \in Nat
      BY <1>1, <1>4
    <3>3. QED  BY <3>1, <3>2, <1>4
  <2>2. count[segment][Len(table[segment])] = Len(operands[segment])
    BY <1>1, <1>2 DEF IsReading, Accounted, Accounts
  <2>3. QED  BY <2>1, <2>2, <1>1, <1>4
<1>8. ASSUME NEW s \in Segments, NEW i \in 1..Len(operands[s])
      PROVE  IsRelocated(s, i, count)' <=> IsRelocated(s, i, count)
  <2>1. ~(i <= count[s][consumed'])
    BY <1>6
  <2>2. segment = s => i <= count[s][consumed]
    BY <1>7
  <2>3. QED  BY <2>1, <2>2, <1>1, <1>3 DEF IsRelocated, Segments
<1>9. QED
  BY <1>1, <1>2, <1>3, <1>5, <1>6, <1>8, SameImage

LEMMA SkipStep ==
  ASSUME RelocationInv, SkipAhead
  PROVE  RelocationInv'
<1>1. /\ segment \in Segments /\ consumed < Len(table[segment]) /\ Record.skip
      /\ offset' = SkipBy(offset) /\ consumed' = consumed + 1
      /\ operands' = operands /\ image' = image /\ table' = table /\ segment' = segment
      /\ segment # "linking"
  BY DEF SkipAhead, Relocating, Segments
<1>2. PICK count, reach : IsReading(count, reach)
  BY DEF RelocationInv
<1>3. consumed \in Nat /\ table[segment] \in Seq(RecordTypes)
  BY <1>1 DEF RelocationInv, RelocationTypes
<1> DEFINE r == consumed + 1
           c == count[segment]
           p == reach[segment]
<1>4. r \in 1..Len(table[segment]) /\ r - 1 = consumed /\ consumed \in 0..Len(table[segment])
  BY <1>1, <1>3
<1>5. /\ p \in [0..Len(table[segment]) -> (-1)..(TextSize + DataSize)]
      /\ c[r] = c[consumed] /\ p[r] = p[consumed] + ByteSize - 2
  <2>1. /\ p \in [0..Len(table[segment]) -> (-1)..(TextSize + DataSize)]
        /\ table[segment][r].skip => c[r] = c[r - 1] /\ p[r] = p[r - 1] + ByteSize - 2
    BY <1>1, <1>2, <1>4 DEF IsReading, Accounted, Accounts
  <2>2. QED  BY <2>1, <1>1, <1>4 DEF Record
<1>6. offset = IF p[consumed] = -1 THEN Word - 1 ELSE p[consumed]
  BY <1>1, <1>2 DEF IsReading, ReaderIsAt
<1>7. p[consumed] \in (-1)..(TextSize + DataSize) /\ p[r] \in (-1)..(TextSize + DataSize)
  BY <1>4, <1>5
<1> HIDE DEF c, p, r
<1>8. offset' = p[r] /\ p[r] # -1 /\ p[r] \in 0..(Word - 1)
  <2>1. ByteSize - 2 \in Nat /\ ByteSize - 2 > 0 /\ p[r] = p[consumed] + (ByteSize - 2)
    BY <1>5, <1>7, Sizes
  <2>2. p[r] \in 0..(TextSize + DataSize)
    BY <2>1, <1>7, Sizes
  <2>3. offset' = (offset + (ByteSize - 2)) % Word
    <3>1. offset \in Int
      BY <1>6, <1>7, Sizes
    <3>2. offset + ByteSize - 2 = offset + (ByteSize - 2)
      BY <3>1, Sizes
    <3>3. QED  BY <3>2, <1>1 DEF SkipBy
  <2>4. offset' = p[consumed] + (ByteSize - 2)
    BY <2>1, <2>2, <2>3, <1>6, <1>7, Advance
  <2>5. QED  BY <2>1, <2>2, <2>4, Sizes
<1>9. ReaderIsAt(count, reach)'
  BY <1>1, <1>4, <1>8 DEF ReaderIsAt, r, p
<1>10. ASSUME NEW s \in Segments, NEW i \in 1..Len(operands[s])
       PROVE  IsRelocated(s, i, count)' <=> IsRelocated(s, i, count)
  BY <1>1, <1>5 DEF IsRelocated, r, c
<1>11. QED
  BY <1>1, <1>2, <1>3, <1>8, <1>9, <1>10, SameImage

LEMMA RelocateStep ==
  ASSUME RelocationInv, Relocate
  PROVE  RelocationInv'
<1> DEFINE s == segment
           r == consumed + 1
           at == (offset + Record.delta) % Word
<1>1. /\ s \in Segments /\ consumed < Len(table[s]) /\ ~Record.skip
      /\ IF InSegment(at, Length(Record))
         THEN image' = Patched(Record, RelocPtr(s) + at) /\ segment' = s
         ELSE image' = image /\ segment' = "bad"
      /\ offset' = at /\ consumed' = r /\ operands' = operands /\ table' = table
      /\ s # "linking"
  BY DEF Relocate, Relocating, Segments
<1>2. PICK count, reach : IsReading(count, reach)
  BY DEF RelocationInv
<1>3. /\ consumed \in Nat /\ table[s] \in Seq(RecordTypes) /\ operands[s] \in Seq(Operands)
      /\ operands \in [Segments -> Seq(Operands)] /\ image \in [Cells -> ByteValues]
      /\ \A t \in Segments : Orderly(operands[t], Size(t))
  BY <1>1 DEF RelocationInv, RelocationTypes
<1> DEFINE c == count[s]
           p == reach[s]
           i == c[r]
           op == operands[s][i]
<1>4. r \in 1..Len(table[s]) /\ r - 1 = consumed /\ consumed \in 0..Len(table[s])
  BY <1>1, <1>3
<1>5. /\ p \in [0..Len(table[s]) -> (-1)..(TextSize + DataSize)]
      /\ c \in [0..Len(table[s]) -> 0..Len(operands[s])]
      /\ i = c[consumed] + 1 /\ p[r] = p[consumed] + Record.delta
      /\ p[r] = op.place /\ Names(Record, op)
  <2>1. /\ p \in [0..Len(table[s]) -> (-1)..(TextSize + DataSize)]
        /\ c \in [0..Len(table[s]) -> 0..Len(operands[s])]
        /\ ~table[s][r].skip =>
             /\ c[r] = c[r - 1] + 1 /\ p[r] = p[r - 1] + table[s][r].delta
             /\ p[r] = op.place /\ Names(table[s][r], op)
    BY <1>1, <1>2, <1>4 DEF IsReading, Accounted, Accounts
  <2>2. QED  BY <2>1, <1>1, <1>4 DEF Record
<1>6. offset = IF p[consumed] = -1 THEN Word - 1 ELSE p[consumed]
  BY <1>1, <1>2 DEF IsReading, ReaderIsAt
<1>7. i \in 1..Len(operands[s]) /\ c[consumed] \in Nat /\ c[consumed] < i
  <2>1. Len(operands[s]) \in Nat
    BY <1>3
  <2>2. c \in [0..Len(table[s]) -> 0..Len(operands[s])]
    BY <1>5
  <2>3. consumed \in 0..Len(table[s]) /\ r \in 0..Len(table[s])
    BY <1>4
  <2> HIDE DEF c, r
  <2>4. c[consumed] \in 0..Len(operands[s]) /\ i \in 0..Len(operands[s])
    BY <2>2, <2>3
  <2> HIDE DEF i
  <2>5. QED  BY <2>1, <2>4, <1>5
<1>8. op \in Operands /\ EndOf(op) <= Size(s)
  BY <1>1, <1>3, <1>7 DEF Orderly
<1>9. Record \in RecordTypes
  BY <1>3, <1>4 DEF Record
<1> HIDE DEF c, p, r, op, i
<1>10. at = op.place /\ at \in Nat
  <2>1. p[consumed] \in (-1)..(TextSize + DataSize) /\ Record.delta \in Nat
    BY <1>4, <1>5, <1>9, Sizes DEF RecordTypes, ByteValues
  <2>2. p[consumed] + Record.delta \in 0..(TextSize + DataSize)
    BY <1>5, <1>8 DEF Operands
  <2>3. at = p[consumed] + Record.delta
    BY <2>1, <2>2, <1>6, Advance
  <2>4. QED  BY <2>3, <1>5, <1>8, OperandFacts
<1>11. InSegment(at, Length(Record))
  <2>1. Length(Record) = Length(op)
    BY <1>5 DEF Names, Length
  <2>2. /\ op.place \in Nat /\ Length(op) \in {1, 2} /\ EndOf(op) = op.place + Length(op)
    BY <1>8, OperandFacts
  <2> DEFINE n == op.place + Length(op) - 1
  <2>3. Size(s) <= TextSize + DataSize /\ Size(s) \in Nat
    BY Sizes DEF Size
  <2>4. n \in Nat /\ n < Size(s) /\ n < Word
    BY <2>2, <2>3, <1>8, Sizes
  <2> HIDE DEF n
  <2>5. n % Word = n
    BY <2>4, Sizes, Remainder
  <2>6. QED  BY <2>1, <2>4, <2>5, <1>10 DEF InSegment, n
<1> HIDE DEF at
<1>12. image' = Patched(Record, Spot(s, op)) /\ segment' = s
  BY <1>1, <1>10, <1>11 DEF Spot
<1>13. \A t \in Segments : \A j \in 1..Len(operands[t]) :
         /\ (t = s /\ j = i) => ~IsRelocated(t, j, count) /\ IsRelocated(t, j, count)'
         /\ ~(t = s /\ j = i) => (IsRelocated(t, j, count)' <=> IsRelocated(t, j, count))
  <2>1. SUFFICES ASSUME NEW t \in Segments, NEW j \in 1..Len(operands[t])
                 PROVE  /\ (t = s /\ j = i) => ~IsRelocated(t, j, count) /\ IsRelocated(t, j, count)'
                        /\ ~(t = s /\ j = i) => (IsRelocated(t, j, count)' <=> IsRelocated(t, j, count))
    OBVIOUS
  <2>2. IsRelocated(t, j, count) <=> (s = "data" /\ t = "text") \/ (s = t /\ j <= c[consumed])
    BY <1>1 DEF IsRelocated, Segments, c
  <2>3. IsRelocated(t, j, count)' <=> (s = "data" /\ t = "text") \/ (s = t /\ j <= i)
    BY <1>1, <1>12 DEF IsRelocated, Segments, c, i
  <2>4. (s = t /\ j <= i) <=> ((s = t /\ j <= c[consumed]) \/ (t = s /\ j = i))
    BY <1>5, <1>7
  <2>5. (t = s /\ j = i) => ~(j <= c[consumed]) /\ ~(s = "data" /\ t = "text")
    BY <1>7
  <2>6. QED  BY <2>2, <2>3, <2>4, <2>5
<1>14. /\ \A t \in Segments : \A j \in 1..Len(operands[t]) : \A a \in Spots(t, operands[t][j]) :
            image[a] = Byte(operands[t][j], AddressNow(t, j, count), a - Spot(t, operands[t][j]))
       /\ \A a \in Cells : ~IsOperand(operands, a) => image[a] = a % ByteSize
  BY <1>1, <1>2 DEF IsReading, ImageIsMixed
<1>15. /\ image' \in [Cells -> ByteValues]
       /\ \A a \in Spots(s, op) : image'[a] = Byte(op, Resolved(op, Base, Zp), a - Spot(s, op))
       /\ \A a \in Cells \ Spots(s, op) : image'[a] = image[a]
  <2>1. AddressNow(s, i, count) = op.value
    BY <1>1, <1>7, <1>13 DEF AddressNow, op
  <2>2. \A a \in Spots(s, op) : image[a] = Byte(op, op.value, a - Spot(s, op))
    BY <2>1, <1>1, <1>7, <1>14 DEF op
  <2>3. QED  BY <2>2, <1>1, <1>3, <1>5, <1>8, <1>9, <1>12, PatchedBytes
<1>16. ImageIsMixed(count)'
  <2>1. ASSUME NEW t \in Segments, NEW j \in 1..Len(operands[t]), NEW a \in Spots(t, operands[t][j])
        PROVE  image'[a] = Byte(operands[t][j], AddressNow(t, j, count)', a - Spot(t, operands[t][j]))
    <3>1. CASE t = s /\ j = i
      <4>1. AddressNow(t, j, count)' = Resolved(op, Base, Zp)
        BY <3>1, <1>1, <1>13 DEF AddressNow, op
      <4>2. QED  BY <4>1, <3>1, <1>15 DEF op
    <3>2. CASE ~(t = s /\ j = i)
      <4>1. a \notin Spots(s, op)
        BY <3>2, <1>1, <1>3, <1>7, OneOperand DEF op
      <4>2. a \in Cells
        <5>1. operands[t][j] \in Operands /\ EndOf(operands[t][j]) <= Size(t)
          BY <1>3 DEF Orderly
        <5>2. QED  BY <5>1, SpotFacts
      <4>3. AddressNow(t, j, count)' = AddressNow(t, j, count)
        BY <3>2, <1>1, <1>13 DEF AddressNow
      <4>4. QED  BY <4>1, <4>2, <4>3, <1>14, <1>15
    <3>3. QED  BY <3>1, <3>2
  <2>2. ASSUME NEW a \in Cells, ~IsOperand(operands, a) PROVE image'[a] = a % ByteSize
    <3>1. a \notin Spots(s, op)
      BY <2>2, <1>1, <1>7 DEF IsOperand, op
    <3>2. QED  BY <3>1, <2>2, <1>14, <1>15
  <2>3. QED  BY <2>1, <2>2, <1>1 DEF ImageIsMixed
<1>17. Accounted(count, reach)'
  BY <1>1, <1>2 DEF IsReading, Accounted
<1>18. p[r] = at /\ p[r] # -1 /\ at \in 0..(Word - 1)
  <2>1. p[r] = at /\ at \in 0..(TextSize + DataSize)
    BY <1>5, <1>8, <1>10 DEF Operands
  <2>2. QED  BY <2>1, Sizes
<1>19. ReaderIsAt(count, reach)'
  BY <1>1, <1>4, <1>12, <1>18 DEF ReaderIsAt, p, r
<1>20. RelocationTypes' /\ \A t \in Segments : Orderly(operands'[t], Size(t))
  <2>1. consumed' \in Nat /\ offset' \in 0..(Word - 1)
    BY <1>1, <1>4, <1>18
  <2>2. segment' \in Segments
    BY <1>1, <1>12
  <2>3. table \in [Segments -> Seq(RecordTypes)]
    BY DEF RelocationInv, RelocationTypes
  <2>4. operands' = operands /\ table' = table
    BY <1>1
  <2>5. image' \in [Cells -> ByteValues]
    BY <1>15
  <2>6. RelocationTypes'
    <3>1. operands' \in [Segments -> Seq(Operands)] /\ table' \in [Segments -> Seq(RecordTypes)]
      BY <2>3, <2>4, <1>3
    <3>2. segment' \in Segments \cup {"linking", "done"}
      BY <2>2
    <3>3. QED  BY <2>1, <2>5, <3>1, <3>2 DEF RelocationTypes
  <2>7. \A t \in Segments : Orderly(operands'[t], Size(t))
    BY <2>4, <1>3
  <2>8. QED  BY <2>6, <2>7
<1>21. segment' # "linking"
  BY <1>1, <1>12
<1>22. QED
  BY <1>16, <1>17, <1>19, <1>20, <1>21 DEF RelocationInv, IsReading

LEMMA RelocationSteps == RelocationInv /\ [RelocationNext]_relocationVars => RelocationInv'
<1> SUFFICES ASSUME RelocationInv, [RelocationNext]_relocationVars PROVE RelocationInv'
  OBVIOUS
<1>1. CASE \E s \in Segments, op \in Operands : LinkOperand(s, op)
  BY <1>1, LinkStep
<1>2. CASE LoadModule
  BY <1>2, LoadStep
<1>3. CASE SkipAhead
  BY <1>3, SkipStep
<1>4. CASE Relocate
  BY <1>4, RelocateStep
<1>5. CASE EndOfTable
  BY <1>5, TableEnds
<1>6. CASE UNCHANGED relocationVars
  <2>1. /\ operands' = operands /\ image' = image /\ table' = table /\ segment' = segment
        /\ consumed' = consumed /\ offset' = offset
    BY <1>6 DEF relocationVars
  <2>2. RelocationTypes' /\ \A s \in Segments : Orderly(operands'[s], Size(s))
    BY <2>1 DEF RelocationInv, RelocationTypes
  <2>3. PICK count, reach : IsReading(count, reach)
    BY DEF RelocationInv
  <2>4. Accounted(count, reach)' /\ ReaderIsAt(count, reach)'
    BY <2>1, <2>3 DEF IsReading, Accounted, ReaderIsAt
  <2>5. segment # "linking" => ImageIsMixed(count)'
    BY <2>1, <2>3 DEF IsReading, ImageIsMixed, AddressNow, IsRelocated
  <2>6. segment = "linking" => image' = Linked(operands', 0, 0)
    BY <2>1 DEF RelocationInv
  <2>7. QED
    BY <2>1, <2>2, <2>4, <2>5, <2>6 DEF RelocationInv, IsReading
<1>7. QED  BY <1>1, <1>2, <1>3, <1>4, <1>5, <1>6 DEF RelocationNext

(* An image that ld65 linked at 0 becomes, operand by operand, the image it *)
(* would have linked for the address it was loaded at, for any number of   *)
(* operands and any sizes; and no record of the linker's is refused.       *)
THEOREM ImageIsRelocated == RelocationSpec => []RelocatesAsLinked
<1>1. RelocationInv => RelocatesAsLinked
  <2> SUFFICES ASSUME RelocationInv PROVE RelocatesAsLinked
    OBVIOUS
  <2>1. segment # "bad"
    BY DEF RelocationInv, RelocationTypes, Segments
  <2>2. ASSUME segment = "done" PROVE image = Linked(operands, Base, Zp)
    <3>1. PICK count, reach : IsReading(count, reach)
      BY DEF RelocationInv
    <3>2. ImageIsMixed(count)
      BY <3>1, <2>2 DEF IsReading
    <3>3. QED  BY <3>2, <2>2, AllRelocated DEF RelocationInv
  <2>3. QED  BY <2>1, <2>2 DEF RelocatesAsLinked
<1>2. QED  BY <1>1, RelocationStarts, RelocationSteps, PTL DEF RelocationSpec

=============================================================================

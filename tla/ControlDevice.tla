---------------------------- MODULE ControlDevice ----------------------------
(***************************************************************************)
(* What the programs remember at the FujiNet, through fnctl.c of the four  *)
(* platforms: the current URI with its display path, and the disk slot of  *)
(* each drive unit.  The platforms differ in how many requests a pair      *)
(* takes, in what a failed read becomes, and in the copies a task keeps.   *)
(* A request may fail before or after it took effect.                      *)
(***************************************************************************)
EXTENDS Naturals, Sequences

CONSTANTS
  Tasks,      \* running programs linked with fnctl.c
  Platforms,  \* those of "linux", "atari", "msdos", "amiga" to look at
  Units,      \* drive units, 0 .. FNCTL_MAX_UNITS - 1
  Texts,      \* URIs; a display path has the name of its URI
  None        \* nothing stored, nothing known

ASSUME DeviceAssumption == Platforms \subseteq {"linux", "atari", "msdos", "amiga"}

VARIABLES
  host,       \* the platform
  key,        \* the stored URI and display path
  unitKey,    \* the stored slot of each unit
  ram,        \* Amiga: what each task has loaded and set itself
  call,       \* the call each task is making
  torn,       \* history: the last change of the pair failed or met another
  acked       \* history: the slot a task was told is stored, if nobody
              \* has changed it since

deviceVars == <<host, key, unitKey, ram, call, torn, acked>>

Keys == {"uri", "path"}
NoCall == [op |-> "none", rest |-> <<>>, value |-> None, unit |-> None,
           pair |-> [k \in Keys |-> None], ok |-> TRUE, alone |-> TRUE]
NoRam == [loaded |-> FALSE, pair |-> [k \in Keys |-> None], sure |-> TRUE,
          units |-> [u \in Units |-> u]]

DeviceInit ==
  /\ host \in Platforms
  /\ \E text \in Texts \cup {None} : key = [k \in Keys |-> text]
  /\ unitKey = [u \in Units |-> None]
  /\ ram = [p \in Tasks |-> NoRam]
  /\ call = [p \in Tasks |-> NoCall]
  /\ torn = FALSE
  /\ acked = [p \in Tasks |-> [u \in Units |-> None]]

-----------------------------------------------------------------------------
(* The requests fnctl_set_state and fnctl_get_state make, by what each     *)
(* carries.  Atari stores no path; the Amiga reads once in a task's life.  *)
LinuxStores == <<{"uri"}, {"path"}>>
AtariStores == <<{"uri"}>>
MsdosStores == <<{"uri", "path"}>>
AmigaStores == <<{"uri"}, {"path"}>>
Stores == [linux |-> LinuxStores, atari |-> AtariStores,
           msdos |-> MsdosStores, amiga |-> AmigaStores]

LinuxLoads == <<{"uri"}, {"path"}>>
AtariLoads == <<{"uri"}, {"path"}>>
MsdosLoads == <<{"uri", "path"}>>
AmigaLoads == <<{"uri"}, {"path"}>>
Loads == [linux |-> LinuxLoads, atari |-> AtariLoads,
          msdos |-> MsdosLoads, amiga |-> AmigaLoads]

(* What fnctl_get_unit_slot answers when there is no slot to be read.      *)
LinuxUnread(p, u) == u
AtariUnread(p, u) == u
MsdosUnread(p, u) == None
AmigaUnread(p, u) == ram[p].units[u]
Unread(p, u) ==
  CASE host = "linux" -> LinuxUnread(p, u) [] host = "atari" -> AtariUnread(p, u)
    [] host = "msdos" -> MsdosUnread(p, u) [] host = "amiga" -> AmigaUnread(p, u)

-----------------------------------------------------------------------------
Idle(p) == call[p].op = "none"
Others(p) == Tasks \ {p}
Changing(p) == \E q \in Others(p) : call[q].op = "set_state"
(* Linux and AmigaDOS run several programs; the others one after another.  *)
Multitasking == host \in {"linux", "amiga"}
Ready(p) ==
  /\ Idle(p) /\ (host = "amiga" => ram[p].loaded)
  /\ Multitasking \/ \A q \in Others(p) : Idle(q)

(* A call that nothing interferes with, while it lasts, is alone.          *)
Begin(p, c) ==
  call' = [q \in Tasks |-> IF q = p THEN c
             ELSE [call[q] EXCEPT !.alone = @ /\ c.op # "set_state"]]

(* ensure_state, before the first call of an Amiga task.                   *)
EnsureState(p) ==
  /\ host = "amiga" /\ Idle(p) /\ ~ram[p].loaded
  /\ Begin(p, [NoCall EXCEPT !.op = "load", !.rest = Loads[host],
                             !.alone = ~torn /\ ~Changing(p)])
  /\ UNCHANGED <<host, key, unitKey, ram, torn, acked>>

GetState(p) ==
  /\ Ready(p)
  /\ Begin(p, IF host = "amiga"
              THEN [NoCall EXCEPT !.op = "get_state", !.pair = ram[p].pair, !.alone = ram[p].sure]
              ELSE [NoCall EXCEPT !.op = "get_state", !.rest = Loads[host],
                                  !.alone = ~torn /\ ~Changing(p)])
  /\ UNCHANGED <<host, key, unitKey, ram, torn, acked>>

RamAfterSet(p, text) ==
  [ram[p] EXCEPT !.pair = [k \in Keys |-> text], !.sure = TRUE]
SetState(p, text) ==
  /\ Ready(p)
  /\ Begin(p, [NoCall EXCEPT !.op = "set_state", !.rest = Stores[host], !.value = text,
                             !.alone = ~Changing(p)])
  /\ ram' = IF host = "amiga" THEN [ram EXCEPT ![p] = RamAfterSet(p, text)] ELSE ram
  /\ UNCHANGED <<host, key, unitKey, torn, acked>>

(* read_key leaves an empty string when it fails; MS-DOS has one request,  *)
(* and fails.                                                              *)
ReadKey(p) ==
  LET c == call[p] IN
  /\ c.op \in {"load", "get_state"} /\ c.rest # <<>>
  /\ \/ call' = [call EXCEPT ![p].rest = Tail(@), ![p].pair =
                   [k \in Keys |-> IF k \in Head(c.rest) THEN key[k] ELSE c.pair[k]]]
     \/ call' = [call EXCEPT ![p].rest = Tail(@), ![p].ok = host # "msdos"]
  /\ UNCHANGED <<host, key, unitKey, ram, torn, acked>>

(* write_key, and the request of MS-DOS.                                   *)
Written(p) ==
  [k \in Keys |-> IF k \in Head(call[p].rest) THEN call[p].value ELSE key[k]]
AfterFailedWrite == <<>>
WriteKey(p) ==
  LET c == call[p] IN
  /\ c.op = "set_state" /\ c.rest # <<>>
  /\ \/ /\ key' = Written(p)
        /\ call' = [call EXCEPT ![p].rest = Tail(@)]
        /\ torn' = IF Len(c.rest) = 1 THEN ~c.alone ELSE torn
     \/ /\ key' \in {key, Written(p)}
        /\ call' = [call EXCEPT ![p].rest = AfterFailedWrite, ![p].ok = FALSE]
        /\ torn' = TRUE
  /\ UNCHANGED <<host, unitKey, ram, acked>>

(* fnctl_set_unit_slot: one request; the Amiga's table comes first.        *)
RamUnitsLate(p, u, slot) == ram
RamUnits(p, u, slot) ==
  IF host = "amiga" THEN [ram EXCEPT ![p].units[u] = slot] ELSE ram
StoreUnit(u, slot, answered) ==
  unitKey' = [unitKey EXCEPT ![u] = slot] \/ (~answered /\ unitKey' = unitKey)
SetUnit(p, u, slot) ==
  /\ Ready(p)
  /\ \E answered \in BOOLEAN :
       /\ StoreUnit(u, slot, answered)
       /\ acked' = [q \in Tasks |-> [acked[q] EXCEPT ![u] =
                      IF q = p /\ answered THEN slot ELSE None]]
  /\ ram' = RamUnits(p, u, slot)
  /\ UNCHANGED <<host, key, call, torn>>

GetUnit(p, u) ==
  /\ Ready(p)
  /\ \E read \in BOOLEAN :
       LET slot == IF read /\ unitKey[u] # None THEN unitKey[u] ELSE Unread(p, u)
       IN call' = [call EXCEPT ![p] = [NoCall EXCEPT !.op = "get_unit", !.unit = u,
                     !.value = slot, !.ok = slot # None, !.alone = read]]
  /\ UNCHANGED <<host, key, unitKey, ram, torn, acked>>

Return(p) ==
  /\ ~Idle(p) /\ call[p].rest = <<>>
  /\ call' = [call EXCEPT ![p] = NoCall]
  /\ ram' = IF call[p].op # "load" THEN ram
            ELSE [ram EXCEPT ![p] = [NoRam EXCEPT !.loaded = TRUE, !.pair = call[p].pair,
                                                  !.sure = call[p].alone]]
  /\ UNCHANGED <<host, key, unitKey, torn, acked>>

(* The program ends, and the next one starts with nothing.                 *)
Exit(p) ==
  /\ Idle(p)
  /\ ram' = [ram EXCEPT ![p] = NoRam]
  /\ acked' = [acked EXCEPT ![p] = [u \in Units |-> None]]
  /\ UNCHANGED <<host, key, unitKey, call, torn>>

(* A task that works with the pair, and one that works with the units.     *)
StateCall(p) ==
  \/ EnsureState(p) \/ GetState(p) \/ ReadKey(p) \/ WriteKey(p) \/ Return(p) \/ Exit(p)
  \/ \E text \in Texts : SetState(p, text)
UnitCall(p) ==
  \/ EnsureState(p) \/ ReadKey(p) \/ Return(p) \/ Exit(p)
  \/ \E u \in Units, slot \in Units : SetUnit(p, u, slot)
  \/ \E u \in Units : GetUnit(p, u)

-----------------------------------------------------------------------------
(* A URI and a path that are told together were stored together, unless a  *)
(* change of the pair failed or met this call or another change (it takes  *)
(* two requests on Linux and the Amiga); Atari stores no path at all.      *)
PairTrue(c) ==
  c.op = "get_state" /\ c.rest = <<>> /\ c.ok /\ c.alone /\ host # "atari" =>
    c.pair["uri"] = c.pair["path"] \/ None \in {c.pair["uri"], c.pair["path"]}

(* A task that was told its slot is stored is told that slot when it asks, *)
(* unless another task changed it.  On Linux and Atari a read that failed  *)
(* passes for a unit without a slot; the Amiga's table is there for this.  *)
UnitTrue(p, c) ==
  c.op = "get_unit" /\ c.ok /\ acked[p][c.unit] # None =>
    c.value = acked[p][c.unit] \/ (~c.alone /\ host \in {"linux", "atari"})

(* What the functions of fnctl.h tell a task is so, whatever requests fail *)
(* and whatever other tasks do meanwhile, except as said above.            *)
ReadsTrue == \A p \in Tasks : PairTrue(call[p]) /\ UnitTrue(p, call[p])

=============================================================================

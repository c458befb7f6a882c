------------------------------- MODULE Mounts -------------------------------
(***************************************************************************)
(* The programs that select, mount and eject disk images and select the    *)
(* host (fin, fout, fmount, fumount, fboot, fhost), over the control       *)
(* device of Linux, Atari and MS-DOS.  A program makes up to three         *)
(* requests; each may fail, before or after it took effect at the FujiNet, *)
(* and on Linux two programs run at a time.                                *)
(***************************************************************************)
EXTENDS ControlDevice

CONSTANTS
  Images,  \* image URIs a user names
  Boot,    \* the image the FujiNet boots from
  Hosts    \* host URIs a user names

VARIABLES
  kind,     \* which programs a behaviour runs
  catalog,  \* the image of each slot of the catalog
  disk,     \* the medium of each unit of the disk device
  current,  \* the current host
  past,     \* the hosts in the history, whose order nothing here depends on
  job,      \* the program each task runs
  broken    \* history: the last change of a unit failed, or an ejection met
            \* a mount

programVars == <<kind, catalog, disk, current, past, job, broken>>
vars == <<deviceVars, programVars>>

Kinds == {"state", "units", "mounts", "hosts"}
MountPrograms == {"fmount", "fumount", "fboot"}
HostPrograms == {"fhost", "fhost_set", "fhost_index", "fhost_index_D"}
NoJob == [prog |-> "none", unit |-> None, image |-> None, at |-> "rest",
          shown |-> None, met |-> {}]

Init ==
  /\ DeviceInit
  /\ kind \in Kinds
  (* The programs are those of Linux; Atari and MS-DOS run one at a time.    *)
  /\ kind \in {"mounts", "hosts"} => host = "linux"
  /\ kind # "state" => key = [k \in Keys |-> None]
  /\ catalog = [s \in Units |-> None]
  /\ disk = [u \in Units |-> None]
  /\ current = None /\ past = {}
  /\ job = [p \in Tasks |-> NoJob]
  /\ broken = [u \in Units |-> FALSE]

-----------------------------------------------------------------------------
(* Programs that change the same thing meet when they run at a time.       *)
Thing(j) ==
  IF j.prog \in HostPrograms THEN <<"host">>
  ELSE <<IF j.prog \in MountPrograms THEN "unit" ELSE "slot", j.unit>>
Resting(p) == job[p].at = "rest"
Meeting(p, j) == {q \in Others(p) : ~Resting(q) /\ Thing(job[q]) = Thing(j)}

Start(p, j) ==
  /\ Resting(p)
  /\ job' = [q \in Tasks |->
       IF q = p THEN [j EXCEPT !.met = {job[r].prog : r \in Meeting(p, j)}]
       ELSE IF q \in Meeting(p, j) THEN [job[q] EXCEPT !.met = @ \cup {j.prog}]
       ELSE job[q]]
  /\ UNCHANGED <<deviceVars, kind, catalog, disk, current, past, broken>>

FirstRequest(prog) ==
  CASE prog \in {"fin", "fout"} -> "catalog" [] prog = "fmount" -> "look_up"
    [] prog \in {"fumount", "fboot"} -> "disk" [] prog = "fhost" -> "show"
    [] OTHER -> "host"

Run(p) ==
  \/ kind = "mounts" /\ \E u \in Units, prog \in {"fout", "fumount", "fboot"} :
       Start(p, [NoJob EXCEPT !.prog = prog, !.unit = u, !.at = FirstRequest(prog)])
  \/ kind = "mounts" /\ \E u \in Units, image \in Images :
       Start(p, [NoJob EXCEPT !.prog = "fin", !.unit = u, !.image = image, !.at = "catalog"])
  (* What fmount is given is a slot, kept in shown until it is looked up.  *)
  \/ kind = "mounts" /\ \E u \in Units, slot \in Units :
       Start(p, [NoJob EXCEPT !.prog = "fmount", !.unit = u, !.shown = slot, !.at = "look_up"])
  \/ kind = "hosts" /\ \E h \in Hosts, prog \in HostPrograms :
       Start(p, [NoJob EXCEPT !.prog = prog, !.image = h, !.at = FirstRequest(prog)])

Put(p, j) == job' = [job EXCEPT ![p] = j]
Continue(p, step) == Put(p, [job[p] EXCEPT !.at = step])
(* A failure is reported, and the program ends.                            *)
Fail(p) == Put(p, NoJob)

-----------------------------------------------------------------------------
(* fnsvc_set_mount: fin puts the image into the slot, fout deletes it; an  *)
(* entry that is not there counts as deleted.                              *)
CountsAsDeletedAlways(j) == j.prog = "fout"
CountsAsDeleted(j) == j.prog = "fout" /\ catalog[j.unit] = None
AfterCatalog(p) == IF job[p].prog = "fin" THEN "show" ELSE "end"
ChangeCatalog(p) ==
  LET changed == [catalog EXCEPT ![job[p].unit] = job[p].image] IN
  /\ job[p].at = "catalog"
  /\ \/ catalog' = changed /\ Continue(p, AfterCatalog(p))
     \/ CountsAsDeleted(job[p]) /\ Continue(p, "end") /\ UNCHANGED catalog
     \/ catalog' \in {catalog, changed} /\ Fail(p)
  /\ UNCHANGED <<deviceVars, kind, disk, current, past, broken>>

(* fnsvc_get_mount in fmount.                                              *)
LookUp(p) ==
  LET image == catalog[job[p].shown] IN
  /\ job[p].at = "look_up"
  /\ \/ image # None /\ Put(p, [job[p] EXCEPT !.image = image, !.shown = None, !.at = "disk"])
     \/ Fail(p)
  /\ UNCHANGED <<deviceVars, kind, catalog, disk, current, past, broken>>

(* fnsvc_disk_mount, fnsvc_disk_unmount and fnsvc_disk_restore_boot.  A    *)
(* FujiNet that accepts the last is taken to put the default image into    *)
(* the unit; that it may keep a user's is said in amiga/fboot.c alone.     *)
Medium(j) == IF j.prog = "fboot" THEN Boot ELSE j.image
ChangeDisk(p) ==
  LET j == job[p]
      changed == [disk EXCEPT ![j.unit] = Medium(j)]
  IN /\ j.at = "disk"
     /\ \/ disk' = changed /\ Continue(p, "map") /\ UNCHANGED broken
        \/ disk' \in {disk, changed} /\ Fail(p) /\ broken' = [broken EXCEPT ![j.unit] = TRUE]
     /\ UNCHANGED <<deviceVars, kind, catalog, current, past>>

(* fnctl_set_unit_slot; fumount maps the drive to slot 0.                  *)
SlotForBoot(j) == IF j.prog = "fmount" THEN j.unit ELSE 0
SlotFor(j) == IF j.prog = "fumount" THEN 0 ELSE j.unit
Ejects(prog) == prog = "fumount"
MetOpposite(j) == \E prog \in j.met : Ejects(prog) # Ejects(j.prog)
MapUnit(p) ==
  LET j == job[p] IN
  /\ j.at = "map"
  /\ \E answered \in BOOLEAN :
       /\ StoreUnit(j.unit, SlotFor(j), answered)
       /\ IF answered THEN Continue(p, "end") ELSE Fail(p)
       /\ broken' = [broken EXCEPT ![j.unit] = ~answered \/ MetOpposite(j)]
  /\ UNCHANGED <<host, key, ram, call, torn, acked, kind, catalog, disk, current, past>>

-----------------------------------------------------------------------------
(* The host service: what is selected comes into the history.              *)
First(h) == current' = h /\ past' = past \cup {h}
Forget(h) == past' = past \ {h} /\ UNCHANGED current

(* host_set_current and host_index_command of fhost; an index is that of a *)
(* host in the history at that time.                                       *)
HostEffect(j) ==
  CASE j.prog = "fhost_set" -> First(j.image)
    [] j.prog = "fhost_index" -> j.image \in past /\ First(j.image)
    [] j.prog = "fhost_index_D" -> j.image \in past /\ Forget(j.image)
AfterHost(p) == IF job[p].prog \in {"fhost_set", "fhost_index"} THEN "show" ELSE "end"
ChangeHost(p) ==
  /\ job[p].at = "host"
  /\ \/ HostEffect(job[p]) /\ Continue(p, AfterHost(p))
     \/ (HostEffect(job[p]) \/ UNCHANGED <<current, past>>) /\ Fail(p)
  /\ UNCHANGED <<deviceVars, kind, catalog, disk, broken>>

(* fin prints what the catalog has, or what it put if it cannot read; fhost *)
(* shows the current host, and "(none)" when the FujiNet answers otherwise. *)
Show(p) ==
  LET j == job[p] IN
  /\ j.at = "show"
  /\ \/ j.prog = "fin" /\ \E shown \in {catalog[j.unit], j.image} \ {None} :
          Put(p, [j EXCEPT !.shown = shown, !.at = "end"])
     \/ j.prog # "fin" /\ \E shown \in {current, None} :
          Put(p, [j EXCEPT !.shown = shown, !.at = "end"])
     \/ j.prog # "fin" /\ Fail(p)
  /\ UNCHANGED <<deviceVars, kind, catalog, disk, current, past, broken>>

Finish(p) ==
  /\ job[p].at = "end"
  /\ Put(p, NoJob)
  /\ UNCHANGED <<deviceVars, kind, catalog, disk, current, past, broken>>

ProgramStep(p) ==
  \/ Run(p) \/ ChangeCatalog(p) \/ LookUp(p) \/ ChangeDisk(p) \/ MapUnit(p)
  \/ ChangeHost(p) \/ Show(p) \/ Finish(p)
LibraryStep(p) ==
  /\ (kind = "state" /\ StateCall(p)) \/ (kind = "units" /\ UnitCall(p))
  /\ UNCHANGED programVars
Next == \E p \in Tasks : ProgramStep(p) \/ LibraryStep(p)
Spec == Init /\ [][Next]_vars

-----------------------------------------------------------------------------
(* The control device shows drive u the disk of this unit.                 *)
Shows(u) == IF unitKey[u] = None THEN u ELSE unitKey[u]

(* A drive with a medium in it shows that medium, whatever came before,    *)
(* unless the last program that changed it failed, or an ejection and a    *)
(* mount ran at a time: the programs change the disk device and the        *)
(* drive's mapping by two requests.                                        *)
MountedIsMapped ==
  \A u \in Units :
    /\ disk[u] # None /\ ~broken[u]
    /\ \A p \in Tasks : ~(job[p].at = "map" /\ job[p].unit = u)
    => Shows(u) = u

Achieved(j) ==
  CASE j.prog = "fin" -> catalog[j.unit] = j.image /\ j.shown = j.image
    [] j.prog = "fout" -> catalog[j.unit] = None
    [] j.prog \in {"fmount", "fboot"} -> disk[j.unit] = Medium(j) /\ Shows(j.unit) = j.unit
    [] j.prog = "fumount" -> disk[j.unit] = None
    [] j.prog \in {"fhost_set", "fhost_index"} -> current = j.image /\ j.shown \in {j.image, None}
    [] j.prog = "fhost" -> j.shown \in {current, None}
    [] j.prog = "fhost_index_D" -> j.image \notin past

(* A program that reports success while nothing else worked on the same    *)
(* slot, drive or host has done what it was asked to, at the FujiNet and   *)
(* in the drive's mapping, and shows what is there.                        *)
SuccessIsTrue ==
  \A p \in Tasks : job[p].at = "end" /\ job[p].met = {} => Achieved(job[p])

=============================================================================

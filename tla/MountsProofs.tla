---------------------------- MODULE MountsProofs ----------------------------
(***************************************************************************)
(* The proofs about the mount programs and the control devices, for any    *)
(* number of tasks and units.                                              *)
(* MountedIsMapped: the programs change the disk device and the mapping by *)
(* two requests; between them a program that ejects stands in the way of   *)
(* one that mounts, and each of the two knows of the other (MountsInv).    *)
(* SuccessIsTrue: what a program that nothing met has done is still so at  *)
(* every step on its way: whoever could undo it has been met (WorkInv).    *)
(* ReadsTrue: the uri and the path are two keys.  A read nobody disturbed  *)
(* holds the keys it has read so far, a change the keys it has written, and*)
(* the keys are a whole pair while nobody is half way (DeviceInv).         *)
(***************************************************************************)
EXTENDS Mounts, TLAPS

IsJob(j) ==
  j \in [prog : {j.prog}, unit : {j.unit}, image : {j.image}, at : {j.at},
         shown : {j.shown}, met : {j.met}]
IsFunction(f, S) == f = [x \in S |-> f[x]]

TypeInv ==
  /\ IsFunction(job, Tasks) /\ \A p \in Tasks : IsJob(job[p])
  /\ IsFunction(disk, Units) /\ IsFunction(unitKey, Units) /\ IsFunction(broken, Units)

(* Programs of the same thing that run at a time know of each other.       *)
MetInv ==
  \A p, q \in Tasks :
    p # q /\ ~Resting(p) /\ ~Resting(q) /\ Thing(job[p]) = Thing(job[q]) =>
      job[q].prog \in job[p].met

(* Only these programs change a unit, and only under this kind.            *)
AtUnit == {"look_up", "disk", "map"}
UnitJob(j) ==
  /\ j.prog \in MountPrograms /\ j.unit \in Units
  /\ j.at = "look_up" => ~Ejects(j.prog)
  /\ Ejects(j.prog) => j.image = None
JobInv ==
  \A p \in Tasks : job[p].at \in AtUnit => UnitJob(job[p])
KindInv ==
  kind # "mounts" => /\ \A u \in Units : disk[u] = None
                     /\ \A p \in Tasks : job[p].at \notin AtUnit

(* What keeps an ejection from being mapped over a mount.                  *)
EjectInv ==
  \A p \in Tasks :
    job[p].at = "map" /\ Ejects(job[p].prog) /\ disk[job[p].unit] # None => MetOpposite(job[p])

(* A drive that shows another slot's disk is about to be mapped.           *)
MapInv ==
  \A u \in Units : disk[u] # None /\ ~broken[u] /\ Shows(u) # u =>
    \E p \in Tasks : job[p].at = "map" /\ job[p].unit = u

MountsInv == TypeInv /\ MetInv /\ JobInv /\ KindInv /\ EjectInv /\ MapInv

-----------------------------------------------------------------------------
LEMMA JobAt ==
  ASSUME NEW j, IsJob(j), NEW step
  PROVE  /\ IsJob([j EXCEPT !.at = step])
         /\ [j EXCEPT !.at = step].at = step /\ [j EXCEPT !.at = step].prog = j.prog
         /\ [j EXCEPT !.at = step].unit = j.unit /\ [j EXCEPT !.at = step].met = j.met
         /\ [j EXCEPT !.at = step].image = j.image /\ [j EXCEPT !.at = step].shown = j.shown
BY DEF IsJob

LEMMA PutMounts ==
  ASSUME IsFunction(job, Tasks), NEW p \in Tasks, NEW j, Put(p, j)
  PROVE  /\ job'[p] = j /\ IsFunction(job, Tasks)'
         /\ \A q \in Tasks \ {p} : job'[q] = job[q]
BY DEF IsFunction, Put

LEMMA NoJobIsJob == IsJob(NoJob) /\ NoJob.at = "rest"
BY DEF IsJob, NoJob

LEMMA MountsInit == Init => MountsInv
<1> SUFFICES ASSUME Init PROVE MountsInv  OBVIOUS
<1>1. /\ \A p \in Tasks : IsJob(job[p]) /\ job[p].at = "rest"
      /\ \A u \in Units : disk[u] = None /\ unitKey[u] = None
  BY NoJobIsJob DEF Init, DeviceInit
<1>2. TypeInv
  BY <1>1 DEF Init, DeviceInit, TypeInv, IsFunction
<1>3. MetInv /\ JobInv /\ KindInv /\ EjectInv /\ MapInv
  BY <1>1 DEF MetInv, Resting, JobInv, KindInv, EjectInv, MapInv, AtUnit
<1>4. QED  BY <1>2, <1>3 DEF MountsInv

(* A program goes on with j, or rests.                                     *)
GoesOn(p, j) ==
  /\ Put(p, j) /\ IsJob(j) /\ ~Resting(p)
  /\ \/ j.at = "rest"
     \/ j.prog = job[p].prog /\ j.unit = job[p].unit /\ j.met = job[p].met
  /\ j.at \in AtUnit => job[p].at \in AtUnit /\ UnitJob(j)

LEMMA GoingOn ==
  ASSUME MountsInv, NEW p \in Tasks, NEW j, GoesOn(p, j), UNCHANGED kind
  PROVE  /\ job'[p] = j /\ \A q \in Tasks \ {p} : job'[q] = job[q]
         /\ IsFunction(job, Tasks)' /\ \A q \in Tasks : IsJob(job[q])'
         /\ MetInv' /\ JobInv'
         /\ kind # "mounts" => \A q \in Tasks : job'[q].at \notin AtUnit
<1>1. /\ job'[p] = j /\ \A q \in Tasks \ {p} : job'[q] = job[q]
      /\ IsFunction(job, Tasks)'
  BY PutMounts DEF GoesOn, MountsInv, TypeInv
<1>2. \A q \in Tasks : IsJob(job[q])'
  BY <1>1 DEF GoesOn, MountsInv, TypeInv, IsJob
<1>3. \A q \in Tasks : job'[q].at # "rest" =>
        /\ ~Resting(q) /\ job'[q].prog = job[q].prog /\ job'[q].met = job[q].met
        /\ Thing(job'[q]) = Thing(job[q])
  BY <1>1 DEF GoesOn, Thing, Resting
<1>4. MetInv'
  BY <1>3 DEF MountsInv, MetInv, Resting, Thing
<1>5. JobInv' /\ (kind # "mounts" => \A q \in Tasks : job'[q].at \notin AtUnit)
  BY <1>1 DEF GoesOn, MountsInv, JobInv, KindInv, AtUnit
<1>6. QED  BY <1>1, <1>2, <1>4, <1>5

(* Most steps change no unit.                                              *)
LEMMA QuietStep ==
  ASSUME MountsInv, NEW p \in Tasks, NEW j, GoesOn(p, j),
         UNCHANGED <<kind, disk, unitKey, broken>>, job[p].at # "map", j.at # "map"
  PROVE  MountsInv'
<1>1. /\ job'[p] = j /\ \A q \in Tasks \ {p} : job'[q] = job[q]
      /\ IsFunction(job, Tasks)' /\ \A q \in Tasks : IsJob(job[q])'
      /\ MetInv' /\ JobInv'
      /\ kind # "mounts" => \A q \in Tasks : job'[q].at \notin AtUnit
  BY GoingOn
<1>2. TypeInv'
  BY <1>1 DEF MountsInv, TypeInv, IsFunction
<1>3. KindInv'
  BY <1>1 DEF MountsInv, KindInv
<1>4. EjectInv'
  BY <1>1 DEF MountsInv, EjectInv, MetOpposite
<1>5. MapInv'
  BY <1>1 DEF MountsInv, MapInv, Shows
<1>6. QED  BY <1>1, <1>2, <1>3, <1>4, <1>5 DEF MountsInv

LEMMA EndsQuietly ==
  ASSUME MountsInv, NEW p \in Tasks, Fail(p), ~Resting(p),
         UNCHANGED <<kind, disk, unitKey, broken>>, job[p].at # "map"
  PROVE  MountsInv'
BY NoJobIsJob, QuietStep DEF Fail, GoesOn, AtUnit

LEMMA ContinuesQuietly ==
  ASSUME MountsInv, NEW p \in Tasks, NEW step, Continue(p, step), ~Resting(p),
         step \notin AtUnit, UNCHANGED <<kind, disk, unitKey, broken>>, job[p].at # "map"
  PROVE  MountsInv'
<1>1. IsJob(job[p])
  BY DEF MountsInv, TypeInv
<1>2. GoesOn(p, [job[p] EXCEPT !.at = step]) /\ [job[p] EXCEPT !.at = step].at = step
  BY <1>1, JobAt DEF Continue, GoesOn
<1>3. QED  BY <1>2, QuietStep DEF AtUnit

-----------------------------------------------------------------------------
LEMMA JobMet ==
  ASSUME NEW j, IsJob(j), NEW met
  PROVE  /\ IsJob([j EXCEPT !.met = met])
         /\ [j EXCEPT !.met = met].at = j.at /\ [j EXCEPT !.met = met].prog = j.prog
         /\ [j EXCEPT !.met = met].unit = j.unit /\ [j EXCEPT !.met = met].met = met
         /\ [j EXCEPT !.met = met].image = j.image /\ [j EXCEPT !.met = met].shown = j.shown
BY DEF IsJob

(* A program and those it meets know of each other from its start.         *)
LEMMA StartMounts ==
  ASSUME MountsInv, NEW p \in Tasks, NEW j, Start(p, j), IsJob(j), j.at \notin {"rest", "map"},
         j.at \in AtUnit => kind = "mounts" /\ UnitJob(j)
  PROVE  MountsInv'
<1>1. UNCHANGED <<kind, disk, unitKey, broken>> /\ Resting(p)
  BY DEF Start, deviceVars
<1>2. \A q \in Tasks : IsJob(job[q])
  BY DEF MountsInv, TypeInv
<1>3. /\ IsFunction(job, Tasks)'
      /\ job'[p] = [j EXCEPT !.met = {job[r].prog : r \in Meeting(p, j)}]
      /\ \A q \in Tasks \ {p} :
           job'[q] = IF q \in Meeting(p, j) THEN [job[q] EXCEPT !.met = @ \cup {j.prog}]
                     ELSE job[q]
  BY DEF Start, IsFunction
<1>4. /\ IsJob(job'[p]) /\ job'[p].at = j.at /\ job'[p].prog = j.prog
      /\ job'[p].image = j.image /\ job'[p].unit = j.unit
      /\ job'[p].met = {job[r].prog : r \in Meeting(p, j)}
  <2> DEFINE met == {job[r].prog : r \in Meeting(p, j)}
  <2>1. job'[p] = [j EXCEPT !.met = met]
    BY <1>3
  <2> HIDE DEF met
  <2>2. /\ IsJob(job'[p]) /\ job'[p].at = j.at /\ job'[p].prog = j.prog
        /\ job'[p].image = j.image /\ job'[p].unit = j.unit /\ job'[p].met = met
    BY <2>1, JobMet
  <2>3. QED  BY <2>2 DEF met
<1>5. ASSUME NEW q \in Tasks \ {p}
      PROVE  /\ IsJob(job'[q]) /\ job'[q].at = job[q].at /\ job'[q].prog = job[q].prog
             /\ job'[q].unit = job[q].unit /\ job'[q].image = job[q].image
             /\ job[q].met \subseteq job'[q].met
             /\ q \in Meeting(p, j) => j.prog \in job'[q].met
  <2>1. CASE q \in Meeting(p, j)
    <3>1. job'[q] = [job[q] EXCEPT !.met = job[q].met \cup {j.prog}]
      BY <1>3, <2>1
    <3>2. QED  BY <1>2, <3>1, JobMet
  <2>2. CASE q \notin Meeting(p, j)
    BY <1>2, <1>3, <2>2
  <2>3. QED  BY <2>1, <2>2
<1>6. TypeInv'
  <2>1. \A q \in Tasks : IsJob(job'[q])
    BY <1>4, <1>5
  <2>2. QED  BY <1>1, <1>3, <2>1 DEF MountsInv, TypeInv, IsFunction, IsJob
<1>7. MetInv'
  <2>1. Thing(job'[p]) = Thing(j)
    BY <1>4 DEF Thing
  <2>2. \A q \in Tasks \ {p} : Thing(job'[q]) = Thing(job[q])
    BY <1>5 DEF Thing
  <2>3. \A q \in Tasks \ {p} : job[q].at # "rest" /\ Thing(job[q]) = Thing(j) =>
          q \in Meeting(p, j)
    BY DEF Meeting, Others, Resting
  <2>4. SUFFICES ASSUME NEW q \in Tasks, NEW r \in Tasks, q # r, job'[q].at # "rest",
                        job'[r].at # "rest", Thing(job'[q]) = Thing(job'[r])
                 PROVE  job'[r].prog \in job'[q].met
    BY DEF MetInv, Resting, Thing
  <2>5. CASE q = p
    BY <1>4, <1>5, <2>1, <2>2, <2>3, <2>4, <2>5
  <2>6. CASE r = p
    BY <1>4, <1>5, <2>1, <2>2, <2>3, <2>4, <2>6
  <2>7. CASE q # p /\ r # p
    <3>1. job[r].prog \in job[q].met
      BY <1>5, <2>2, <2>4, <2>7 DEF MountsInv, MetInv, Resting
    <3>2. QED  BY <1>5, <2>7, <3>1
  <2>8. QED  BY <2>5, <2>6, <2>7
<1>8. JobInv' /\ KindInv'
  BY <1>1, <1>4, <1>5 DEF MountsInv, JobInv, KindInv, AtUnit, UnitJob
<1>9. EjectInv'
  <2>1. SUFFICES ASSUME NEW q \in Tasks, job'[q].at = "map", Ejects(job'[q].prog),
                        disk[job'[q].unit] # None
                 PROVE  MetOpposite(job'[q])
    BY <1>1 DEF EjectInv, MetOpposite, Ejects
  <2>2. q # p
    BY <1>4, <2>1
  <2>3. MetOpposite(job[q])
    BY <1>5, <2>1, <2>2 DEF MountsInv, EjectInv
  <2>4. QED  BY <1>5, <2>2, <2>3 DEF MetOpposite
<1>10. MapInv'
  <2>1. \A q \in Tasks : job[q].at = "map" => q # p
    BY <1>1 DEF Resting
  <2>2. QED  BY <1>1, <1>5, <2>1 DEF MountsInv, MapInv, Shows
<1>11. QED  BY <1>6, <1>7, <1>8, <1>9, <1>10 DEF MountsInv

LEMMA RunMounts ==
  ASSUME MountsInv, NEW p \in Tasks, Run(p)
  PROVE  MountsInv'
<1> DEFINE Fits(j) == /\ IsJob(j) /\ j.at \notin {"rest", "map"}
                      /\ j.at \in AtUnit => kind = "mounts" /\ UnitJob(j)
<1>1. ASSUME kind = "mounts", NEW u \in Units, NEW prog \in {"fout", "fumount", "fboot"}
      PROVE  Fits([NoJob EXCEPT !.prog = prog, !.unit = u, !.at = FirstRequest(prog)])
  <2> DEFINE j == [NoJob EXCEPT !.prog = prog, !.unit = u, !.at = FirstRequest(prog)]
  <2>1. FirstRequest(prog) \in {"catalog", "disk"}
        /\ (FirstRequest(prog) = "disk" => prog \in {"fumount", "fboot"})
    BY DEF FirstRequest
  <2>2. /\ IsJob(j) /\ j.prog = prog /\ j.unit = u /\ j.at = FirstRequest(prog)
        /\ j.image = None
    BY DEF NoJob, IsJob
  <2>3. QED  BY <1>1, <2>1, <2>2 DEF AtUnit, MountPrograms, UnitJob
<1>2. ASSUME NEW u \in Units, NEW image \in Images
      PROVE  Fits([NoJob EXCEPT !.prog = "fin", !.unit = u, !.image = image, !.at = "catalog"])
  <2> DEFINE j == [NoJob EXCEPT !.prog = "fin", !.unit = u, !.image = image, !.at = "catalog"]
  <2>1. IsJob(j) /\ j.at = "catalog"
    BY DEF NoJob, IsJob
  <2>2. QED  BY <2>1 DEF AtUnit
<1>3. ASSUME kind = "mounts", NEW u \in Units, NEW slot \in Units
      PROVE  Fits([NoJob EXCEPT !.prog = "fmount", !.unit = u, !.shown = slot, !.at = "look_up"])
  <2> DEFINE j == [NoJob EXCEPT !.prog = "fmount", !.unit = u, !.shown = slot, !.at = "look_up"]
  <2>1. IsJob(j) /\ j.prog = "fmount" /\ j.unit = u /\ j.at = "look_up"
    BY DEF NoJob, IsJob
  <2>2. QED  BY <1>3, <2>1 DEF AtUnit, MountPrograms, UnitJob, Ejects
<1>4. ASSUME NEW h \in Hosts, NEW prog \in HostPrograms
      PROVE  Fits([NoJob EXCEPT !.prog = prog, !.image = h, !.at = FirstRequest(prog)])
  <2> DEFINE j == [NoJob EXCEPT !.prog = prog, !.image = h, !.at = FirstRequest(prog)]
  <2>1. FirstRequest(prog) \in {"show", "host"}
    BY DEF FirstRequest, HostPrograms
  <2>2. IsJob(j) /\ j.at = FirstRequest(prog)
    BY DEF NoJob, IsJob
  <2>3. QED  BY <2>1, <2>2 DEF AtUnit
<1>5. PICK j : Fits(j) /\ Start(p, j)
  BY <1>1, <1>2, <1>3, <1>4 DEF Run
<1>6. QED  BY <1>5, StartMounts

-----------------------------------------------------------------------------
LEMMA CatalogMounts ==
  ASSUME MountsInv, NEW p \in Tasks, ChangeCatalog(p)
  PROVE  MountsInv'
<1>1. job[p].at = "catalog" /\ UNCHANGED <<kind, disk, unitKey, broken>>
  BY DEF ChangeCatalog, deviceVars
<1>2. ASSUME NEW step \in {"show", "end"}, Continue(p, step) PROVE MountsInv'
  BY <1>1, <1>2, ContinuesQuietly DEF Resting, AtUnit
<1>3. CASE Fail(p)
  BY <1>1, <1>3, EndsQuietly DEF Resting
<1>4. AfterCatalog(p) \in {"show", "end"}
  BY DEF AfterCatalog
<1>5. QED  BY <1>2, <1>3, <1>4 DEF ChangeCatalog

LEMMA LookUpMounts ==
  ASSUME MountsInv, NEW p \in Tasks, LookUp(p)
  PROVE  MountsInv'
<1> DEFINE image == catalog[job[p].shown]
           j == [job[p] EXCEPT !.image = image, !.shown = None, !.at = "disk"]
<1>1. job[p].at = "look_up" /\ UNCHANGED <<kind, disk, unitKey, broken>>
  BY DEF LookUp, deviceVars
<1>2. IsJob(job[p]) /\ UnitJob(job[p])
  BY <1>1 DEF MountsInv, TypeInv, JobInv, AtUnit
<1>3. CASE Put(p, j)
  <2> HIDE DEF image
  <2>1. /\ IsJob(j) /\ j.at = "disk" /\ j.prog = job[p].prog /\ j.unit = job[p].unit
        /\ j.met = job[p].met
    BY <1>2 DEF IsJob
  <2>2. UnitJob(j)
    BY <1>1, <1>2, <2>1 DEF UnitJob
  <2> HIDE DEF j
  <2>3. GoesOn(p, j)
    BY <1>1, <1>3, <2>1, <2>2 DEF GoesOn, Resting, AtUnit
  <2>4. QED  BY <1>1, <2>1, <2>3, QuietStep
<1>4. CASE Fail(p)
  BY <1>1, <1>4, EndsQuietly DEF Resting
<1>5. QED  BY <1>3, <1>4 DEF LookUp

LEMMA HostMounts ==
  ASSUME MountsInv, NEW p \in Tasks, ChangeHost(p)
  PROVE  MountsInv'
<1>1. job[p].at = "host" /\ UNCHANGED <<kind, disk, unitKey, broken>>
  BY DEF ChangeHost, deviceVars
<1>2. ASSUME NEW step \in {"show", "end"}, Continue(p, step) PROVE MountsInv'
  BY <1>1, <1>2, ContinuesQuietly DEF Resting, AtUnit
<1>3. CASE Fail(p)
  BY <1>1, <1>3, EndsQuietly DEF Resting
<1>4. AfterHost(p) \in {"show", "end"}
  BY DEF AfterHost
<1>5. QED  BY <1>2, <1>3, <1>4 DEF ChangeHost

LEMMA ShowMounts ==
  ASSUME MountsInv, NEW p \in Tasks, Show(p)
  PROVE  MountsInv'
<1>1. job[p].at = "show" /\ UNCHANGED <<kind, disk, unitKey, broken>>
  BY DEF Show, deviceVars
<1>2. ASSUME NEW shown, Put(p, [job[p] EXCEPT !.shown = shown, !.at = "end"])
      PROVE  MountsInv'
  <2> DEFINE j == [job[p] EXCEPT !.shown = shown, !.at = "end"]
  <2>1. IsJob(job[p])
    BY DEF MountsInv, TypeInv
  <2>2. /\ IsJob(j) /\ j.at = "end" /\ j.prog = job[p].prog /\ j.unit = job[p].unit
        /\ j.met = job[p].met
    BY <2>1 DEF IsJob
  <2>3. Put(p, j)
    BY <1>2
  <2> HIDE DEF j
  <2>4. GoesOn(p, j)
    BY <1>1, <2>2, <2>3 DEF GoesOn, Resting, AtUnit
  <2>5. QED  BY <1>1, <2>2, <2>4, QuietStep
<1>3. CASE Fail(p)
  BY <1>1, <1>3, EndsQuietly DEF Resting
<1>4. QED  BY <1>2, <1>3 DEF Show

LEMMA FinishMounts ==
  ASSUME MountsInv, NEW p \in Tasks, Finish(p)
  PROVE  MountsInv'
BY EndsQuietly DEF Finish, Fail, Resting, deviceVars

(* The disk of a unit changes under programs that have met this one.       *)
LEMMA DiskMounts ==
  ASSUME MountsInv, NEW p \in Tasks, ChangeDisk(p)
  PROVE  MountsInv'
<1>1. /\ job[p].at = "disk" /\ IsJob(job[p]) /\ UnitJob(job[p]) /\ kind = "mounts"
      /\ UNCHANGED <<kind, unitKey>>
  BY DEF ChangeDisk, deviceVars, MountsInv, TypeInv, JobInv, KindInv, AtUnit
<1>2. PICK u \in Units : u = job[p].unit
  BY <1>1 DEF UnitJob
<1>3. /\ IsFunction(disk, Units)' /\ IsFunction(broken, Units)'
      /\ \A v \in Units \ {u} : disk'[v] = disk[v] /\ broken'[v] = broken[v]
      /\ disk'[u] \in {disk[u], Medium(job[p])}
  BY <1>2 DEF ChangeDisk, MountsInv, TypeInv, IsFunction
<1>4. Ejects(job[p].prog) => Medium(job[p]) = None
  BY <1>1 DEF UnitJob, Medium, Ejects
<1>5. PICK j : /\ GoesOn(p, j)
               /\ \/ j.at = "rest" /\ broken'[u]
                  \/ j.at = "map" /\ j.prog = job[p].prog /\ j.unit = u
                     /\ disk'[u] = Medium(job[p])
  <2>1. CASE Fail(p) /\ broken' = [broken EXCEPT ![u] = TRUE]
    BY <1>1, <2>1, NoJobIsJob DEF Fail, GoesOn, Resting, AtUnit, MountsInv, TypeInv, IsFunction
  <2>2. CASE Continue(p, "map") /\ disk' = [disk EXCEPT ![u] = Medium(job[p])]
    <3> DEFINE j == [job[p] EXCEPT !.at = "map"]
    <3>1. /\ IsJob(j) /\ j.at = "map" /\ j.prog = job[p].prog /\ j.unit = job[p].unit
          /\ j.met = job[p].met /\ j.image = job[p].image
      BY <1>1 DEF IsJob
    <3>2. Put(p, j)
      BY <2>2 DEF Continue
    <3> HIDE DEF j
    <3>3. UnitJob(j)
      BY <1>1, <3>1 DEF UnitJob
    <3>4. GoesOn(p, j)
      BY <1>1, <3>1, <3>2, <3>3 DEF GoesOn, Resting, AtUnit
    <3>5. disk'[u] = Medium(job[p])
      BY <2>2 DEF MountsInv, TypeInv, IsFunction
    <3>6. QED  BY <1>2, <3>1, <3>4, <3>5
  <2>3. QED  BY <1>2, <2>1, <2>2 DEF ChangeDisk
<1>6. /\ job'[p] = j /\ \A q \in Tasks \ {p} : job'[q] = job[q]
      /\ IsFunction(job, Tasks)' /\ \A q \in Tasks : IsJob(job[q])'
      /\ MetInv' /\ JobInv'
  BY <1>1, <1>5, GoingOn
<1>7. TypeInv'
  BY <1>1, <1>3, <1>6 DEF MountsInv, TypeInv, IsFunction
<1>8. KindInv'
  BY <1>1 DEF KindInv
<1>9. EjectInv'
  <2>1. SUFFICES ASSUME NEW q \in Tasks, job'[q].at = "map", Ejects(job'[q].prog),
                        disk'[job'[q].unit] # None
                 PROVE  MetOpposite(job'[q])
    BY DEF EjectInv, MetOpposite, Ejects
  <2>2. q # p
    BY <1>4, <1>5, <1>6, <2>1
  <2>3. job'[q] = job[q] /\ job[q].unit \in Units
    BY <1>6, <2>1, <2>2 DEF MountsInv, JobInv, UnitJob, AtUnit
  <2>4. CASE disk[job[q].unit] # None
    BY <2>1, <2>3, <2>4 DEF MountsInv, EjectInv
  <2>5. CASE disk[job[q].unit] = None
    <3>1. job[q].unit = u /\ ~Ejects(job[p].prog)
      BY <1>3, <1>4, <2>1, <2>3, <2>5
    <3>2. Thing(job[q]) = Thing(job[p])
      <4>1. job[q].prog \in MountPrograms
        BY <2>1, <2>3 DEF MountsInv, JobInv, UnitJob, AtUnit
      <4>2. job[p].prog \in MountPrograms
        BY <1>1 DEF UnitJob
      <4>3. QED  BY <1>2, <3>1, <4>1, <4>2 DEF Thing, MountPrograms, HostPrograms
    <3>3. job[p].prog \in job[q].met
      BY <1>1, <2>1, <2>2, <2>3, <3>2 DEF MountsInv, MetInv, Resting
    <3>4. QED  BY <2>1, <2>3, <3>1, <3>3 DEF MetOpposite, Ejects
  <2>6. QED  BY <2>4, <2>5
<1>10. MapInv'
  <2>1. SUFFICES ASSUME NEW v \in Units, disk'[v] # None, ~broken'[v], Shows(v)' # v
                 PROVE  \E q \in Tasks : job'[q].at = "map" /\ job'[q].unit = v
    BY DEF MapInv
  <2>2. CASE v = u
    BY <1>2, <1>5, <1>6, <2>1, <2>2
  <2>3. CASE v # u
    <3>1. disk[v] # None /\ ~broken[v] /\ Shows(v) # v
      BY <1>1, <1>3, <2>1, <2>3 DEF Shows
    <3>2. PICK q \in Tasks : job[q].at = "map" /\ job[q].unit = v
      BY <3>1 DEF MountsInv, MapInv
    <3>3. q # p
      BY <1>1, <3>2
    <3>4. QED  BY <1>6, <3>2, <3>3
  <2>4. QED  BY <2>2, <2>3
<1>11. QED  BY <1>6, <1>7, <1>8, <1>9, <1>10 DEF MountsInv

(* An ejection that is mapped over a medium has met the mount of it.       *)
LEMMA MapMounts ==
  ASSUME MountsInv, NEW p \in Tasks, MapUnit(p)
  PROVE  MountsInv'
<1>1. /\ job[p].at = "map" /\ IsJob(job[p]) /\ UnitJob(job[p]) /\ kind = "mounts"
      /\ UNCHANGED <<kind, disk>>
  BY DEF MapUnit, MountsInv, TypeInv, JobInv, KindInv, AtUnit
<1>2. PICK u \in Units : u = job[p].unit
  BY <1>1 DEF UnitJob
<1>3. PICK answered \in BOOLEAN :
        /\ StoreUnit(u, SlotFor(job[p]), answered)
        /\ IF answered THEN Continue(p, "end") ELSE Fail(p)
        /\ broken' = [broken EXCEPT ![u] = ~answered \/ MetOpposite(job[p])]
  BY <1>2 DEF MapUnit
<1>4. /\ IsFunction(unitKey, Units)' /\ IsFunction(broken, Units)'
      /\ \A v \in Units \ {u} : unitKey'[v] = unitKey[v] /\ broken'[v] = broken[v]
      /\ broken'[u] = (~answered \/ MetOpposite(job[p]))
      /\ answered => unitKey'[u] = SlotFor(job[p])
  BY <1>3 DEF StoreUnit, MountsInv, TypeInv, IsFunction
<1>5. PICK j : GoesOn(p, j) /\ j.at \in {"rest", "end"}
  <2>1. CASE Fail(p)
    BY <1>1, <2>1, NoJobIsJob DEF Fail, GoesOn, Resting, AtUnit
  <2>2. CASE Continue(p, "end")
    <3> DEFINE j == [job[p] EXCEPT !.at = "end"]
    <3>1. /\ IsJob(j) /\ j.at = "end" /\ j.prog = job[p].prog /\ j.unit = job[p].unit
          /\ j.met = job[p].met
      BY <1>1, JobAt
    <3>2. Put(p, j)
      BY <2>2 DEF Continue
    <3> HIDE DEF j
    <3>3. GoesOn(p, j)
      BY <1>1, <3>1, <3>2 DEF GoesOn, Resting, AtUnit
    <3>4. QED  BY <3>1, <3>3
  <2>3. QED  BY <1>3, <2>1, <2>2
<1>6. /\ job'[p] = j /\ \A q \in Tasks \ {p} : job'[q] = job[q]
      /\ IsFunction(job, Tasks)' /\ \A q \in Tasks : IsJob(job[q])'
      /\ MetInv' /\ JobInv'
  BY <1>1, <1>5, GoingOn
<1>7. TypeInv'
  BY <1>1, <1>4, <1>6 DEF MountsInv, TypeInv, IsFunction
<1>8. KindInv'
  BY <1>1 DEF KindInv
<1>9. EjectInv'
  BY <1>1, <1>5, <1>6 DEF MountsInv, EjectInv, MetOpposite
<1>10. MapInv'
  <2>1. SUFFICES ASSUME NEW v \in Units, disk[v] # None, ~broken'[v], Shows(v)' # v
                 PROVE  \E q \in Tasks : job'[q].at = "map" /\ job'[q].unit = v
    BY <1>1 DEF MapInv
  <2>2. CASE v = u
    <3>1. ~MetOpposite(job[p]) /\ unitKey'[u] = SlotFor(job[p])
      BY <1>3, <1>4, <2>1, <2>2
    <3>2. ~Ejects(job[p].prog)
      BY <1>1, <1>2, <2>1, <2>2, <3>1 DEF MountsInv, EjectInv
    <3>3. unitKey'[u] = u
      BY <1>2, <3>1, <3>2 DEF SlotFor, Ejects
    <3>4. QED  BY <2>1, <2>2, <3>3 DEF Shows
  <2>3. CASE v # u
    <3>1. Shows(v) # v /\ ~broken[v]
      BY <1>4, <2>1, <2>3 DEF Shows
    <3>2. PICK q \in Tasks : job[q].at = "map" /\ job[q].unit = v
      BY <2>1, <3>1 DEF MountsInv, MapInv
    <3>3. q # p
      BY <1>2, <2>3, <3>2
    <3>4. QED  BY <1>6, <3>2, <3>3
  <2>4. QED  BY <2>2, <2>3
<1>11. QED  BY <1>6, <1>7, <1>8, <1>9, <1>10 DEF MountsInv

(* The calls of other tasks are made under other kinds.                    *)
LEMMA LibraryMounts ==
  ASSUME MountsInv, NEW p \in Tasks, LibraryStep(p)
  PROVE  MountsInv'
<1>1. UNCHANGED <<kind, disk, job, broken>> /\ kind \in {"state", "units"}
  BY DEF LibraryStep, programVars
<1>2. IsFunction(unitKey, Units)' /\ (kind = "state" => UNCHANGED unitKey)
  <2>1. CASE kind = "state" /\ StateCall(p)
    <3>1. UNCHANGED unitKey
      BY <2>1 DEF StateCall, EnsureState, GetState, ReadKey, WriteKey, Return, Exit, SetState
    <3>2. QED  BY <3>1 DEF MountsInv, TypeInv, IsFunction
  <2>2. CASE kind = "units" /\ UnitCall(p)
    <3>1. \/ UNCHANGED unitKey
          \/ \E u \in Units, slot \in Units : unitKey' = [unitKey EXCEPT ![u] = slot]
      BY <2>2 DEF UnitCall, EnsureState, ReadKey, Return, Exit, GetUnit, SetUnit, StoreUnit
    <3>2. QED  BY <2>2, <3>1 DEF MountsInv, TypeInv, IsFunction
  <2>3. QED  BY <2>1, <2>2 DEF LibraryStep
<1>3. TypeInv'
  BY <1>1, <1>2 DEF MountsInv, TypeInv, IsFunction
<1>4. MetInv' /\ JobInv' /\ KindInv' /\ EjectInv'
  BY <1>1 DEF MountsInv, MetInv, Resting, JobInv, KindInv, EjectInv
<1>5. MapInv'
  BY <1>1 DEF MountsInv, KindInv, MapInv
<1>6. QED  BY <1>3, <1>4, <1>5 DEF MountsInv

-----------------------------------------------------------------------------
LEMMA MountsStep == MountsInv /\ [Next]_vars => MountsInv'
<1> SUFFICES ASSUME MountsInv, [Next]_vars PROVE MountsInv'  OBVIOUS
<1>1. ASSUME NEW p \in Tasks, ProgramStep(p) PROVE MountsInv'
  <2>1. CASE Run(p)  BY <2>1, RunMounts
  <2>2. CASE ChangeCatalog(p)  BY <2>2, CatalogMounts
  <2>3. CASE LookUp(p)  BY <2>3, LookUpMounts
  <2>4. CASE ChangeDisk(p)  BY <2>4, DiskMounts
  <2>5. CASE MapUnit(p)  BY <2>5, MapMounts
  <2>6. CASE ChangeHost(p)  BY <2>6, HostMounts
  <2>7. CASE Show(p)  BY <2>7, ShowMounts
  <2>8. CASE Finish(p)  BY <2>8, FinishMounts
  <2>9. QED
    BY <1>1, <2>1, <2>2, <2>3, <2>4, <2>5, <2>6, <2>7, <2>8 DEF ProgramStep
<1>2. ASSUME NEW p \in Tasks, LibraryStep(p) PROVE MountsInv'  BY <1>2, LibraryMounts
<1>3. CASE UNCHANGED vars
  <2>1. UNCHANGED <<kind, disk, job, broken, unitKey>>
    BY <1>3 DEF vars, programVars, deviceVars
  <2>2. TypeInv'  BY <2>1 DEF MountsInv, TypeInv, IsFunction
  <2>3. MetInv' /\ JobInv' /\ KindInv' /\ EjectInv'
    BY <2>1 DEF MountsInv, MetInv, Resting, JobInv, KindInv, EjectInv
  <2>4. MapInv'  BY <2>1 DEF MountsInv, MapInv, Shows
  <2>5. QED  BY <2>2, <2>3, <2>4 DEF MountsInv
<1>4. QED  BY <1>1, <1>2, <1>3 DEF Next

(* fmount, fumount and fboot change a unit's disk and its mapping by two    *)
(* requests: whatever interleaves and fails elsewhere, a mounted drive     *)
(* shows its own disk, unless its last change failed or an ejection and a  *)
(* mount of it met.                                                        *)
THEOREM MountedDrivesMapped == Spec => []MountedIsMapped
<1>1. MountsInv => MountedIsMapped
  BY DEF MountsInv, MapInv, MountedIsMapped
<1>2. QED  BY <1>1, MountsInit, MountsStep, PTL DEF Spec

-----------------------------------------------------------------------------
(* SuccessIsTrue: what a program that nothing met has done so far is so.   *)
Makes(j) ==
  /\ j.at \in {"rest", "catalog", "look_up", "disk", "map", "host", "show", "end"}
  /\ j.at # "rest" /\ j.prog \notin HostPrograms =>
       j.prog \in MountPrograms \cup {"fin", "fout"} /\ j.unit \in Units
  /\ j.at = "catalog" => j.prog \in {"fin", "fout"} /\ (j.prog = "fout" => j.image = None)
  /\ j.at = "look_up" => j.prog = "fmount"
  /\ j.at \in {"disk", "map"} =>
       j.prog \in MountPrograms /\ (j.prog = "fumount" => j.image = None)
  /\ j.at = "host" => j.prog \in {"fhost_set", "fhost_index", "fhost_index_D"}
  /\ j.at = "show" => j.prog \in {"fin", "fhost", "fhost_set", "fhost_index"}
Done(j) ==
  /\ j.at = "map" => disk[j.unit] = Medium(j)
  /\ j.at = "show" /\ j.prog = "fin" => catalog[j.unit] = j.image
  /\ j.at = "show" /\ j.prog \in {"fhost_set", "fhost_index"} => current = j.image
  /\ j.at = "end" => Achieved(j)
WorkInv ==
  /\ IsFunction(catalog, Units)
  /\ kind \notin {"mounts", "hosts"} => \A p \in Tasks : Resting(p)
  /\ \A p \in Tasks : Makes(job[p]) /\ (job[p].met = {} => Done(job[p]))

(* A step changes nothing but thing t.                                     *)
OnlyThing(t) ==
  /\ \A s \in Units : t # <<"slot", s>> => catalog'[s] = catalog[s]
  /\ \A u \in Units : t # <<"unit", u>> => disk'[u] = disk[u] /\ unitKey'[u] = unitKey[u]
  /\ t # <<"host">> => UNCHANGED <<current, past>>

LEMMA StaysDone ==
  ASSUME NEW j, Makes(j), Done(j), NEW t, OnlyThing(t), j.at # "rest" => Thing(j) # t
  PROVE  Done(j)'
<1>1. CASE j.at = "rest"
  BY <1>1 DEF Done
<1>2. CASE j.at # "rest" /\ j.prog \in HostPrograms
  <2>1. UNCHANGED <<current, past>>
    BY <1>2 DEF Thing, OnlyThing
  <2>2. QED  BY <1>2, <2>1 DEF Makes, Done, Achieved, HostPrograms, MountPrograms
<1>3. CASE j.at # "rest" /\ j.prog \in {"fin", "fout"}
  <2>1. catalog'[j.unit] = catalog[j.unit]
    BY <1>3 DEF Thing, OnlyThing, Makes, HostPrograms, MountPrograms
  <2>2. QED  BY <1>3, <2>1 DEF Makes, Done, Achieved, HostPrograms, MountPrograms
<1>4. CASE j.at # "rest" /\ j.prog \in MountPrograms
  <2>1. disk'[j.unit] = disk[j.unit] /\ unitKey'[j.unit] = unitKey[j.unit]
    BY <1>4 DEF Thing, OnlyThing, Makes, HostPrograms, MountPrograms
  <2>2. QED  BY <1>4, <2>1 DEF Makes, Done, Achieved, Medium, Shows, HostPrograms, MountPrograms
<1>5. QED  BY <1>1, <1>2, <1>3, <1>4 DEF Makes

(* A program goes on with j, and changes no more than its own thing.       *)
LEMMA WorkGoesOn ==
  ASSUME MountsInv, WorkInv, NEW p \in Tasks, ~Resting(p), NEW j, Put(p, j),
         Makes(j), j.met = {} => Done(j)', OnlyThing(Thing(job[p])),
         IsFunction(catalog, Units)', UNCHANGED kind
  PROVE  WorkInv'
<1>1. job'[p] = j /\ \A q \in Tasks \ {p} : job'[q] = job[q]
  BY PutMounts DEF MountsInv, TypeInv
<1>2. ASSUME NEW q \in Tasks \ {p}, job[q].met = {}  PROVE Done(job[q])'
  <2>1. job[q].at # "rest" => Thing(job[q]) # Thing(job[p])
    BY <1>2 DEF MountsInv, MetInv, Resting
  <2>2. Makes(job[q]) /\ Done(job[q])
    BY <1>2 DEF WorkInv
  <2>3. PICK k : k = job[q]
    OBVIOUS
  <2>4. Done(k)'
    BY <2>1, <2>2, <2>3, StaysDone
  <2>5. QED  BY <1>1, <2>3, <2>4
<1>3. QED  BY <1>1, <1>2 DEF WorkInv, Resting

LEMMA NoJobDone == Makes(NoJob) /\ Done(NoJob)'
BY DEF NoJob, Makes, Done

LEMMA FailWorks ==
  ASSUME MountsInv, WorkInv, NEW p \in Tasks, ~Resting(p), Fail(p), OnlyThing(Thing(job[p])),
         IsFunction(catalog, Units)', UNCHANGED kind
  PROVE  WorkInv'
BY NoJobDone, WorkGoesOn DEF Fail

LEMMA ContinueWorks ==
  ASSUME MountsInv, WorkInv, NEW p \in Tasks, ~Resting(p), NEW step, Continue(p, step),
         NEW j, j = [job[p] EXCEPT !.at = step],
         IsJob(j) /\ j.at = step /\ j.prog = job[p].prog /\ j.unit = job[p].unit
           /\ j.image = job[p].image /\ j.shown = job[p].shown =>
             Makes(j) /\ (job[p].met = {} => Done(j)'),
         OnlyThing(Thing(job[p])), IsFunction(catalog, Units)', UNCHANGED kind
  PROVE  WorkInv'
<1>1. IsJob(job[p])
  BY DEF MountsInv, TypeInv
<1>2. /\ IsJob(j) /\ j.at = step /\ j.prog = job[p].prog /\ j.unit = job[p].unit
      /\ j.image = job[p].image /\ j.shown = job[p].shown /\ j.met = job[p].met
  BY <1>1, JobAt
<1>3. Put(p, j)
  BY DEF Continue
<1>4. QED  BY <1>2, <1>3, WorkGoesOn

LEMMA CatalogWorks ==
  ASSUME MountsInv, WorkInv, NEW p \in Tasks, ChangeCatalog(p)
  PROVE  WorkInv'
<1> DEFINE u == job[p].unit
<1>1. /\ job[p].at = "catalog" /\ ~Resting(p) /\ job[p].prog \in {"fin", "fout"} /\ u \in Units
      /\ job[p].prog = "fout" => job[p].image = None
      /\ IsFunction(catalog, Units)
      /\ UNCHANGED <<kind, disk, unitKey, current, past>>
  BY DEF ChangeCatalog, deviceVars, WorkInv, Makes, Resting, HostPrograms
<1>2. /\ IsFunction(catalog, Units)' /\ \A s \in Units \ {u} : catalog'[s] = catalog[s]
      /\ catalog' = [catalog EXCEPT ![u] = job[p].image] => catalog'[u] = job[p].image
  BY <1>1 DEF ChangeCatalog, IsFunction
<1>3. OnlyThing(Thing(job[p]))
  <2>1. Thing(job[p]) = <<"slot", u>>
    BY <1>1 DEF Thing, MountPrograms, HostPrograms
  <2>2. QED  BY <1>1, <1>2, <2>1 DEF OnlyThing
<1>4. CASE catalog' = [catalog EXCEPT ![u] = job[p].image] /\ Continue(p, AfterCatalog(p))
  <2>1. PICK j : j = [job[p] EXCEPT !.at = AfterCatalog(p)]
    OBVIOUS
  <2>2. ASSUME j.at = AfterCatalog(p), j.prog = job[p].prog, j.unit = u, j.image = job[p].image
        PROVE  Makes(j) /\ Done(j)'
    BY <1>1, <1>2, <1>4, <2>2 DEF Makes, Done, Achieved, AfterCatalog, HostPrograms, MountPrograms
  <2>3. QED  BY <1>1, <1>2, <1>3, <1>4, <2>1, <2>2, ContinueWorks
<1>5. CASE CountsAsDeleted(job[p]) /\ Continue(p, "end") /\ UNCHANGED catalog
  <2>1. PICK j : j = [job[p] EXCEPT !.at = "end"]
    OBVIOUS
  <2>2. ASSUME j.at = "end", j.prog = job[p].prog, j.unit = u
        PROVE  Makes(j) /\ Done(j)'
    BY <1>1, <1>5, <2>2
    DEF Makes, Done, Achieved, CountsAsDeleted, HostPrograms, MountPrograms
  <2>3. QED  BY <1>1, <1>2, <1>3, <1>5, <2>1, <2>2, ContinueWorks
<1>6. CASE Fail(p)
  BY <1>1, <1>2, <1>3, <1>6, FailWorks
<1>7. QED  BY <1>4, <1>5, <1>6 DEF ChangeCatalog

LEMMA LookUpWorks ==
  ASSUME MountsInv, WorkInv, NEW p \in Tasks, LookUp(p)
  PROVE  WorkInv'
<1>1. /\ job[p].at = "look_up" /\ ~Resting(p) /\ job[p].prog = "fmount" /\ job[p].unit \in Units
      /\ IsFunction(catalog, Units) /\ IsJob(job[p])
      /\ UNCHANGED <<kind, catalog, disk, unitKey, current, past>>
  BY DEF LookUp, deviceVars, WorkInv, Makes, Resting, HostPrograms, MountsInv, TypeInv
<1>2. IsFunction(catalog, Units)' /\ OnlyThing(Thing(job[p]))
  BY <1>1 DEF IsFunction, OnlyThing
<1>3. PICK image : image = catalog[job[p].shown]
  OBVIOUS
<1>4. CASE Put(p, [job[p] EXCEPT !.image = image, !.shown = None, !.at = "disk"])
  <2>1. PICK j : j = [job[p] EXCEPT !.image = image, !.shown = None, !.at = "disk"]
    OBVIOUS
  <2>2. j.at = "disk" /\ j.prog = job[p].prog /\ j.unit = job[p].unit
    BY <1>1, <2>1 DEF IsJob
  <2>3. Makes(j) /\ Done(j)'
    BY <1>1, <2>2 DEF Makes, Done, HostPrograms, MountPrograms
  <2>4. QED  BY <1>1, <1>2, <1>4, <2>1, <2>3, WorkGoesOn
<1>5. CASE Fail(p)
  BY <1>1, <1>2, <1>5, FailWorks
<1>6. QED  BY <1>3, <1>4, <1>5 DEF LookUp

LEMMA DiskWorks ==
  ASSUME MountsInv, WorkInv, NEW p \in Tasks, ChangeDisk(p)
  PROVE  WorkInv'
<1> DEFINE u == job[p].unit
<1>1. /\ job[p].at = "disk" /\ ~Resting(p) /\ job[p].prog \in MountPrograms /\ u \in Units
      /\ job[p].prog = "fumount" => job[p].image = None
      /\ IsFunction(catalog, Units) /\ IsFunction(disk, Units)
      /\ UNCHANGED <<kind, catalog, unitKey, current, past>>
  BY DEF ChangeDisk, deviceVars, WorkInv, Makes, Resting, HostPrograms, MountPrograms,
         MountsInv, TypeInv
<1>2. /\ IsFunction(catalog, Units)' /\ \A v \in Units \ {u} : disk'[v] = disk[v]
      /\ disk' = [disk EXCEPT ![u] = Medium(job[p])] => disk'[u] = Medium(job[p])
  BY <1>1 DEF ChangeDisk, IsFunction
<1>3. OnlyThing(Thing(job[p]))
  <2>1. Thing(job[p]) = <<"unit", u>>
    BY <1>1 DEF Thing, MountPrograms, HostPrograms
  <2>2. QED  BY <1>1, <1>2, <2>1 DEF OnlyThing
<1>4. CASE disk' = [disk EXCEPT ![u] = Medium(job[p])] /\ Continue(p, "map")
  <2>1. PICK j : j = [job[p] EXCEPT !.at = "map"]
    OBVIOUS
  <2>2. ASSUME j.at = "map", j.prog = job[p].prog, j.unit = u, j.image = job[p].image
        PROVE  Makes(j) /\ Done(j)'
    BY <1>1, <1>2, <1>4, <2>2 DEF Makes, Done, Medium, HostPrograms, MountPrograms
  <2>3. QED  BY <1>1, <1>2, <1>3, <1>4, <2>1, <2>2, ContinueWorks
<1>5. CASE Fail(p)
  BY <1>1, <1>2, <1>3, <1>5, FailWorks
<1>6. QED  BY <1>4, <1>5 DEF ChangeDisk

LEMMA MapWorks ==
  ASSUME MountsInv, WorkInv, NEW p \in Tasks, MapUnit(p)
  PROVE  WorkInv'
<1> DEFINE u == job[p].unit
<1>1. /\ job[p].at = "map" /\ ~Resting(p) /\ job[p].prog \in MountPrograms /\ u \in Units
      /\ job[p].prog = "fumount" => job[p].image = None
      /\ job[p].met = {} => disk[u] = Medium(job[p])
      /\ IsFunction(catalog, Units) /\ IsFunction(unitKey, Units)
      /\ UNCHANGED <<kind, catalog, disk, current, past>>
  BY DEF MapUnit, WorkInv, Makes, Done, Resting, HostPrograms, MountPrograms, MountsInv, TypeInv
<1>2. PICK answered \in BOOLEAN :
        /\ StoreUnit(u, SlotFor(job[p]), answered)
        /\ IF answered THEN Continue(p, "end") ELSE Fail(p)
  BY DEF MapUnit
<1>3. /\ IsFunction(catalog, Units)' /\ \A v \in Units \ {u} : unitKey'[v] = unitKey[v]
      /\ answered => unitKey'[u] = SlotFor(job[p])
  BY <1>1, <1>2 DEF StoreUnit, IsFunction
<1>4. OnlyThing(Thing(job[p]))
  <2>1. Thing(job[p]) = <<"unit", u>>
    BY <1>1 DEF Thing, MountPrograms, HostPrograms
  <2>2. QED  BY <1>1, <1>3, <2>1 DEF OnlyThing
<1>5. CASE answered
  <2>1. PICK j : j = [job[p] EXCEPT !.at = "end"]
    OBVIOUS
  <2>2. ASSUME j.at = "end", j.prog = job[p].prog, j.unit = u, j.image = job[p].image
        PROVE  Makes(j) /\ (job[p].met = {} => Done(j)')
    BY <1>1, <1>3, <1>5, <2>2
    DEF Makes, Done, Achieved, Medium, Shows, SlotFor, HostPrograms, MountPrograms
  <2>3. QED  BY <1>1, <1>2, <1>3, <1>4, <1>5, <2>1, <2>2, ContinueWorks
<1>6. CASE ~answered
  BY <1>1, <1>2, <1>3, <1>4, <1>6, FailWorks
<1>7. QED  BY <1>5, <1>6

LEMMA HostWorks ==
  ASSUME MountsInv, WorkInv, NEW p \in Tasks, ChangeHost(p)
  PROVE  WorkInv'
<1>1. /\ job[p].at = "host" /\ ~Resting(p)
      /\ job[p].prog \in {"fhost_set", "fhost_index", "fhost_index_D"}
      /\ IsFunction(catalog, Units) /\ UNCHANGED <<kind, catalog, disk, unitKey>>
  BY DEF ChangeHost, deviceVars, WorkInv, Makes, Resting
<1>2. IsFunction(catalog, Units)' /\ OnlyThing(Thing(job[p]))
  BY <1>1 DEF IsFunction, OnlyThing, Thing, HostPrograms
<1>3. CASE HostEffect(job[p]) /\ Continue(p, AfterHost(p))
  <2>1. PICK j : j = [job[p] EXCEPT !.at = AfterHost(p)]
    OBVIOUS
  <2>2. ASSUME j.at = AfterHost(p), j.prog = job[p].prog, j.image = job[p].image
        PROVE  Makes(j) /\ Done(j)'
    BY <1>1, <1>3, <2>2
    DEF HostEffect, First, Forget, AfterHost, Makes, Done, Achieved, HostPrograms
  <2>3. QED  BY <1>1, <1>2, <1>3, <2>1, <2>2, ContinueWorks
<1>4. CASE Fail(p)
  BY <1>1, <1>2, <1>4, FailWorks
<1>5. QED  BY <1>3, <1>4 DEF ChangeHost

LEMMA ShowWorks ==
  ASSUME MountsInv, WorkInv, NEW p \in Tasks, Show(p)
  PROVE  WorkInv'
<1>1. /\ job[p].at = "show" /\ ~Resting(p) /\ IsJob(job[p]) /\ Makes(job[p])
      /\ job[p].prog \in {"fin", "fhost", "fhost_set", "fhost_index"}
      /\ job[p].met = {} => Done(job[p])
      /\ IsFunction(catalog, Units) /\ UNCHANGED <<kind, catalog, disk, unitKey, current, past>>
  BY DEF Show, deviceVars, WorkInv, Makes, Resting, MountsInv, TypeInv
<1>2. IsFunction(catalog, Units)' /\ OnlyThing(Thing(job[p]))
  BY <1>1 DEF IsFunction, OnlyThing
<1>3. ASSUME NEW shown, Put(p, [job[p] EXCEPT !.shown = shown, !.at = "end"]),
             IF job[p].prog = "fin" THEN shown \in {catalog[job[p].unit], job[p].image}
             ELSE shown \in {current, None}
      PROVE  WorkInv'
  <2>1. PICK j : j = [job[p] EXCEPT !.shown = shown, !.at = "end"]
    OBVIOUS
  <2>2. /\ j.at = "end" /\ j.shown = shown /\ j.prog = job[p].prog /\ j.unit = job[p].unit
        /\ j.image = job[p].image /\ j.met = job[p].met
    BY <1>1, <2>1 DEF IsJob
  <2>3. Makes(j)
    BY <1>1, <2>2 DEF Makes
  <2>4. j.met = {} => Done(j)'
    BY <1>1, <1>3, <2>2 DEF Done, Achieved
  <2>5. QED  BY <1>1, <1>2, <1>3, <2>1, <2>3, <2>4, WorkGoesOn
<1>4. CASE Fail(p)
  BY <1>1, <1>2, <1>4, FailWorks
<1>5. QED  BY <1>1, <1>3, <1>4 DEF Show

LEMMA FinishWorks ==
  ASSUME MountsInv, WorkInv, NEW p \in Tasks, Finish(p)
  PROVE  WorkInv'
<1>1. /\ ~Resting(p) /\ Fail(p) /\ IsFunction(catalog, Units)
      /\ UNCHANGED <<kind, catalog, disk, unitKey, current, past>>
  BY DEF Finish, Fail, Resting, deviceVars, WorkInv
<1>2. IsFunction(catalog, Units)' /\ OnlyThing(Thing(job[p]))
  BY <1>1 DEF IsFunction, OnlyThing
<1>3. QED  BY <1>1, <1>2, FailWorks

LEMMA SameDone ==
  ASSUME NEW j, NEW k, k.at = j.at, k.prog = j.prog, k.unit = j.unit, k.image = j.image,
         k.shown = j.shown
  PROVE  /\ Makes(j) => Makes(k)
         /\ Done(j) /\ UNCHANGED <<catalog, disk, unitKey, current, past>> => Done(k)'
BY DEF Makes, Done, Achieved, Medium, Shows

(* A program that starts has done nothing; those it meets lose their claim. *)
LEMMA StartWorks ==
  ASSUME MountsInv, WorkInv, NEW p \in Tasks, NEW j, IsJob(j), Start(p, j), Makes(j),
         j.at \in {"catalog", "look_up", "disk", "host", "show"},
         j.at = "show" => j.prog = "fhost", kind \in {"mounts", "hosts"}
  PROVE  WorkInv'
<1>1. UNCHANGED <<kind, catalog, disk, unitKey, current, past>>
  BY DEF Start, deviceVars
<1>2. /\ job'[p] = [j EXCEPT !.met = {job[r].prog : r \in Meeting(p, j)}]
      /\ \A q \in Tasks \ {p} :
           job'[q] = IF q \in Meeting(p, j) THEN [job[q] EXCEPT !.met = job[q].met \cup {j.prog}]
                     ELSE job[q]
  BY DEF Start
<1>3. ASSUME NEW met
      PROVE  LET k == [j EXCEPT !.met = met] IN Makes(k) /\ Done(k)'
  <2>1. PICK k : k = [j EXCEPT !.met = met]
    OBVIOUS
  <2>2. /\ k.at = j.at /\ k.prog = j.prog /\ k.unit = j.unit /\ k.image = j.image
        /\ k.shown = j.shown
    BY <2>1, JobMet
  <2>3. Makes(k)
    BY <2>2, SameDone
  <2>4. Done(k)'
    BY <2>2 DEF Done
  <2>5. QED  BY <2>1, <2>3, <2>4
<1>4. ASSUME NEW q \in Tasks \ {p}
      PROVE  Makes(job'[q]) /\ (job'[q].met = {} => Done(job[q])')
  <2>1. IsJob(job[q]) /\ Makes(job[q]) /\ (job[q].met = {} => Done(job[q]))
    BY DEF MountsInv, TypeInv, WorkInv
  <2>2. PICK k : k = job'[q]
    OBVIOUS
  <2>3. CASE q \in Meeting(p, j)
    <3>1. k = [job[q] EXCEPT !.met = job[q].met \cup {j.prog}]
      BY <1>2, <2>2, <2>3
    <3>2. /\ k.at = job[q].at /\ k.prog = job[q].prog /\ k.unit = job[q].unit
          /\ k.image = job[q].image /\ k.shown = job[q].shown /\ k.met = job[q].met \cup {j.prog}
      BY <2>1, <3>1, JobMet
    <3>3. Makes(k) /\ k.met # {}
      BY <2>1, <3>2, SameDone
    <3>4. QED  BY <2>2, <3>3
  <2>4. CASE q \notin Meeting(p, j)
    <3>1. k = job[q]
      BY <1>2, <2>2, <2>4
    <3>2. Makes(k) /\ (k.met = {} => Done(k)')
      BY <1>1, <2>1, <3>1, SameDone
    <3>3. QED  BY <2>2, <3>2
  <2>5. QED  BY <2>3, <2>4
<1>5. Makes(job'[p]) /\ Done(job[p])'
  BY <1>2, <1>3
<1>6. QED  BY <1>1, <1>4, <1>5 DEF WorkInv, IsFunction

LEMMA RunWorks ==
  ASSUME MountsInv, WorkInv, NEW p \in Tasks, Run(p)
  PROVE  WorkInv'
<1> DEFINE Fits(j) == /\ IsJob(j) /\ Makes(j)
                      /\ j.at \in {"catalog", "look_up", "disk", "host", "show"}
                      /\ j.at = "show" => j.prog = "fhost"
<1>1. ASSUME NEW u \in Units, NEW prog \in {"fout", "fumount", "fboot"}
      PROVE  Fits([NoJob EXCEPT !.prog = prog, !.unit = u, !.at = FirstRequest(prog)])
  <2>1. PICK j : j = [NoJob EXCEPT !.prog = prog, !.unit = u, !.at = FirstRequest(prog)]
    OBVIOUS
  <2>2. FirstRequest(prog) = IF prog = "fout" THEN "catalog" ELSE "disk"
    BY DEF FirstRequest
  <2>3. /\ IsJob(j) /\ j.prog = prog /\ j.unit = u /\ j.at = FirstRequest(prog)
        /\ j.image = None
    BY <2>1 DEF NoJob, IsJob
  <2>4. Fits(j)
    BY <2>2, <2>3 DEF Makes, MountPrograms, HostPrograms
  <2>5. QED  BY <2>1, <2>4
<1>2. ASSUME NEW u \in Units, NEW image \in Images
      PROVE  Fits([NoJob EXCEPT !.prog = "fin", !.unit = u, !.image = image, !.at = "catalog"])
  <2>1. PICK j : j = [NoJob EXCEPT !.prog = "fin", !.unit = u, !.image = image, !.at = "catalog"]
    OBVIOUS
  <2>2. IsJob(j) /\ j.prog = "fin" /\ j.unit = u /\ j.at = "catalog"
    BY <2>1 DEF NoJob, IsJob
  <2>3. Fits(j)
    BY <2>2 DEF Makes, MountPrograms, HostPrograms
  <2>4. QED  BY <2>1, <2>3
<1>3. ASSUME NEW u \in Units, NEW slot \in Units
      PROVE  Fits([NoJob EXCEPT !.prog = "fmount", !.unit = u, !.shown = slot, !.at = "look_up"])
  <2>1. PICK j :
          j = [NoJob EXCEPT !.prog = "fmount", !.unit = u, !.shown = slot, !.at = "look_up"]
    OBVIOUS
  <2>2. IsJob(j) /\ j.prog = "fmount" /\ j.unit = u /\ j.at = "look_up"
    BY <2>1 DEF NoJob, IsJob
  <2>3. Fits(j)
    BY <2>2 DEF Makes, MountPrograms, HostPrograms
  <2>4. QED  BY <2>1, <2>3
<1>4. ASSUME NEW h \in Hosts, NEW prog \in HostPrograms
      PROVE  Fits([NoJob EXCEPT !.prog = prog, !.image = h, !.at = FirstRequest(prog)])
  <2>1. PICK j : j = [NoJob EXCEPT !.prog = prog, !.image = h, !.at = FirstRequest(prog)]
    OBVIOUS
  <2>2. FirstRequest(prog) = IF prog = "fhost" THEN "show" ELSE "host"
    BY DEF FirstRequest, HostPrograms
  <2>3. IsJob(j) /\ j.prog = prog /\ j.at = FirstRequest(prog)
    BY <2>1 DEF NoJob, IsJob
  <2>4. Fits(j)
    BY <2>2, <2>3 DEF Makes, MountPrograms, HostPrograms
  <2>5. QED  BY <2>1, <2>4
<1>5. PICK j : Fits(j) /\ Start(p, j)
  BY <1>1, <1>2, <1>3, <1>4 DEF Run
<1>6. kind \in {"mounts", "hosts"}
  BY DEF Run
<1>7. QED  BY <1>5, <1>6, StartWorks

LEMMA IdleWorks ==
  ASSUME WorkInv, UNCHANGED <<kind, catalog, job>>,
         \/ UNCHANGED <<disk, unitKey, current, past>>
         \/ kind \notin {"mounts", "hosts"}
  PROVE  WorkInv'
<1>1. \A p \in Tasks : Makes(job[p])'
  BY DEF WorkInv, Makes
<1>2. ASSUME NEW p \in Tasks, job[p].met = {}  PROVE Done(job[p])'
  <2>1. CASE UNCHANGED <<disk, unitKey, current, past>>
    BY <1>2, <2>1 DEF WorkInv, Done, Achieved, Medium, Shows
  <2>2. CASE kind \notin {"mounts", "hosts"}
    BY <2>2 DEF WorkInv, Resting, Done
  <2>3. QED  BY <2>1, <2>2
<1>3. QED  BY <1>1, <1>2 DEF WorkInv, IsFunction, Resting

LEMMA WorkInit == Init => WorkInv
<1> SUFFICES ASSUME Init PROVE WorkInv  OBVIOUS
<1>1. \A p \in Tasks : job[p].at = "rest"
  BY NoJobIsJob DEF Init
<1>2. \A p \in Tasks : Resting(p) /\ Makes(job[p]) /\ Done(job[p])
  BY <1>1 DEF Resting, Makes, Done
<1>3. IsFunction(catalog, Units)
  BY DEF Init, IsFunction
<1>4. QED  BY <1>2, <1>3 DEF WorkInv

LEMMA WorkStep == MountsInv /\ WorkInv /\ [Next]_vars => WorkInv'
<1> SUFFICES ASSUME MountsInv, WorkInv, [Next]_vars PROVE WorkInv'  OBVIOUS
<1>1. ASSUME NEW p \in Tasks, ProgramStep(p) PROVE WorkInv'
  BY <1>1, RunWorks, CatalogWorks, LookUpWorks, DiskWorks, MapWorks, HostWorks, ShowWorks,
     FinishWorks DEF ProgramStep
<1>2. ASSUME NEW p \in Tasks, LibraryStep(p) PROVE WorkInv'
  <2>1. UNCHANGED <<kind, catalog, job>> /\ kind \notin {"mounts", "hosts"}
    BY <1>2 DEF LibraryStep, programVars
  <2>2. QED  BY <2>1, IdleWorks
<1>3. CASE UNCHANGED vars
  BY <1>3, IdleWorks DEF vars, programVars, deviceVars
<1>4. QED  BY <1>1, <1>2, <1>3 DEF Next

(* A program that nothing else worked beside on its slot, drive or host    *)
(* has done what it reports, whatever programs work on other things.       *)
THEOREM ProgramsTellTrue == Spec => []SuccessIsTrue
<1>1. WorkInv => SuccessIsTrue
  BY DEF WorkInv, Done, SuccessIsTrue
<1>2. QED  BY <1>1, MountsInit, MountsStep, WorkInit, WorkStep, PTL DEF Spec

-----------------------------------------------------------------------------
(* ReadsTrue: what the calls of the control device have read and written.  *)
IsCall(c) ==
  /\ c \in [op : {c.op}, rest : {c.rest}, value : {c.value}, unit : {c.unit}, pair : {c.pair},
            ok : BOOLEAN, alone : BOOLEAN]
  /\ IsFunction(c.pair, Keys)
IsRam(r) ==
  /\ r \in [loaded : BOOLEAN, pair : {r.pair}, sure : BOOLEAN, units : {r.units}]
  /\ IsFunction(r.pair, Keys) /\ IsFunction(r.units, Units)
DeviceType ==
  /\ host \in Platforms /\ torn \in BOOLEAN
  /\ IsFunction(key, Keys) /\ IsFunction(unitKey, Units)
  /\ IsFunction(call, Tasks) /\ \A p \in Tasks : IsCall(call[p])
  /\ IsFunction(ram, Tasks) /\ \A p \in Tasks : IsRam(ram[p])
  /\ IsFunction(acked, Tasks) /\ \A p \in Tasks : IsFunction(acked[p], Units)

Whole(pair) == pair["uri"] = pair["path"] \/ None \in {pair["uri"], pair["path"]}

(* What is left of a change of the pair, where it takes two requests and   *)
(* where it takes one.                                                     *)
BothLeft == <<{"uri"}, {"path"}>>
PathLeft == <<{"path"}>>
PairLeft == <<{"uri", "path"}>>
Changes(p) == call[p].op = "set_state"
Half(p) == Changes(p) /\ call[p].rest = PathLeft
NobodyElse(p) == \A q \in Tasks \ {p} : ~Changes(q)

WriteOf(p) ==
  Changes(p) =>
    /\ call[p].rest \in {BothLeft, PathLeft, PairLeft, <<>>}
    /\ call[p].alone => NobodyElse(p) /\ (Half(p) => key["uri"] = call[p].value)
KeyInv == torn \/ Whole(key) \/ \E p \in Tasks : Half(p)

(* A task of the Amiga is told what it has loaded; the others read it now. *)
Reads(p) == call[p].op = "load" \/ (call[p].op = "get_state" /\ host # "amiga")
ReadOf(p) ==
  Reads(p) /\ call[p].alone =>
    /\ ~torn /\ NobodyElse(p)
    /\ \A k \in Keys : call[p].pair[k] \in {key[k], None}
RamOf(p) ==
  /\ ram[p].sure => Whole(ram[p].pair)
  /\ host = "amiga" /\ call[p].op = "get_state" =>
       call[p].rest = <<>> /\ (call[p].alone => Whole(call[p].pair))

(* What a task was told about a unit is stored, and in the Amiga's table.  *)
LoadOf(p) == call[p].op = "load" => host = "amiga" /\ ~ram[p].loaded
AckOf(p) ==
  \A u \in Units : acked[p][u] # None =>
    /\ unitKey[u] = acked[p][u]
    /\ host = "amiga" => ram[p].loaded /\ ram[p].units[u] = acked[p][u]
SlotOf(p) == UnitTrue(p, call[p]) /\ (call[p].op = "get_unit" => call[p].unit \in Units)

TaskInv(p) ==
  /\ LoadOf(p) /\ AckOf(p) /\ SlotOf(p)
  /\ host # "atari" => WriteOf(p) /\ ReadOf(p) /\ RamOf(p)
IdleInv ==
  kind \in {"mounts", "hosts"} =>
    \A p \in Tasks : call[p].op = "none" /\ \A u \in Units : acked[p][u] = None
DeviceInv ==
  /\ DeviceType /\ IdleInv
  /\ host # "atari" => KeyInv
  /\ \A p \in Tasks : TaskInv(p)

-----------------------------------------------------------------------------
LEMMA Left ==
  /\ Head(BothLeft) = {"uri"} /\ Tail(BothLeft) = PathLeft /\ Len(BothLeft) = 2
  /\ Head(PathLeft) = {"path"} /\ Tail(PathLeft) = <<>> /\ Len(PathLeft) = 1
  /\ Head(PairLeft) = {"uri", "path"} /\ Tail(PairLeft) = <<>> /\ Len(PairLeft) = 1
  /\ BothLeft # PathLeft /\ PairLeft # PathLeft /\ <<>> # PathLeft
BY DEF BothLeft, PathLeft, PairLeft

LEMMA Requests ==
  ASSUME host \in Platforms
  PROVE  /\ host \in {"linux", "atari", "msdos", "amiga"}
         /\ host # "atari" => Stores[host] = IF host = "msdos" THEN PairLeft ELSE BothLeft
BY DeviceAssumption
DEF Stores, LinuxStores, AtariStores, MsdosStores, AmigaStores, PairLeft, BothLeft

LEMMA IsNoCall ==
  /\ IsCall(NoCall) /\ NoCall.op = "none" /\ NoCall.rest = <<>>
  /\ \A k \in Keys : NoCall.pair[k] = None
BY DEF IsCall, NoCall, IsFunction

(* Only p's call is another, and the others are not alone that were not.   *)
Calls(p, c) ==
  /\ IsFunction(call, Tasks)' /\ \A q \in Tasks : IsCall(call[q])'
  /\ call'[p] = c
  /\ \A q \in Tasks \ {p} :
       /\ call'[q].op = call[q].op /\ call'[q].rest = call[q].rest
       /\ call'[q].value = call[q].value /\ call'[q].unit = call[q].unit
       /\ call'[q].pair = call[q].pair /\ call'[q].ok = call[q].ok
       /\ call'[q].alone => call[q].alone

LEMMA Begins ==
  ASSUME DeviceType, NEW p \in Tasks, NEW c, IsCall(c), Begin(p, c)
  PROVE  Calls(p, c) /\ (c.op = "set_state" => \A q \in Tasks \ {p} : ~call'[q].alone)
<1>1. ASSUME NEW q \in Tasks \ {p}, NEW k, k = [call[q] EXCEPT !.alone = @ /\ c.op # "set_state"]
      PROVE  /\ IsCall(k) /\ k.op = call[q].op /\ k.rest = call[q].rest
             /\ k.value = call[q].value /\ k.unit = call[q].unit
             /\ k.pair = call[q].pair /\ k.ok = call[q].ok
             /\ k.alone = (call[q].alone /\ c.op # "set_state")
  <2>1. IsCall(call[q])
    BY DEF DeviceType
  <2>2. PICK a \in BOOLEAN : a = (call[q].alone /\ c.op # "set_state")
    OBVIOUS
  <2>3. k = [call[q] EXCEPT !.alone = a]
    BY <1>1, <2>2
  <2>4. QED  BY <2>1, <2>2, <2>3 DEF IsCall
<1>2. /\ IsFunction(call, Tasks)' /\ call'[p] = c
      /\ \A q \in Tasks \ {p} : call'[q] = [call[q] EXCEPT !.alone = @ /\ c.op # "set_state"]
  BY DEF Begin, IsFunction
<1>3. \A q \in Tasks : IsCall(call'[q])
  BY <1>1, <1>2
<1>4. QED  BY <1>1, <1>2, <1>3 DEF Calls

LEMMA Puts ==
  ASSUME DeviceType, NEW p \in Tasks, NEW c, IsCall(c), call' = [call EXCEPT ![p] = c]
  PROVE  Calls(p, c)
BY DEF DeviceType, IsFunction, Calls

(* Nothing is stored, and p alone goes on.                                 *)
LEMMA OthersKeep ==
  ASSUME DeviceInv, NEW p \in Tasks, NEW c, Calls(p, c), UNCHANGED <<host, key, unitKey, torn>>,
         IsFunction(ram, Tasks)', IsRam(ram'[p]), \A q \in Tasks \ {p} : ram'[q] = ram[q],
         IsFunction(acked, Tasks)', IsFunction(acked'[p], Units),
         \A q \in Tasks \ {p} : acked'[q] = acked[q],
         UNCHANGED kind, kind \notin {"mounts", "hosts"},
         c.op = "set_state" => Changes(p), Half(p) => c.op = "set_state" /\ c.rest = PathLeft,
         TaskInv(p)'
  PROVE  DeviceInv'
<1>1. DeviceType'
  BY DEF DeviceInv, DeviceType, Calls, IsFunction
<1>2. /\ \A q \in Tasks : Changes(q)' => Changes(q)
      /\ \A q \in Tasks : Half(q) => Half(q)'
      /\ \A q \in Tasks \ {p} : Half(q)' = Half(q) /\ Reads(q)' = Reads(q)
                                /\ Changes(q)' = Changes(q)
  BY DEF Calls, Changes, Half, Reads, PathLeft
<1>3. host # "atari" => KeyInv'
  BY <1>2 DEF DeviceInv, KeyInv, Whole
<1>4. ASSUME NEW q \in Tasks \ {p}  PROVE TaskInv(q)'
  <2>1. TaskInv(q)
    BY DEF DeviceInv
  <2>2. NobodyElse(q) => NobodyElse(q)'
    BY <1>2 DEF NobodyElse
  <2>3. LoadOf(q)' /\ AckOf(q)' /\ SlotOf(q)'
    BY <2>1 DEF TaskInv, Calls, LoadOf, AckOf, SlotOf, UnitTrue
  <2>4. host # "atari" => WriteOf(q)'
    BY <1>2, <2>1, <2>2 DEF TaskInv, Calls, WriteOf, BothLeft, PathLeft, PairLeft
  <2>5. host # "atari" => ReadOf(q)' /\ RamOf(q)'
    BY <1>2, <2>1, <2>2 DEF TaskInv, Calls, ReadOf, RamOf, Whole
  <2>6. QED  BY <2>3, <2>4, <2>5 DEF TaskInv
<1>5. QED  BY <1>1, <1>3, <1>4 DEF DeviceInv, IdleInv

(* A task begins to load the pair, or to read it.                          *)
LEMMA ReadBegins ==
  ASSUME DeviceInv, kind \notin {"mounts", "hosts"}, UNCHANGED kind, NEW p \in Tasks, Idle(p),
         NEW op \in {"load", "get_state"}, op = "load" <=> host = "amiga",
         op = "load" => ~ram[p].loaded,
         Begin(p, [NoCall EXCEPT !.op = op, !.rest = Loads[host], !.alone = ~torn /\ ~Changing(p)]),
         UNCHANGED <<host, key, unitKey, ram, torn, acked>>
  PROVE  DeviceInv'
<1>1. PICK alone \in BOOLEAN : alone = (~torn /\ ~Changing(p))
  OBVIOUS
<1>2. PICK c : c = [NoCall EXCEPT !.op = op, !.rest = Loads[host], !.alone = alone]
  OBVIOUS
<1>3. /\ IsCall(c) /\ c.op = op /\ c.alone = alone /\ \A k \in Keys : c.pair[k] = None
  <2>1. PICK rest : rest = Loads[host]
    OBVIOUS
  <2>2. c = [NoCall EXCEPT !.op = op, !.rest = rest, !.alone = alone]
    BY <1>2, <2>1
  <2>3. QED  BY <1>1, <2>2 DEF IsCall, NoCall, IsFunction
<1>4. Calls(p, c)
  BY <1>1, <1>2, <1>3, Begins DEF DeviceInv
<1>5. TaskInv(p)
  BY DEF DeviceInv
<1>6. LoadOf(p)' /\ AckOf(p)' /\ SlotOf(p)' /\ WriteOf(p)' /\ (host # "atari" => RamOf(p)')
  BY <1>3, <1>4, <1>5
  DEF TaskInv, Calls, LoadOf, AckOf, SlotOf, UnitTrue, WriteOf, RamOf, Whole, Changes
<1>7. ReadOf(p)'
  <2>1. alone => ~torn /\ NobodyElse(p)'
    BY <1>1, <1>4 DEF Changing, Others, NobodyElse, Changes, Calls
  <2>2. QED  BY <1>3, <1>4, <2>1 DEF ReadOf, Calls
<1>8. TaskInv(p)'
  BY <1>6, <1>7 DEF TaskInv
<1>9. QED
  <2>1. /\ IsFunction(ram, Tasks)' /\ IsRam(ram'[p])
        /\ IsFunction(acked, Tasks)' /\ IsFunction(acked'[p], Units)
    BY DEF DeviceInv, DeviceType, IsFunction
  <2>2. ~Half(p) /\ c.op # "set_state"
    BY <1>3 DEF Half, Changes, Idle
  <2>3. QED  BY <1>4, <1>8, <2>1, <2>2, OthersKeep

LEMMA EnsureStateDevice ==
  ASSUME DeviceInv, kind \notin {"mounts", "hosts"}, UNCHANGED kind, NEW p \in Tasks,
         EnsureState(p)
  PROVE  DeviceInv'
BY ReadBegins DEF EnsureState

LEMMA GetStateDevice ==
  ASSUME DeviceInv, kind \notin {"mounts", "hosts"}, UNCHANGED kind, NEW p \in Tasks,
         GetState(p)
  PROVE  DeviceInv'
<1>1. Idle(p) /\ UNCHANGED <<host, key, unitKey, ram, torn, acked>>
  BY DEF GetState, Ready
<1>2. CASE host # "amiga"
  BY <1>1, <1>2, ReadBegins DEF GetState
<1>3. CASE host = "amiga"
  <2>1. PICK c : c = [NoCall EXCEPT !.op = "get_state", !.pair = ram[p].pair, !.alone = ram[p].sure]
    OBVIOUS
  <2>2. IsRam(ram[p]) /\ ram[p].sure \in BOOLEAN /\ IsFunction(ram[p].pair, Keys) /\ TaskInv(p)
    BY DEF DeviceInv, DeviceType, IsRam
  <2>3. /\ IsCall(c) /\ c.op = "get_state" /\ c.rest = <<>> /\ c.alone = ram[p].sure
        /\ c.pair = ram[p].pair
    <3>1. PICK pair : pair = ram[p].pair
      OBVIOUS
    <3>2. PICK alone \in BOOLEAN : alone = ram[p].sure
      BY <2>2
    <3>3. c = [NoCall EXCEPT !.op = "get_state", !.pair = pair, !.alone = alone]
      BY <2>1, <3>1, <3>2
    <3>4. QED  BY <2>2, <3>1, <3>2, <3>3 DEF IsCall, NoCall
  <2>4. Calls(p, c)
    BY <1>3, <2>1, <2>3, Begins DEF DeviceInv, GetState
  <2>5. LoadOf(p)' /\ AckOf(p)' /\ SlotOf(p)' /\ WriteOf(p)' /\ ReadOf(p)'
    BY <1>1, <1>3, <2>2, <2>3, <2>4
    DEF TaskInv, Calls, LoadOf, AckOf, SlotOf, UnitTrue, WriteOf, ReadOf, Reads, Changes
  <2>6. RamOf(p)'
    BY <1>1, <1>3, <2>2, <2>3, <2>4 DEF TaskInv, Calls, RamOf, Whole
  <2>7. /\ IsFunction(ram, Tasks)' /\ IsRam(ram'[p]) /\ TaskInv(p)'
        /\ IsFunction(acked, Tasks)' /\ IsFunction(acked'[p], Units)
    BY <1>1, <2>2, <2>5, <2>6 DEF DeviceInv, DeviceType, IsFunction, TaskInv
  <2>8. ~Half(p) /\ c.op # "set_state"
    BY <1>1, <2>3 DEF Half, Changes, Idle
  <2>9. QED  BY <1>1, <2>4, <2>7, <2>8, OthersKeep
<1>4. QED  BY <1>2, <1>3

LEMMA ReadKeyDevice ==
  ASSUME DeviceInv, kind \notin {"mounts", "hosts"}, UNCHANGED kind, NEW p \in Tasks,
         ReadKey(p)
  PROVE  DeviceInv'
<1>1. /\ call[p].op \in {"load", "get_state"} /\ call[p].rest # <<>>
      /\ UNCHANGED <<host, key, unitKey, ram, torn, acked>> /\ IsCall(call[p]) /\ TaskInv(p)
      /\ IsFunction(call, Tasks) /\ IsFunction(call[p].pair, Keys)
  BY DEF ReadKey, DeviceInv, DeviceType, IsCall
<1>2. PICK c : /\ call' = [call EXCEPT ![p] = c] /\ IsCall(c)
               /\ c.op = call[p].op /\ c.alone = call[p].alone
               /\ \A k \in Keys : c.pair[k] \in {key[k], call[p].pair[k]}
  <2>1. CASE call' = [call EXCEPT ![p].rest = Tail(@), ![p].pair =
                       [k \in Keys |-> IF k \in Head(call[p].rest) THEN key[k] ELSE call[p].pair[k]]]
    <3>1. PICK pair :
            pair = [k \in Keys |-> IF k \in Head(call[p].rest) THEN key[k] ELSE call[p].pair[k]]
      OBVIOUS
    <3>2. IsFunction(pair, Keys) /\ \A k \in Keys : pair[k] \in {key[k], call[p].pair[k]}
      BY <3>1 DEF IsFunction
    <3>3. PICK c : c = [call[p] EXCEPT !.rest = Tail(@), !.pair = pair]
      OBVIOUS
    <3>4. IsCall(c) /\ c.op = call[p].op /\ c.alone = call[p].alone /\ c.pair = pair
      BY <1>1, <3>2, <3>3 DEF IsCall
    <3>5. call' = [call EXCEPT ![p] = c]
      BY <1>1, <2>1, <3>1, <3>3 DEF IsFunction
    <3>6. QED  BY <3>2, <3>4, <3>5
  <2>2. CASE call' = [call EXCEPT ![p].rest = Tail(@), ![p].ok = host # "msdos"]
    <3>1. PICK ok \in BOOLEAN : ok = (host # "msdos")
      OBVIOUS
    <3>2. PICK c : c = [call[p] EXCEPT !.rest = Tail(@), !.ok = ok]
      OBVIOUS
    <3>3. IsCall(c) /\ c.op = call[p].op /\ c.alone = call[p].alone /\ c.pair = call[p].pair
      BY <1>1, <3>2 DEF IsCall
    <3>4. call' = [call EXCEPT ![p] = c]
      BY <1>1, <2>2, <3>1, <3>2 DEF IsFunction
    <3>5. QED  BY <3>3, <3>4
  <2>3. QED  BY <2>1, <2>2 DEF ReadKey
<1>3. Calls(p, c)
  BY <1>2, Puts DEF DeviceInv
<1>4. LoadOf(p)' /\ AckOf(p)' /\ SlotOf(p)' /\ WriteOf(p)'
  BY <1>1, <1>2, <1>3
  DEF TaskInv, Calls, LoadOf, AckOf, SlotOf, UnitTrue, WriteOf, Changes
<1>5. host # "atari" => ReadOf(p)'
  <2>1. NobodyElse(p) => NobodyElse(p)'
    BY <1>3 DEF NobodyElse, Changes, Calls
  <2>2. Reads(p)' => Reads(p)
    BY <1>1, <1>2, <1>3 DEF Reads, Calls
  <2>3. QED  BY <1>1, <1>2, <1>3, <2>1, <2>2 DEF TaskInv, ReadOf, Calls
<1>6. host # "atari" => RamOf(p)'
  BY <1>1, <1>2, <1>3 DEF TaskInv, RamOf, Calls, Whole
<1>7. /\ IsFunction(ram, Tasks)' /\ IsRam(ram'[p]) /\ TaskInv(p)'
      /\ IsFunction(acked, Tasks)' /\ IsFunction(acked'[p], Units)
  BY <1>1, <1>4, <1>5, <1>6 DEF DeviceInv, DeviceType, IsFunction, TaskInv
<1>8. ~Half(p) /\ c.op # "set_state"
  BY <1>1, <1>2 DEF Half, Changes
<1>9. QED  BY <1>1, <1>3, <1>7, <1>8, OthersKeep

(* A change of the pair begins: nothing is alone that reads or changes it. *)
LEMMA SetStateDevice ==
  ASSUME DeviceInv, kind \notin {"mounts", "hosts"}, UNCHANGED kind, NEW p \in Tasks,
         NEW text, SetState(p, text)
  PROVE  DeviceInv'
<1>1. /\ Idle(p) /\ (host = "amiga" => ram[p].loaded) /\ UNCHANGED <<host, key, unitKey, torn, acked>>
      /\ TaskInv(p) /\ IsRam(ram[p]) /\ IsFunction(ram, Tasks)
      /\ host # "atari" => Stores[host] \in {BothLeft, PairLeft}
  BY Requests DEF SetState, Ready, DeviceInv, DeviceType
<1>2. PICK alone \in BOOLEAN : alone = ~Changing(p)
  OBVIOUS
<1>3. PICK c : c = [NoCall EXCEPT !.op = "set_state", !.rest = Stores[host], !.value = text,
                                  !.alone = alone]
  OBVIOUS
<1>4. /\ IsCall(c) /\ c.op = "set_state" /\ c.rest = Stores[host] /\ c.alone = alone
      /\ c.value = text
  <2>1. PICK rest : rest = Stores[host]
    OBVIOUS
  <2>2. c = [NoCall EXCEPT !.op = "set_state", !.rest = rest, !.value = text, !.alone = alone]
    BY <1>3, <2>1
  <2>3. QED  BY <2>1, <2>2 DEF IsCall, NoCall, IsFunction
<1>5. Calls(p, c) /\ \A q \in Tasks \ {p} : ~call'[q].alone
  <2>1. Begin(p, c)
    BY <1>2, <1>3 DEF SetState
  <2>2. QED  BY <1>4, <2>1, Begins DEF DeviceInv
<1>6. /\ IsFunction(ram, Tasks)' /\ IsRam(ram'[p]) /\ \A q \in Tasks \ {p} : ram'[q] = ram[q]
      /\ ram'[p].loaded = ram[p].loaded /\ ram'[p].units = ram[p].units
      /\ ram'[p].sure => Whole(ram'[p].pair) \/ (ram'[p] = ram[p])
  <2>1. CASE host = "amiga"
    <3>1. PICK pair : pair = [k \in Keys |-> text]
      OBVIOUS
    <3>2. PICK r : r = [ram[p] EXCEPT !.pair = pair, !.sure = TRUE]
      OBVIOUS
    <3>3. ram' = [ram EXCEPT ![p] = r]
      BY <2>1, <3>1, <3>2 DEF SetState, RamAfterSet
    <3>4. IsFunction(pair, Keys) /\ Whole(pair)
      BY <3>1 DEF IsFunction, Whole, Keys
    <3>5. IsRam(r) /\ r.pair = pair /\ r.loaded = ram[p].loaded /\ r.units = ram[p].units
      BY <1>1, <3>2, <3>4 DEF IsRam
    <3>6. QED  BY <1>1, <3>3, <3>4, <3>5 DEF IsFunction
  <2>2. CASE host # "amiga"
    BY <1>1, <2>2 DEF SetState, IsFunction
  <2>3. QED  BY <2>1, <2>2
<1>7. DeviceType'
  BY <1>1, <1>5, <1>6 DEF DeviceInv, DeviceType, Calls, IsFunction
<1>8. host # "atari" => KeyInv'
  <2>1. \A q \in Tasks : Half(q) => Half(q)'
    BY <1>1, <1>5 DEF Half, Changes, Idle, Calls, PathLeft
  <2>2. QED  BY <1>1, <2>1 DEF DeviceInv, KeyInv, Whole
<1>9. ASSUME NEW q \in Tasks \ {p}  PROVE TaskInv(q)'
  <2>1. TaskInv(q)
    BY DEF DeviceInv
  <2>2. LoadOf(q)' /\ AckOf(q)' /\ SlotOf(q)'
    BY <1>1, <1>5, <1>6, <2>1 DEF TaskInv, Calls, LoadOf, AckOf, SlotOf, UnitTrue
  <2>3. host # "atari" => WriteOf(q)' /\ ReadOf(q)' /\ RamOf(q)'
    BY <1>1, <1>5, <1>6, <2>1
    DEF TaskInv, Calls, WriteOf, ReadOf, RamOf, Changes, Whole, BothLeft, PathLeft, PairLeft
  <2>4. QED  BY <2>2, <2>3, <1>1 DEF TaskInv
<1>10. TaskInv(p)'
  <2>1. LoadOf(p)' /\ AckOf(p)' /\ SlotOf(p)' /\ ReadOf(p)'
    BY <1>1, <1>4, <1>5, <1>6
    DEF TaskInv, Calls, LoadOf, AckOf, SlotOf, UnitTrue, ReadOf, Reads
  <2>2. host # "atari" => RamOf(p)'
    BY <1>1, <1>4, <1>5, <1>6 DEF TaskInv, Calls, RamOf, Whole
  <2>3. host # "atari" => WriteOf(p)'
    <3>1. alone => NobodyElse(p)'
      BY <1>2, <1>5 DEF Changing, Others, NobodyElse, Changes, Calls
    <3>2. host # "atari" => ~Half(p)'
      BY <1>1, <1>4, <1>5, Left DEF Half, Calls, PathLeft
    <3>3. QED
      BY <1>1, <1>4, <1>5, <3>1, <3>2 DEF WriteOf, Calls, BothLeft, PathLeft, PairLeft
  <2>4. QED  BY <1>1, <2>1, <2>2, <2>3 DEF TaskInv
<1>11. QED  BY <1>1, <1>7, <1>8, <1>9, <1>10 DEF DeviceInv, IdleInv

(* A request of the change is made.  Whoever else changes or reads the     *)
(* pair meanwhile is not alone.                                            *)
LEMMA WriteKeyDevice ==
  ASSUME DeviceInv, kind \notin {"mounts", "hosts"}, UNCHANGED kind, NEW p \in Tasks,
         WriteKey(p)
  PROVE  DeviceInv'
<1>1. /\ Changes(p) /\ call[p].rest # <<>> /\ UNCHANGED <<host, unitKey, ram, acked>>
      /\ TaskInv(p) /\ IsCall(call[p]) /\ IsFunction(call, Tasks) /\ IsFunction(key, Keys)
      /\ torn \in BOOLEAN
  BY DEF WriteKey, Changes, DeviceInv, DeviceType
<1>2. IsFunction(Written(p), Keys)
  BY DEF IsFunction, Written
<1>3. PICK c : /\ IsCall(c) /\ c.op = "set_state" /\ c.value = call[p].value
               /\ c.alone = call[p].alone /\ call' = [call EXCEPT ![p] = c]
               /\ \/ /\ c.rest = Tail(call[p].rest) /\ key' = Written(p)
                     /\ torn' = IF Len(call[p].rest) = 1 THEN ~call[p].alone ELSE torn
                  \/ c.rest = <<>> /\ key' \in {key, Written(p)} /\ torn' = TRUE
  <2>1. CASE /\ key' = Written(p) /\ call' = [call EXCEPT ![p].rest = Tail(@)]
             /\ torn' = IF Len(call[p].rest) = 1 THEN ~call[p].alone ELSE torn
    <3>1. PICK c : c = [call[p] EXCEPT !.rest = Tail(@)]
      OBVIOUS
    <3>2. /\ IsCall(c) /\ c.op = call[p].op /\ c.value = call[p].value
          /\ c.alone = call[p].alone /\ c.rest = Tail(call[p].rest)
      BY <1>1, <3>1 DEF IsCall
    <3>3. call' = [call EXCEPT ![p] = c]
      BY <1>1, <2>1, <3>1 DEF IsFunction
    <3>4. QED  BY <1>1, <2>1, <3>2, <3>3 DEF Changes
  <2>2. CASE /\ key' \in {key, Written(p)} /\ torn' = TRUE
             /\ call' = [call EXCEPT ![p].rest = AfterFailedWrite, ![p].ok = FALSE]
    <3>1. PICK c : c = [call[p] EXCEPT !.rest = <<>>, !.ok = FALSE]
      OBVIOUS
    <3>2. /\ IsCall(c) /\ c.op = call[p].op /\ c.value = call[p].value
          /\ c.alone = call[p].alone /\ c.rest = <<>>
      BY <1>1, <3>1 DEF IsCall
    <3>3. call' = [call EXCEPT ![p] = c]
      BY <1>1, <2>2, <3>1 DEF IsFunction, AfterFailedWrite
    <3>4. QED  BY <1>1, <2>2, <3>2, <3>3 DEF Changes
  <2>3. QED  BY <2>1, <2>2 DEF WriteKey
<1>4. Calls(p, c)
  BY <1>3, Puts DEF DeviceInv
<1>5. DeviceType'
  <2>1. IsFunction(key, Keys)' /\ torn' \in BOOLEAN
    <3>1. call[p].alone \in BOOLEAN
      BY <1>1 DEF IsCall
    <3>2. key' = key \/ key' = Written(p)
      BY <1>3
    <3>3. IsFunction(key', Keys)
      BY <1>1, <1>2, <3>2
    <3>4. QED  BY <1>1, <1>3, <3>1, <3>3 DEF IsFunction
  <2>2. QED  BY <1>1, <1>4, <2>1 DEF DeviceInv, DeviceType, Calls, IsFunction
<1>6. \A q \in Tasks \ {p} : ~NobodyElse(q)
  BY <1>1 DEF NobodyElse
<1>7. ASSUME NEW q \in Tasks \ {p}  PROVE TaskInv(q)'
  <2>1. TaskInv(q)
    BY DEF DeviceInv
  <2>2. LoadOf(q)' /\ AckOf(q)' /\ SlotOf(q)'
    BY <1>1, <1>4, <2>1 DEF TaskInv, Calls, LoadOf, AckOf, SlotOf, UnitTrue
  <2>3. host # "atari" => WriteOf(q)' /\ ReadOf(q)' /\ RamOf(q)'
    BY <1>1, <1>4, <1>6, <2>1
    DEF TaskInv, Calls, WriteOf, ReadOf, Reads, RamOf, Changes, Whole, BothLeft, PathLeft, PairLeft
  <2>4. QED  BY <1>1, <2>2, <2>3 DEF TaskInv
<1>8. LoadOf(p)' /\ AckOf(p)' /\ SlotOf(p)' /\ ReadOf(p)' /\ (host # "atari" => RamOf(p)')
  BY <1>1, <1>3, <1>4
  DEF TaskInv, Calls, LoadOf, AckOf, SlotOf, UnitTrue, ReadOf, Reads, RamOf, Whole
<1>9. ASSUME host # "atari"  PROVE WriteOf(p)' /\ KeyInv'
  <2>1. /\ call[p].rest \in {BothLeft, PathLeft, PairLeft}
        /\ call[p].alone => NobodyElse(p) /\ (call[p].rest = PathLeft => key["uri"] = call[p].value)
    BY <1>1, <1>9 DEF TaskInv, WriteOf, Half
  <2>2. NobodyElse(p) => NobodyElse(p)'
    BY <1>4 DEF NobodyElse, Changes, Calls
  <2>3. CASE c.rest = <<>> /\ torn' = TRUE
    <3>1. WriteOf(p)'
      BY <1>3, <1>4, <2>1, <2>2, <2>3, Left DEF WriteOf, Half, Calls, PathLeft
    <3>2. QED  BY <2>3, <3>1 DEF KeyInv
  <2>4. CASE /\ c.rest = Tail(call[p].rest) /\ key' = Written(p)
             /\ torn' = IF Len(call[p].rest) = 1 THEN ~call[p].alone ELSE torn
    <3>1. \A k \in Keys : key'[k] = IF k \in Head(call[p].rest) THEN call[p].value ELSE key[k]
      BY <2>4 DEF Written
    <3>2. CASE call[p].rest = BothLeft
      <4>1. c.rest = PathLeft /\ key'["uri"] = call[p].value
        BY <2>4, <3>1, <3>2, Left DEF Keys
      <4>2. Half(p)'
        BY <1>3, <1>4, <4>1 DEF Half, Changes, Calls, PathLeft
      <4>3. QED  BY <1>3, <1>4, <2>1, <2>2, <4>1, <4>2
                 DEF WriteOf, KeyInv, Calls, PathLeft
    <3>3. CASE call[p].rest = PathLeft
      <4>1. c.rest = <<>> /\ torn' = ~call[p].alone /\ key'["path"] = call[p].value
            /\ key'["uri"] = key["uri"]
        BY <2>4, <3>1, <3>3, Left DEF Keys
      <4>2. WriteOf(p)'
        BY <1>3, <1>4, <2>1, <2>2, <4>1, Left DEF WriteOf, Half, Calls, PathLeft
      <4>3. KeyInv'
        BY <1>1, <2>1, <3>3, <4>1 DEF KeyInv, Whole, IsCall
      <4>4. QED  BY <4>2, <4>3
    <3>4. CASE call[p].rest = PairLeft
      <4>1. c.rest = <<>> /\ key'["path"] = key'["uri"]
        BY <2>4, <3>1, <3>4, Left DEF Keys
      <4>2. WriteOf(p)'
        BY <1>3, <1>4, <2>1, <2>2, <4>1, Left DEF WriteOf, Half, Calls, PathLeft
      <4>3. QED  BY <4>1, <4>2 DEF KeyInv, Whole
    <3>5. QED  BY <2>1, <3>2, <3>3, <3>4
  <2>5. QED  BY <1>3, <2>3, <2>4
<1>10. TaskInv(p)' /\ (host # "atari" => KeyInv')
  BY <1>1, <1>8, <1>9 DEF TaskInv
<1>11. QED  BY <1>1, <1>5, <1>7, <1>10 DEF DeviceInv, IdleInv

(* A slot is stored: nobody else counts on the slot that was there.        *)
LEMMA SetUnitDevice ==
  ASSUME DeviceInv, kind \notin {"mounts", "hosts"}, UNCHANGED kind, NEW p \in Tasks,
         NEW u \in Units, NEW slot \in Units, SetUnit(p, u, slot)
  PROVE  DeviceInv'
<1>1. /\ Idle(p) /\ (host = "amiga" => ram[p].loaded) /\ UNCHANGED <<host, key, call, torn>>
      /\ IsRam(ram[p]) /\ IsFunction(ram, Tasks) /\ IsFunction(unitKey, Units)
  BY DEF SetUnit, Ready, DeviceInv, DeviceType
<1>2. PICK answered \in BOOLEAN :
        /\ StoreUnit(u, slot, answered)
        /\ acked' = [q \in Tasks |-> [acked[q] EXCEPT ![u] =
                       IF q = p /\ answered THEN slot ELSE None]]
  BY DEF SetUnit
<1>3. /\ IsFunction(unitKey, Units)' /\ \A v \in Units \ {u} : unitKey'[v] = unitKey[v]
      /\ answered => unitKey'[u] = slot
  BY <1>1, <1>2 DEF StoreUnit, IsFunction
<1>4. /\ IsFunction(acked, Tasks)' /\ \A q \in Tasks : IsFunction(acked'[q], Units)
      /\ \A q \in Tasks : \A v \in Units \ {u} : acked'[q][v] = acked[q][v]
      /\ \A q \in Tasks : acked'[q][u] = IF q = p /\ answered THEN slot ELSE None
  BY <1>2 DEF DeviceInv, DeviceType, IsFunction
<1>5. /\ IsFunction(ram, Tasks)' /\ \A q \in Tasks : IsRam(ram'[q])
      /\ \A q \in Tasks : /\ ram'[q].loaded = ram[q].loaded /\ ram'[q].pair = ram[q].pair
                          /\ ram'[q].sure = ram[q].sure
                          /\ \A v \in Units : q # p \/ v # u => ram'[q].units[v] = ram[q].units[v]
      /\ host = "amiga" => ram'[p].units[u] = slot
  <2>1. CASE host = "amiga"
    <3>1. PICK units : units = [ram[p].units EXCEPT ![u] = slot]
      OBVIOUS
    <3>2. /\ IsFunction(units, Units) /\ units[u] = slot
          /\ \A v \in Units \ {u} : units[v] = ram[p].units[v]
      BY <1>1, <3>1 DEF IsRam, IsFunction
    <3>3. PICK r : r = [ram[p] EXCEPT !.units = units]
      OBVIOUS
    <3>4. /\ IsRam(r) /\ r.units = units /\ r.loaded = ram[p].loaded /\ r.sure = ram[p].sure
          /\ r.pair = ram[p].pair
      BY <1>1, <3>2, <3>3 DEF IsRam
    <3>5. ram' = [ram EXCEPT ![p] = r]
      BY <1>1, <2>1, <3>1, <3>3 DEF SetUnit, RamUnits, IsFunction
    <3>6. ram'[p] = r /\ \A q \in Tasks \ {p} : ram'[q] = ram[q]
      BY <1>1, <3>5 DEF IsFunction
    <3>7. IsFunction(ram, Tasks)' /\ \A q \in Tasks : IsRam(ram[q])
      BY <3>5 DEF IsFunction, DeviceInv, DeviceType
    <3>8. QED  BY <3>2, <3>4, <3>6, <3>7
  <2>2. CASE host # "amiga"
    <3>1. ram' = ram /\ \A q \in Tasks : IsRam(ram[q])
      BY <2>2 DEF SetUnit, RamUnits, DeviceInv, DeviceType
    <3>2. QED  BY <1>1, <2>2, <3>1
  <2>3. QED  BY <2>1, <2>2
<1>6. DeviceType'
  BY <1>1, <1>3, <1>4, <1>5 DEF DeviceInv, DeviceType, IsFunction
<1>7. host # "atari" => KeyInv'
  BY <1>1 DEF DeviceInv, KeyInv, Whole, Half, Changes
<1>8. ASSUME NEW q \in Tasks  PROVE TaskInv(q)'
  <2>1. TaskInv(q)
    BY DEF DeviceInv
  <2>2. LoadOf(q)'
    BY <1>1, <1>5, <2>1 DEF TaskInv, LoadOf
  <2>3. AckOf(q)'
    <3>1. SUFFICES ASSUME NEW v \in Units, acked'[q][v] # None
                   PROVE  /\ unitKey'[v] = acked'[q][v]
                          /\ host = "amiga" => ram'[q].loaded /\ ram'[q].units[v] = acked'[q][v]
      BY <1>1 DEF AckOf
    <3>2. CASE v = u
      BY <1>1, <1>3, <1>4, <1>5, <3>1, <3>2
    <3>3. CASE v # u
      BY <1>3, <1>4, <1>5, <2>1, <3>1, <3>3 DEF TaskInv, AckOf
    <3>4. QED  BY <3>2, <3>3
  <2>4. SlotOf(q)'
    <3>1. call[q].op = "get_unit" => q # p
      BY <1>1 DEF Idle
    <3>2. QED  BY <1>1, <1>4, <2>1, <3>1 DEF TaskInv, SlotOf, UnitTrue
  <2>5. host # "atari" => WriteOf(q)' /\ ReadOf(q)' /\ RamOf(q)'
    BY <1>1, <1>5, <2>1
    DEF TaskInv, WriteOf, ReadOf, Reads, RamOf, Changes, Half, NobodyElse, Whole
  <2>6. QED  BY <1>1, <2>2, <2>3, <2>4, <2>5 DEF TaskInv
<1>9. QED  BY <1>1, <1>6, <1>7, <1>8 DEF DeviceInv, IdleInv

LEMMA GetUnitDevice ==
  ASSUME DeviceInv, kind \notin {"mounts", "hosts"}, UNCHANGED kind, NEW p \in Tasks,
         NEW u \in Units, GetUnit(p, u)
  PROVE  DeviceInv'
<1>1. /\ Idle(p) /\ UNCHANGED <<host, key, unitKey, ram, torn, acked>> /\ TaskInv(p)
      /\ IsFunction(call, Tasks)
  BY DEF GetUnit, Ready, DeviceInv, DeviceType
<1>2. PICK read \in BOOLEAN : \E slot :
        /\ slot = IF read /\ unitKey[u] # None THEN unitKey[u] ELSE Unread(p, u)
        /\ call' = [call EXCEPT ![p] = [NoCall EXCEPT !.op = "get_unit", !.unit = u,
                      !.value = slot, !.ok = slot # None, !.alone = read]]
  BY DEF GetUnit
<1>3. PICK slot :
        /\ slot = IF read /\ unitKey[u] # None THEN unitKey[u] ELSE Unread(p, u)
        /\ call' = [call EXCEPT ![p] = [NoCall EXCEPT !.op = "get_unit", !.unit = u,
                      !.value = slot, !.ok = slot # None, !.alone = read]]
  BY <1>2
<1>4. PICK ok \in BOOLEAN : ok = (slot # None)
  OBVIOUS
<1>5. PICK c : c = [NoCall EXCEPT !.op = "get_unit", !.unit = u, !.value = slot, !.ok = ok,
                                  !.alone = read]
  OBVIOUS
<1>6. /\ IsCall(c) /\ c.op = "get_unit" /\ c.unit = u /\ c.value = slot /\ c.ok = ok
      /\ c.alone = read
  BY <1>5 DEF IsCall, NoCall, IsFunction
<1>7. Calls(p, c)
  BY <1>3, <1>4, <1>5, <1>6, Puts DEF DeviceInv
<1>8. SlotOf(p)'
  <2>1. SUFFICES ASSUME ok, acked[p][u] # None
                 PROVE  slot = acked[p][u] \/ (~read /\ host \in {"linux", "atari"})
    BY <1>1, <1>6, <1>7 DEF SlotOf, UnitTrue, Calls
  <2>2. unitKey[u] = acked[p][u] /\ (host = "amiga" => ram[p].units[u] = acked[p][u])
    BY <1>1, <2>1 DEF TaskInv, AckOf
  <2>3. CASE read
    BY <1>3, <2>1, <2>2, <2>3
  <2>4. CASE ~read
    <3>1. slot = Unread(p, u) /\ slot # None
      BY <1>3, <1>4, <2>1, <2>4
    <3>2. host \in {"linux", "atari", "msdos", "amiga"}
      BY Requests DEF DeviceInv, DeviceType
    <3>3. QED  BY <2>2, <2>4, <3>1, <3>2 DEF Unread, MsdosUnread, AmigaUnread
  <2>5. QED  BY <2>3, <2>4
<1>9. LoadOf(p)' /\ AckOf(p)' /\ WriteOf(p)' /\ ReadOf(p)'
  BY <1>1, <1>6, <1>7 DEF TaskInv, Calls, LoadOf, AckOf, WriteOf, ReadOf, Reads, Changes
<1>10. host # "atari" => RamOf(p)'
  BY <1>1, <1>6, <1>7 DEF TaskInv, Calls, RamOf, Whole
<1>11. /\ IsFunction(ram, Tasks)' /\ IsRam(ram'[p]) /\ TaskInv(p)'
       /\ IsFunction(acked, Tasks)' /\ IsFunction(acked'[p], Units)
  BY <1>1, <1>8, <1>9, <1>10 DEF DeviceInv, DeviceType, IsFunction, TaskInv
<1>12. ~Half(p) /\ c.op # "set_state"
  BY <1>1, <1>6 DEF Half, Changes, Idle
<1>13. QED  BY <1>1, <1>7, <1>11, <1>12, OthersKeep

(* A task that has loaded the pair keeps it.                               *)
LEMMA ReturnDevice ==
  ASSUME DeviceInv, kind \notin {"mounts", "hosts"}, UNCHANGED kind, NEW p \in Tasks, Return(p)
  PROVE  DeviceInv'
<1>1. /\ ~Idle(p) /\ call[p].rest = <<>> /\ UNCHANGED <<host, key, unitKey, torn, acked>>
      /\ call' = [call EXCEPT ![p] = NoCall] /\ TaskInv(p) /\ IsCall(call[p]) /\ IsRam(ram[p])
      /\ IsFunction(ram, Tasks)
  BY DEF Return, DeviceInv, DeviceType
<1>2. Calls(p, NoCall)
  BY <1>1, IsNoCall, Puts DEF DeviceInv
<1>3. LoadOf(p)' /\ SlotOf(p)' /\ WriteOf(p)' /\ ReadOf(p)'
  BY <1>2, IsNoCall DEF Calls, LoadOf, SlotOf, UnitTrue, WriteOf, ReadOf, Reads, Changes
<1>4. /\ IsFunction(ram, Tasks)' /\ IsRam(ram'[p]) /\ \A q \in Tasks \ {p} : ram'[q] = ram[q]
      /\ AckOf(p)' /\ (host # "atari" => (ram'[p].sure => Whole(ram'[p].pair)))
  <2>1. CASE call[p].op # "load"
    BY <1>1, <2>1 DEF Return, IsFunction, TaskInv, AckOf, RamOf, Whole
  <2>2. CASE call[p].op = "load"
    <3>1. PICK r : r = [NoRam EXCEPT !.loaded = TRUE, !.pair = call[p].pair,
                                     !.sure = call[p].alone]
      OBVIOUS
    <3>2. IsRam(r) /\ r.pair = call[p].pair /\ r.sure = call[p].alone
      BY <1>1, <3>1 DEF IsRam, NoRam, IsCall, IsFunction
    <3>3. ram' = [ram EXCEPT ![p] = r]
      BY <2>2, <3>1 DEF Return
    <3>4. ram'[p] = r /\ IsFunction(ram, Tasks)' /\ \A q \in Tasks \ {p} : ram'[q] = ram[q]
      BY <1>1, <3>3 DEF IsFunction
    <3>5. AckOf(p)'
      <4>1. \A u \in Units : acked[p][u] = None
        BY <1>1, <2>2 DEF TaskInv, LoadOf, AckOf
      <4>2. QED  BY <1>1, <4>1 DEF AckOf
    <3>6. host # "atari" /\ call[p].alone => Whole(call[p].pair)
      <4>1. SUFFICES ASSUME host # "atari", call[p].alone  PROVE Whole(call[p].pair)
        OBVIOUS
      <4>2. ~torn /\ NobodyElse(p) /\ \A k \in Keys : call[p].pair[k] \in {key[k], None}
        BY <1>1, <2>2, <4>1 DEF TaskInv, ReadOf, Reads
      <4>3. Whole(key)
        BY <2>2, <4>1, <4>2 DEF DeviceInv, KeyInv, Half, Changes, NobodyElse
      <4>4. QED  BY <4>2, <4>3 DEF Whole, Keys
    <3>7. QED  BY <3>2, <3>4, <3>5, <3>6
  <2>3. QED  BY <2>1, <2>2
<1>5. host # "atari" => RamOf(p)'
  BY <1>2, <1>4, IsNoCall DEF Calls, RamOf, Whole
<1>6. /\ TaskInv(p)' /\ IsFunction(acked, Tasks)' /\ IsFunction(acked'[p], Units)
  BY <1>1, <1>3, <1>4, <1>5 DEF DeviceInv, DeviceType, IsFunction, TaskInv
<1>7. ~Half(p) /\ NoCall.op # "set_state"
  BY <1>1, Left, IsNoCall DEF Half
<1>8. QED  BY <1>1, <1>2, <1>4, <1>6, <1>7, OthersKeep

LEMMA ExitDevice ==
  ASSUME DeviceInv, kind \notin {"mounts", "hosts"}, UNCHANGED kind, NEW p \in Tasks, Exit(p)
  PROVE  DeviceInv'
<1>1. /\ Idle(p) /\ UNCHANGED <<host, key, unitKey, call, torn>> /\ TaskInv(p)
      /\ ram' = [ram EXCEPT ![p] = NoRam]
      /\ acked' = [acked EXCEPT ![p] = [u \in Units |-> None]]
      /\ IsFunction(ram, Tasks) /\ IsFunction(acked, Tasks)
      /\ IsFunction(call, Tasks) /\ \A q \in Tasks : IsCall(call[q])
  BY DEF Exit, DeviceInv, DeviceType
<1>2. /\ IsFunction(ram, Tasks)' /\ ram'[p] = NoRam /\ \A q \in Tasks \ {p} : ram'[q] = ram[q]
      /\ IsFunction(acked, Tasks)' /\ IsFunction(acked'[p], Units)
      /\ \A q \in Tasks \ {p} : acked'[q] = acked[q]
      /\ \A u \in Units : acked'[p][u] = None
  BY <1>1 DEF IsFunction
<1>3. IsRam(NoRam) /\ Whole(NoRam.pair)
  BY DEF IsRam, NoRam, IsFunction, Whole, Keys
<1>4. Calls(p, call[p])
  BY <1>1 DEF Calls, IsFunction
<1>5. AckOf(p)' /\ LoadOf(p)' /\ SlotOf(p)' /\ WriteOf(p)' /\ ReadOf(p)'
  BY <1>1, <1>2 DEF AckOf, LoadOf, SlotOf, UnitTrue, WriteOf, ReadOf, Reads, Changes, Idle
<1>6. RamOf(p)'
  BY <1>1, <1>2, <1>3 DEF RamOf, Idle, Whole
<1>7. TaskInv(p)' /\ IsRam(ram'[p])
  BY <1>2, <1>3, <1>5, <1>6 DEF TaskInv
<1>8. ~Half(p) /\ call[p].op # "set_state"
  BY <1>1 DEF Half, Changes, Idle
<1>9. QED  BY <1>1, <1>2, <1>4, <1>7, <1>8, OthersKeep

-----------------------------------------------------------------------------
LEMMA LibraryDevice ==
  ASSUME DeviceInv, NEW p \in Tasks, LibraryStep(p)
  PROVE  DeviceInv'
<1>1. UNCHANGED kind /\ kind \notin {"mounts", "hosts"} /\ (StateCall(p) \/ UnitCall(p))
  BY DEF LibraryStep, programVars
<1>2. CASE StateCall(p)
  BY <1>1, <1>2, EnsureStateDevice, GetStateDevice, ReadKeyDevice, WriteKeyDevice,
     ReturnDevice, ExitDevice, SetStateDevice DEF StateCall
<1>3. CASE UnitCall(p)
  BY <1>1, <1>3, EnsureStateDevice, ReadKeyDevice, ReturnDevice, ExitDevice, SetUnitDevice,
     GetUnitDevice DEF UnitCall
<1>4. QED  BY <1>1, <1>2, <1>3

(* The programs change the stored slots only, and then nobody asks.        *)
LEMMA ProgramDevice ==
  ASSUME DeviceInv, UNCHANGED <<host, key, ram, call, torn, acked, kind>>,
         IsFunction(unitKey, Units)',
         UNCHANGED unitKey \/ kind \in {"mounts", "hosts"}
  PROVE  DeviceInv'
<1>1. DeviceType'
  BY DEF DeviceInv, DeviceType, IsFunction
<1>2. \A p \in Tasks : AckOf(p)'
  BY DEF DeviceInv, IdleInv, TaskInv, AckOf
<1>3. \A p \in Tasks : LoadOf(p)' /\ SlotOf(p)'
  BY DEF DeviceInv, TaskInv, LoadOf, SlotOf, UnitTrue
<1>4. host # "atari" => KeyInv' /\ \A p \in Tasks : WriteOf(p)' /\ ReadOf(p)' /\ RamOf(p)'
  BY DEF DeviceInv, KeyInv, TaskInv, WriteOf, ReadOf, Reads, RamOf, Whole, Half, Changes,
         NobodyElse
<1>5. QED  BY <1>1, <1>2, <1>3, <1>4 DEF DeviceInv, IdleInv, TaskInv

LEMMA DeviceStart == Init => DeviceInv
<1> SUFFICES ASSUME Init PROVE DeviceInv  OBVIOUS
<1>1. /\ \A p \in Tasks : call[p] = NoCall /\ ram[p] = NoRam
      /\ \A p \in Tasks : \A u \in Units : acked[p][u] = None
      /\ host \in Platforms /\ torn = FALSE
  BY DEF Init, DeviceInit
<1>2. /\ IsFunction(call, Tasks) /\ IsFunction(ram, Tasks) /\ IsFunction(unitKey, Units)
      /\ IsFunction(acked, Tasks) /\ \A p \in Tasks : IsFunction(acked[p], Units)
  BY DEF Init, DeviceInit, IsFunction
<1>3. IsFunction(key, Keys) /\ Whole(key)
  <2>1. PICK text : key = [k \in Keys |-> text]
    BY DEF Init, DeviceInit
  <2>2. QED  BY <2>1 DEF IsFunction, Whole, Keys
<1>4. IsRam(NoRam) /\ Whole(NoRam.pair)
  BY DEF IsRam, NoRam, IsFunction, Whole, Keys
<1>5. DeviceType
  BY <1>1, <1>2, <1>3, <1>4, IsNoCall DEF DeviceType
<1>6. \A p \in Tasks : call[p].op = "none"
  BY <1>1, IsNoCall
<1>7. \A p \in Tasks : LoadOf(p) /\ AckOf(p) /\ SlotOf(p) /\ WriteOf(p) /\ ReadOf(p)
  BY <1>1, <1>6 DEF LoadOf, AckOf, SlotOf, UnitTrue, WriteOf, ReadOf, Reads, Changes
<1>8. \A p \in Tasks : RamOf(p)
  BY <1>1, <1>4, <1>6 DEF RamOf
<1>9. QED
  BY <1>1, <1>3, <1>5, <1>6, <1>7, <1>8 DEF DeviceInv, IdleInv, TaskInv, KeyInv

LEMMA DeviceStep == MountsInv /\ DeviceInv /\ [Next]_vars => DeviceInv'
<1> SUFFICES ASSUME MountsInv, DeviceInv, [Next]_vars PROVE DeviceInv'  OBVIOUS
<1>1. IsFunction(unitKey, Units)'
  BY MountsStep DEF MountsInv, TypeInv
<1>2. ASSUME NEW p \in Tasks, ProgramStep(p) PROVE DeviceInv'
  <2>1. CASE MapUnit(p)
    <3>1. kind \in {"mounts", "hosts"}
      BY <2>1 DEF MapUnit, MountsInv, KindInv, AtUnit
    <3>2. UNCHANGED <<host, key, ram, call, torn, acked, kind>>
      BY <2>1 DEF MapUnit
    <3>3. QED  BY <1>1, <3>1, <3>2, ProgramDevice
  <2>2. CASE ~MapUnit(p)
    <3>1. UNCHANGED <<deviceVars, kind>>
      BY <1>2, <2>2 DEF ProgramStep, Run, Start, ChangeCatalog, LookUp, ChangeDisk, ChangeHost,
                        Show, Finish
    <3>2. QED  BY <1>1, <3>1, ProgramDevice DEF deviceVars
  <2>3. QED  BY <2>1, <2>2
<1>3. ASSUME NEW p \in Tasks, LibraryStep(p) PROVE DeviceInv'
  BY <1>3, LibraryDevice
<1>4. CASE UNCHANGED vars
  BY <1>1, <1>4, ProgramDevice DEF vars, programVars, deviceVars
<1>5. QED  BY <1>2, <1>3, <1>4 DEF Next

(* What fnctl.c tells a task is so: a URI and a path that were stored      *)
(* together, and the slot the task was told is stored, whatever requests   *)
(* fail and whatever other tasks do, on every platform.                    *)
THEOREM ReadsTellTrue == Spec => []ReadsTrue
<1>1. DeviceInv => ReadsTrue
  <2>1. SUFFICES ASSUME DeviceInv, NEW p \in Tasks
                 PROVE  PairTrue(call[p]) /\ UnitTrue(p, call[p])
    BY DEF ReadsTrue
  <2>2. UnitTrue(p, call[p])
    BY <2>1 DEF DeviceInv, TaskInv, SlotOf
  <2>3. SUFFICES ASSUME call[p].op = "get_state", call[p].alone, host # "atari"
                 PROVE  Whole(call[p].pair)
    BY <2>2 DEF PairTrue, Whole
  <2>4. CASE host = "amiga"
    BY <2>1, <2>3, <2>4 DEF DeviceInv, TaskInv, RamOf
  <2>5. CASE host # "amiga"
    <3>1. ~torn /\ NobodyElse(p) /\ \A k \in Keys : call[p].pair[k] \in {key[k], None}
      BY <2>1, <2>3, <2>5 DEF DeviceInv, TaskInv, ReadOf, Reads
    <3>2. Whole(key)
      BY <2>1, <2>3, <3>1 DEF DeviceInv, KeyInv, Half, Changes, NobodyElse
    <3>3. QED  BY <3>1, <3>2 DEF Whole, Keys
  <2>6. QED  BY <2>4, <2>5
<1>2. QED  BY <1>1, MountsInit, MountsStep, DeviceStart, DeviceStep, PTL DEF Spec
=============================================================================

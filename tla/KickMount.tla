----------------------------- MODULE KickMount ------------------------------
(***************************************************************************)
(* FMOUNT, FUMOUNT and FBOOT as they are built for Kickstart 1.3.  Eight   *)
(* static DOS devices stand for eight units of fujinet-disk.device: one    *)
(* endpoint for each kind of medium and each of the logical units 0 and 1. *)
(* Marker files in T: tell which endpoints were started and which one a    *)
(* logical unit is mounted on.  Two programs may run at a time, files in   *)
(* T: may fail to be written, and a reboot clears T: and the handlers but  *)
(* not what the FujiNet has mounted.                                       *)
(***************************************************************************)
EXTENDS Naturals

CONSTANTS
  Tasks,
  Logical, \* the logical units (0 and 1)
  Types,   \* geometry and filesystem of a medium, one static endpoint each
  DDFFS,   \* the type of DN0: and DN1:, and of the shipped default disk
  None

ASSUME KickAssumption ==
  /\ DDFFS \in Types /\ 0 \in Logical
  /\ None \notin Types \cup Logical \cup (Types \X Logical)

Endpoints == Types \X Logical
DN0 == <<DDFFS, 0>>
TypeOf(e) == e[1]
IndexOf(e) == e[2]

VARIABLES
  catalog,  \* the type of the image in the catalog slot
  default,  \* the type of the configured default image, None without one
  media,    \* the type of what each endpoint's unit has mounted
  handler,  \* the endpoints whose handler C:Mount started
  started,  \* those with a marker T:FNM<unit>
  logical,  \* the endpoint in T:FNLA and T:FNLB
  job,      \* the program each task runs
  owner,    \* history: the logical unit an endpoint was mounted by
  swapped,  \* history: the catalog changed between inspection and mount
  blurred   \* history: programs met on this logical unit, or one failed half way

markers == <<started, logical>>
outside == <<catalog, default>>
history == <<owner, swapped, blurred>>
vars == <<outside, media, handler, markers, job, history>>

NoJob == [at |-> "rest", unit |-> None, e |-> None, type |-> None]

Init ==
  /\ catalog \in Types /\ default \in Types \cup {None}
  /\ media = [e \in Endpoints |-> None]
  /\ handler = {} /\ started = {}
  /\ logical = [i \in Logical |-> None]
  /\ job = [p \in Tasks |-> NoJob]
  /\ owner = [e \in Endpoints |-> None]
  /\ swapped = [e \in Endpoints |-> FALSE]
  /\ blurred = [i \in Logical |-> FALSE]

-----------------------------------------------------------------------------
Put(p, j) == job' = [job EXCEPT ![p] = j]
Goto(p, step) == Put(p, [job[p] EXCEPT !.at = step])
End(p) == Put(p, NoJob)

(* The logical unit a program works on, by number or through an endpoint.  *)
Index(j) == IF j.e = None THEN j.unit ELSE IndexOf(j.e)
Meets(p, j) == \E q \in Tasks \ {p} : job[q].at # "rest" /\ Index(job[q]) = Index(j)

Start(p, j) ==
  /\ job[p].at = "rest"
  /\ Put(p, j)
  /\ blurred' = [blurred EXCEPT ![Index(j)] = @ \/ Meets(p, j)]
  /\ UNCHANGED <<outside, media, handler, markers, owner, swapped>>

(* A program is given a logical unit or an endpoint.                       *)
Run(p) ==
  \/ \E i \in Logical, first \in {"inspect", "find"} :
       Start(p, [NoJob EXCEPT !.unit = i, !.at = first])
  \/ \E e \in Endpoints, first \in {"inspect", "eject"} :
       Start(p, [NoJob EXCEPT !.e = e, !.at = first])
  \/ Start(p, [NoJob EXCEPT !.e = DN0, !.at = "restore"])

-----------------------------------------------------------------------------
(* FUJINET_DISK_CMD_INSPECT_CATALOG; the candidate may be unsupported.     *)
Inspect(p) ==
  /\ job[p].at = "inspect"
  /\ Put(p, [job[p] EXCEPT !.type = catalog, !.at = "choose"]) \/ End(p)
  /\ UNCHANGED <<outside, media, handler, markers, history>>

(* logical_unit_is_mounted, endpoint_for_media and the comparison.         *)
EndpointForMedia(i, type) == <<type, i>>
SuitsAny(e, type) == TRUE
Suits(e, type) == TypeOf(e) = type
Occupied(i) == logical[i] # None
Choose(p) ==
  LET j == job[p]
      e == IF j.unit = None THEN j.e ELSE EndpointForMedia(j.unit, j.type)
  IN /\ j.at = "choose"
     /\ IF (j.unit # None /\ Occupied(j.unit)) \/ ~Suits(e, j.type)
        THEN End(p)
        ELSE Put(p, [j EXCEPT !.e = e, !.at = "mount"])
     /\ UNCHANGED <<outside, media, handler, markers, history>>

(* FUJINET_DISK_CMD_MOUNT_CATALOG mounts what the slot has by now.  It may *)
(* fail, like every request, before or after it took effect.               *)
MountMedium(p) ==
  LET j == job[p] IN
  /\ j.at = "mount"
  /\ \/ /\ media' = [media EXCEPT ![j.e] = catalog]
        /\ swapped' = [swapped EXCEPT ![j.e] = catalog # j.type]
        /\ \/ /\ owner' = IF j.unit = None THEN owner ELSE [owner EXCEPT ![j.e] = j.unit]
              /\ Put(p, [j EXCEPT !.type = None, !.at = "start"])
           \/ End(p) /\ UNCHANGED owner
     \/ End(p) /\ UNCHANGED <<media, swapped, owner>>
  /\ UNCHANGED <<outside, handler, markers, blurred>>

-----------------------------------------------------------------------------
(* C:Mount, unless the marker tells that it was done.  When it fails the   *)
(* medium stays mounted, and the logical unit unmarked.                    *)
WasStartedAnyType(j) == \E e \in started : IndexOf(e) = IndexOf(j.e)
WasStarted(j) == j.e \in started
StartHandler(p) ==
  LET j == job[p] IN
  /\ j.at = "start"
  /\ \/ /\ WasStarted(j)
        /\ Goto(p, "record") /\ UNCHANGED <<handler, blurred>>
     \/ /\ ~WasStarted(j)
        /\ handler' = handler \cup {j.e}
        /\ Goto(p, "mark") /\ UNCHANGED blurred
     \/ /\ ~WasStarted(j)
        /\ blurred' = [blurred EXCEPT ![Index(j)] = TRUE]
        /\ End(p) /\ UNCHANGED handler
  /\ UNCHANGED <<outside, media, markers, owner, swapped>>

(* record_started_endpoint, whose failure nobody looks at.                 *)
MarkStarted(p) ==
  /\ job[p].at = "mark"
  /\ started' \in {started, started \cup {job[p].e}}
  /\ Goto(p, "record")
  /\ UNCHANGED <<outside, media, handler, logical, history>>

(* record_logical_unit, likewise.                                          *)
RecordLogical(p) ==
  LET j == job[p] IN
  /\ j.at = "record"
  /\ \/ j.unit = None /\ UNCHANGED <<logical, blurred>>
     \/ j.unit # None /\ logical' = [logical EXCEPT ![j.unit] = j.e] /\ UNCHANGED blurred
     \/ j.unit # None /\ blurred' = [blurred EXCEPT ![j.unit] = TRUE] /\ UNCHANGED logical
  /\ Goto(p, "mounted")
  /\ UNCHANGED <<outside, media, handler, started, owner, swapped>>

-----------------------------------------------------------------------------
(* load_logical_endpoint.                                                  *)
Find(p) ==
  LET j == job[p] IN
  /\ j.at = "find"
  /\ IF logical[j.unit] = None THEN End(p)
     ELSE Put(p, [j EXCEPT !.e = logical[j.unit], !.at = "eject"])
  /\ UNCHANGED <<outside, media, handler, markers, history>>

(* The pause for the handler's write-back, and TD_EJECT.                   *)
Eject(p) ==
  /\ job[p].at = "eject"
  /\ \/ /\ media' = [media EXCEPT ![job[p].e] = None]
        /\ owner' = [owner EXCEPT ![job[p].e] = None]
        /\ swapped' = [swapped EXCEPT ![job[p].e] = FALSE]
        /\ \/ Goto(p, "clear") /\ UNCHANGED blurred
           \/ End(p) /\ blurred' = [blurred EXCEPT ![Index(job[p])] = TRUE]
     \/ End(p) /\ UNCHANGED <<media, owner, swapped, blurred>>
  /\ UNCHANGED <<outside, handler, markers>>

(* clear_logical_endpoint and clear_matching_logical_endpoint.             *)
MatchingNone(j) == IF j.unit # None THEN {j.unit} ELSE {}
Matching(j) == IF j.unit # None THEN {j.unit} ELSE {i \in Logical : logical[i] = j.e}
Clear(p) ==
  /\ job[p].at = "clear"
  /\ \/ /\ logical' = [i \in Logical |-> IF i \in Matching(job[p]) THEN None ELSE logical[i]]
        /\ UNCHANGED blurred
     \/ blurred' = [blurred EXCEPT ![Index(job[p])] = TRUE] /\ UNCHANGED logical
  /\ End(p)
  /\ UNCHANGED <<outside, media, handler, started, owner, swapped>>

-----------------------------------------------------------------------------
(* FBOOT: the FujiNet restores the default image unless a user's image is  *)
(* in unit 0; what it restored is validated and its handler started.       *)
Restore(p) ==
  /\ job[p].at = "restore"
  /\ \/ /\ media' = IF media[DN0] = None THEN [media EXCEPT ![DN0] = default] ELSE media
        /\ End(p) \/ (media'[DN0] # None /\ Goto(p, "validate"))
     \/ End(p) /\ UNCHANGED media
  /\ UNCHANGED <<outside, handler, markers, history>>

Validate(p) ==
  /\ job[p].at = "validate"
  /\ (media[DN0] = DDFFS /\ Goto(p, "boot")) \/ Goto(p, "refused")
  /\ UNCHANGED <<outside, media, handler, markers, history>>

StartBoot(p) ==
  /\ job[p].at = "boot"
  /\ \/ handler' = handler \cup {DN0} /\ Goto(p, "booted")
     \/ End(p) /\ UNCHANGED handler
  /\ UNCHANGED <<outside, media, markers, history>>

-----------------------------------------------------------------------------
Finish(p) ==
  /\ job[p].at \in {"mounted", "refused", "booted"}
  /\ End(p)
  /\ UNCHANGED <<outside, media, handler, markers, history>>

(* Another program puts another image into the slot of the catalog.        *)
ChangeCatalog ==
  /\ catalog' \in Types \ {catalog}
  /\ UNCHANGED <<default, media, handler, markers, job, history>>

Reboot ==
  /\ handler' = {} /\ started' = {} /\ logical' = [i \in Logical |-> None]
  /\ job' = [p \in Tasks |-> NoJob]
  /\ owner' = [e \in Endpoints |-> None]
  /\ blurred' = [i \in Logical |-> FALSE]
  /\ UNCHANGED <<outside, media, swapped>>

Step(p) ==
  \/ Inspect(p) \/ Choose(p) \/ MountMedium(p) \/ StartHandler(p) \/ MarkStarted(p)
  \/ RecordLogical(p) \/ Find(p) \/ Eject(p) \/ Clear(p)
  \/ Restore(p) \/ Validate(p) \/ StartBoot(p) \/ Finish(p)
Next == ChangeCatalog \/ Reboot \/ \E p \in Tasks : Run(p) \/ Step(p)
Spec == Init /\ [][Next]_vars

-----------------------------------------------------------------------------
(* A logical unit names the one endpoint that it was mounted on, which has *)
(* a medium, and an endpoint it mounted, and was told so, is not left      *)
(* behind by it: at rest, unless programs met on the unit, or an ejection  *)
(* or a marker failed half way.                                            *)
LogicalIsTrue ==
  \A i \in Logical :
    ~blurred[i] /\ (\A p \in Tasks : job[p].at = "rest" \/ Index(job[p]) # i) =>
      /\ logical[i] # None => media[logical[i]] # None
      /\ \A e \in Endpoints : owner[e] = i /\ media[e] # None => logical[i] = e

(* No handler serves a medium of another geometry or filesystem than its   *)
(* static entry has, whichever programs run at a time and whenever the     *)
(* Amiga is rebooted, unless the image changed under FMOUNT or FBOOT       *)
(* refused the default disk.                                               *)
HandlerMatches ==
  \A e \in handler :
    media[e] # None /\ ~swapped[e] /\ (e = DN0 => default \in {DDFFS, None}) =>
      media[e] = TypeOf(e)

(* A drive FMOUNT or FBOOT reports mounted has its handler running.        *)
ReadyToUse ==
  \A p \in Tasks : job[p].at \in {"mounted", "booted"} => job[p].e \in handler

(* "so a bad firmware URI cannot leave DN0: using an incorrect geometry or *)
(* filesystem" (fboot.c): FBOOT does not end with DN0's handler on a disk  *)
(* that it refused, and that no FMOUNT put there.                          *)
BootGeometryAsDocumented ==
  \A p \in Tasks :
    job[p].at = "refused" /\ DN0 \in handler /\ ~swapped[DN0] =>
      media[DN0] \in {DDFFS, None}

=============================================================================

----------------------------- MODULE AmigaMount -----------------------------
(***************************************************************************)
(* FMOUNT and FUMOUNT of AmigaDOS 2 and later (amiga/fmount.c, fumount.c)  *)
(* on one unit DNn:, run one after the other while a user or any other     *)
(* program may access the drive between any two of their steps.            *)
(*                                                                         *)
(* AmigaDOS, the filesystem handler and fujinet-disk.device are not in the *)
(* repository; they are modelled as far as the programs' comments and      *)
(* checks say what they do.                                                *)
(***************************************************************************)
EXTENDS Naturals

CONSTANTS
  Types,     \* geometry and filesystem of an image, as a DosEnvec has them
  Copies,    \* images of each type
  BootType,  \* the type FBOOT wants of the default image (DD, FFS)
  MaxPolls   \* polls for a handler that was told to die (20)

ASSUME AmigaAssumption ==
  MaxPolls \in Nat \ {0} /\ BootType \in Types /\ "none" \notin Types

VARIABLES
  node,      \* the DOS list's entry: present, its DosEnvec, its dol_Task
  handler,   \* the handler: the DosEnvec it read, nesting of Inhibit, files
             \* open, dying; meaningful while node.task
  media,     \* what fujinet-disk.device has mounted on the unit
  pc,        \* next step of the program, "rest" when none runs
  prog,      \* its variables
  canDie,    \* whether this system's handlers know ACTION_DIE
  disturbed, \* history: a file was opened or the handler started meanwhile
  late,      \* history: a handler did not exit while a program waited for it
  unbalanced, \* history: an Inhibit(DOSFALSE) failed, or a query that would
             \* have told a program that the drive is inhibited; at most one does
  badBoot    \* history: FBOOT refused the image it had restored, did not see
             \* it, or started DN0: with another DosEnvec, which it still has

system == <<node, handler, media>>
history == <<canDie, disturbed, late, unbalanced, badBoot>>
vars == <<system, pc, prog, history>>

Images == Types \X Copies
NoMedia == <<"none", 0>>
Type(image) == image[1]

NoProgram == [image |-> NoMedia, present |-> FALSE, active |-> FALSE, same |-> FALSE,
              parked |-> FALSE, inhibited |-> FALSE, gone |-> FALSE, polls |-> 0,
              result |-> "ok"]
AsleepHandler(env) == [env |-> env, inhibit |-> 0, inUse |-> FALSE, dying |-> FALSE]

(* At boot there may be a MountList entry for the unit.                    *)
Init ==
  /\ \E present \in BOOLEAN, env \in Types :
       /\ node = [present |-> present, env |-> env, task |-> FALSE]
       /\ handler = AsleepHandler(env)
  /\ media = NoMedia /\ pc = "rest" /\ prog = NoProgram
  /\ canDie \in BOOLEAN /\ disturbed = FALSE /\ late = FALSE /\ unbalanced = FALSE
  /\ badBoot = FALSE

-----------------------------------------------------------------------------
At(step) == pc = step
Goto(step) == pc' = step /\ UNCHANGED history
Set(field, v) == prog' = [prog EXCEPT ![field] = v]
Fails == Set("result", "failed")
Give(step) == Goto(step) /\ UNCHANGED prog
GiveUp == Goto("end") /\ Fails
TooLate ==
  /\ pc' = "end" /\ Fails /\ late' = TRUE
  /\ UNCHANGED <<canDie, disturbed, unbalanced, badBoot>>

(* Using the drive's name starts its handler when it is asleep.            *)
Awake == IF node.task THEN handler ELSE AsleepHandler(node.env)
ByName(h) == node.present /\ node' = [node EXCEPT !.task = TRUE] /\ handler' = h
InhibitMore == ByName([Awake EXCEPT !.inhibit = @ + 1])
InhibitLess == ByName([Awake EXCEPT !.inhibit = IF @ = 0 THEN 0 ELSE @ - 1])
(* ACTION_DISK_INFO says BUSY.                                             *)
IsInhibited == handler.inhibit > 0

-----------------------------------------------------------------------------
StartMount(image) ==
  /\ At("rest")
  /\ pc' = "m_snapshot" /\ prog' = [NoProgram EXCEPT !.image = image]
  /\ UNCHANGED <<system, history>>

(* The inspection of the candidate, then snapshot_node.                    *)
BadCandidate == At("m_snapshot") /\ GiveUp /\ UNCHANGED system

Snapshot ==
  /\ At("m_snapshot")
  /\ prog' = [prog EXCEPT
       !.present = node.present, !.active = node.present /\ node.task,
       !.same = node.present => node.env = Type(prog.image), !.gone = FALSE]
  /\ Goto("m_node")
  /\ UNCHANGED system

(* A packet to the port of a handler that has exited since the program saw *)
(* it is never answered.                                                   *)
AsksHandler ==
  \/ At("m_node") /\ prog.active /\ (media = NoMedia \/ ~prog.same)
  \/ pc \in {"u_busy", "u_flush", "u_die", "u_in_use"}
HandlerGone ==
  /\ AsksHandler /\ prog.gone
  /\ Give("hung")
  /\ UNCHANGED system
Answered(step) == At(step) /\ (AsksHandler => ~prog.gone)

(* A query fails that would have told that the drive is inhibited.         *)
Overlook(step) ==
  /\ ~unbalanced /\ unbalanced' = TRUE
  /\ pc' = step /\ UNCHANGED <<canDie, disturbed, late, badBoot>>

ParkedUnchecked == FALSE
IsParked == prog.active /\ media = NoMedia /\ IsInhibited

(* What the node as it was seen calls for before the medium is changed.    *)
ReuseParked ==
  /\ Answered("m_node") /\ IsParked
  /\ IF prog.same
     THEN prog' = [prog EXCEPT !.parked = TRUE, !.inhibited = TRUE] /\ Goto("m_mount")
     ELSE GiveUp
  /\ UNCHANGED system

(* node_parked also says no when TD_CHANGESTATE or ACTION_DISK_INFO fails: *)
(* a parked drive is then inhibited once more, or told to die. Without     *)
(* TD_CHANGESTATE no packet is sent before that.                           *)
InhibitRunning ==
  /\ At("m_node") /\ prog.same /\ prog.active
  /\ \/ /\ InhibitMore /\ Set("inhibited", TRUE)
        /\ IF IsParked THEN Overlook("m_mount") ELSE Goto("m_mount")
     \/ GiveUp /\ UNCHANGED <<node, handler>>
  /\ UNCHANGED media

LeaveAsleep ==
  /\ Answered("m_node") /\ ~IsParked /\ ~prog.active
  /\ Give("m_mount")
  /\ UNCHANGED system

Die ==
  /\ canDie
  /\ handler' = [handler EXCEPT !.dying = ~handler.inUse]

RetireOther ==
  /\ Answered("m_node") /\ ~prog.same /\ prog.active
  /\ \/ Die /\ Give("m_retire")
     \/ ~canDie /\ GiveUp /\ UNCHANGED handler
  /\ UNCHANGED <<node, media>>

SamePoll == prog.polls
NextPoll == prog.polls + 1
PollAgain == prog.polls < MaxPolls /\ Set("polls", NextPoll) /\ UNCHANGED pc /\ UNCHANGED history
PolledOut == prog.polls = MaxPolls

PollRetired ==
  /\ At("m_retire")
  /\ IF PolledOut THEN TooLate
     ELSE IF node.present /\ ~node.task THEN Give("m_mount") ELSE PollAgain
  /\ UNCHANGED system

MountCatalog ==
  /\ At("m_mount")
  /\ \/ /\ media' = prog.image
        /\ UNCHANGED prog
        /\ Goto(IF ~prog.present THEN "m_create"
                ELSE IF ~prog.same THEN "m_envec" ELSE "m_uninhibit")
     \/ media' = media /\ Fails /\ Goto("m_uninhibit")
  /\ UNCHANGED <<node, handler>>

CreateNode ==
  /\ At("m_create")
  /\ \/ /\ ~node.present
        /\ node' = [present |-> TRUE, env |-> Type(prog.image), task |-> FALSE]
        /\ Give("m_uninhibit")
     \/ node' = node /\ Fails /\ Goto("m_uninhibit")
  /\ UNCHANGED <<handler, media>>

MayUpdateAlways == node.present
MayUpdate == node.present /\ ~node.task
UpdateInactiveEnvec ==
  /\ At("m_envec")
  /\ IF MayUpdate
     THEN node' = [node EXCEPT !.env = Type(prog.image)] /\ Give("m_uninhibit")
     ELSE node' = node /\ Fails /\ Goto("m_uninhibit")
  /\ UNCHANGED <<handler, media>>

Uninhibits == prog.inhibited /\ (prog.result = "ok" \/ ~prog.parked)
Uninhibit ==
  /\ At("m_uninhibit")
  /\ pc' = "end"
  /\ \/ Uninhibits /\ InhibitLess /\ UNCHANGED <<prog, unbalanced>>
     \/ /\ Uninhibits /\ Fails /\ ~unbalanced /\ unbalanced' = TRUE
        /\ UNCHANGED <<node, handler>>
     \/ ~Uninhibits /\ UNCHANGED <<node, handler, prog, unbalanced>>
  /\ UNCHANGED <<media, canDie, disturbed, late, badBoot>>

-----------------------------------------------------------------------------
StartUnmount ==
  /\ At("rest")
  /\ pc' = "u_state" /\ prog' = NoProgram
  /\ UNCHANGED <<system, history>>

HandlerState ==
  /\ At("u_state")
  /\ Give(IF node.present /\ node.task THEN "u_port" ELSE "u_eject")
  /\ UNCHANGED system

FindPort ==
  /\ At("u_port")
  /\ \/ ByName(Awake) /\ Set("gone", FALSE) /\ Goto("u_busy")
     \/ GiveUp /\ UNCHANGED <<node, handler>>
  /\ UNCHANGED media

NeverBusy == FALSE
SeesBusy == IsInhibited
RefuseParked ==
  /\ Answered("u_busy")
  /\ \/ SeesBusy /\ GiveUp
     \/ SeesBusy /\ Overlook("u_flush") /\ UNCHANGED prog
     \/ ~SeesBusy /\ Give("u_flush")
  /\ UNCHANGED system

Flush ==
  /\ Answered("u_flush")
  /\ Give("u_die") \/ GiveUp
  /\ UNCHANGED system

TellToDie ==
  /\ Answered("u_die")
  /\ \/ Die /\ Give("u_retire")
     \/ ~canDie /\ Give("u_in_use") /\ UNCHANGED handler
  /\ UNCHANGED <<node, media>>

IgnoresUse == TRUE
NotInUse == ~handler.inUse
(* Without an answer the handler counts as busy.                           *)
CheckInUse ==
  /\ Answered("u_in_use")
  /\ \/ NotInUse /\ Give("u_inhibit")
     \/ GiveUp
  /\ UNCHANGED system

Park ==
  /\ At("u_inhibit")
  /\ \/ InhibitMore /\ Set("inhibited", TRUE) /\ Goto("u_eject")
     \/ GiveUp /\ UNCHANGED <<node, handler>>
  /\ UNCHANGED media

(* wait_handler_retired looks once more after its polls.                   *)
WaitRetired ==
  /\ At("u_retire")
  /\ IF ~node.present \/ ~node.task THEN Give("u_eject")
     ELSE IF PolledOut THEN TooLate ELSE PollAgain
  /\ UNCHANGED system

KeepsNode == prog.inhibited
Eject ==
  /\ At("u_eject")
  /\ \/ media' = NoMedia /\ Give(IF KeepsNode THEN "end" ELSE "u_remove")
     \/ media' = media /\ Fails /\ Goto(IF prog.inhibited THEN "m_uninhibit" ELSE "end")
  /\ UNCHANGED <<node, handler>>

RemoveNode ==
  /\ At("u_remove")
  /\ IF node.present
     THEN node' = [node EXCEPT !.present = FALSE, !.task = FALSE] /\ Give("end")
     ELSE node' = node /\ GiveUp
  /\ UNCHANGED <<handler, media>>

-----------------------------------------------------------------------------
(* FBOOT on DN0:, which it leaves alone when it is active.                 *)
StartBoot ==
  /\ At("rest")
  /\ pc' = "b_state" /\ prog' = NoProgram
  /\ UNCHANGED <<system, history>>

NodeState ==
  /\ At("b_state")
  /\ \/ ~(node.present /\ node.task) /\ Set("present", node.present) /\ Goto("b_restore")
     \/ GiveUp
  /\ UNCHANGED system

(* The FujiNet restores its default image, if it has one, unless unit zero *)
(* has a user's image. When TD_CHANGESTATE fails, FBOOT takes the unit for *)
(* empty.                                                                  *)
MarkBoot ==
  /\ pc' = "end" /\ badBoot' = TRUE
  /\ UNCHANGED <<canDie, disturbed, late, unbalanced>>
TakenForEmpty ==
  /\ Set("result", "none")
  /\ IF media' = NoMedia THEN Goto("end") ELSE MarkBoot

RestoreDefault ==
  /\ At("b_restore")
  /\ \/ /\ media' \in IF media = NoMedia THEN Images \cup {NoMedia} ELSE {media}
        /\ \/ media' # NoMedia /\ Set("image", media') /\ Goto("b_validate")
           \/ TakenForEmpty
     \/ GiveUp /\ UNCHANGED media
  /\ UNCHANGED <<node, handler>>

(* validate_default_disk, whose geometry query or read may fail, too; the  *)
(* image stays mounted when it is refused.                                 *)
Refuse == Fails /\ MarkBoot
IsDefaultType == Type(media) = BootType
ValidateDefault ==
  /\ At("b_validate")
  /\ \/ IsDefaultType /\ Give(IF prog.present THEN "b_start" ELSE "b_create")
     \/ Refuse
  /\ UNCHANGED system

CreateDn0 ==
  /\ At("b_create")
  /\ \/ node' = [present |-> TRUE, env |-> BootType, task |-> FALSE] /\ Give("end")
     \/ GiveUp /\ UNCHANGED node
  /\ UNCHANGED <<handler, media>>

(* C:Mount starts the node that was there, with the DosEnvec it has.       *)
StartInactiveDn0 ==
  /\ At("b_start")
  /\ \/ ByName(Awake) /\ UNCHANGED prog
     \/ Fails /\ UNCHANGED <<node, handler>>
  /\ pc' = "end" /\ badBoot' = (badBoot \/ node.env # BootType)
  /\ UNCHANGED <<media, canDie, disturbed, late, unbalanced>>

-----------------------------------------------------------------------------
(* The program returns to the shell.                                       *)
Unfit == media # NoMedia /\ node.present /\ node.env # Type(media)
End ==
  /\ At("end")
  /\ pc' = "rest" /\ prog' = NoProgram
  /\ disturbed' = (disturbed /\ prog.result # "ok")
  /\ badBoot' = (badBoot /\ Unfit)
  /\ UNCHANGED <<system, canDie, late, unbalanced>>

-----------------------------------------------------------------------------
(* Any access to the drive starts its handler.                             *)
AccessDrive ==
  /\ node.present /\ ~node.task
  /\ node' = [node EXCEPT !.task = TRUE] /\ handler' = AsleepHandler(node.env)
  /\ disturbed' = (disturbed \/ pc # "rest")
  /\ UNCHANGED <<media, pc, prog, canDie, late, unbalanced, badBoot>>

OpenFile ==
  /\ node.present /\ node.task /\ ~IsInhibited /\ ~handler.dying /\ ~handler.inUse
  /\ media # NoMedia /\ handler.env = Type(media)
  /\ handler' = [handler EXCEPT !.inUse = TRUE]
  /\ disturbed' = (disturbed \/ pc # "rest")
  /\ UNCHANGED <<node, media, pc, prog, canDie, late, unbalanced, badBoot>>

CloseFile ==
  /\ node.task /\ handler.inUse
  /\ handler' = [handler EXCEPT !.inUse = FALSE]
  /\ UNCHANGED <<node, media, pc, prog, history>>

HandlerExits ==
  /\ node.task /\ handler.dying
  /\ node' = [node EXCEPT !.task = FALSE] /\ handler' = AsleepHandler(node.env)
  /\ prog' = [prog EXCEPT !.gone = ~At("rest")]
  /\ UNCHANGED <<media, pc, history>>

-----------------------------------------------------------------------------
ProgramStep ==
  \/ HandlerGone \/ BadCandidate \/ Snapshot \/ ReuseParked \/ InhibitRunning \/ LeaveAsleep
  \/ RetireOther \/ PollRetired \/ MountCatalog \/ CreateNode \/ UpdateInactiveEnvec
  \/ Uninhibit \/ HandlerState \/ FindPort \/ RefuseParked \/ Flush \/ TellToDie \/ CheckInUse
  \/ Park \/ WaitRetired \/ Eject \/ RemoveNode \/ End
  \/ NodeState \/ RestoreDefault \/ ValidateDefault \/ CreateDn0 \/ StartInactiveDn0

Next ==
  \/ ProgramStep \/ StartUnmount \/ StartBoot \/ \E image \in Images : StartMount(image)
  \/ AccessDrive \/ OpenFile \/ CloseFile \/ HandlerExits

(* A program's packets and commands are answered.                          *)
Spec == Init /\ [][Next]_vars /\ WF_vars(ProgramStep)

-----------------------------------------------------------------------------
TypeOK ==
  /\ node \in [present : BOOLEAN, env : Types, task : BOOLEAN]
  /\ handler \in [env : Types, inhibit : 0..2, inUse : BOOLEAN, dying : BOOLEAN]
  /\ media \in Images \cup {NoMedia}
  /\ prog \in [image : Images \cup {NoMedia}, present : BOOLEAN, active : BOOLEAN,
               same : BOOLEAN, parked : BOOLEAN, inhibited : BOOLEAN,
               gone : BOOLEAN, polls : 0..MaxPolls, result : {"ok", "failed", "none"}]

(* A running handler that users can reach reads the mounted image with a   *)
(* geometry or filesystem it does not have.                                *)
Stale == node.task /\ ~IsInhibited /\ media # NoMedia /\ handler.env # Type(media)

(* fmount.c:112-116 says a stale DosEnvec "hangs the volume": no handler   *)
(* has one, unless somebody accessed the drive while a command was changing *)
(* it and that command failed, or FBOOT left a restored image in the unit   *)
(* that it had refused or not seen.                                        *)
GeometryMatches == Stale => disturbed \/ badBoot

(* Between commands a drive is only inhibited, and only once, when it is   *)
(* parked without a medium; FMOUNT's single un-inhibit then suffices. Only *)
(* a failed un-inhibit, or a failed query that hid from a command that the *)
(* drive is inhibited, breaks this, and by one Inhibit: over a medium, or  *)
(* a second one without.                                                   *)
InhibitBalanced ==
  pc = "rest" /\ node.task /\ IsInhibited =>
    /\ media # NoMedia => unbalanced /\ handler.inhibit = 1
    /\ handler.inhibit = 2 => unbalanced

(* A command that reports success has done what it says, whatever users    *)
(* did meanwhile: FMOUNT leaves its image readable by the handler that     *)
(* runs or will run, FUMOUNT no medium, and no node but a parked one. A    *)
(* failure the command was not told of may leave one Inhibit more, and a   *)
(* DN0: FBOOT started reads what its DosEnvec says. "No configured default *)
(* disk" is true unless FBOOT did not see the disk.                        *)
SuccessIsTrue ==
  /\ pc = "end" /\ prog.result = "ok" =>
       /\ media = prog.image
       /\ media # NoMedia =>
            /\ node.present
            /\ badBoot \/ (node.env = Type(media) /\ ~Stale)
            /\ node.task /\ IsInhibited => unbalanced /\ handler.inhibit = 1
       /\ media = NoMedia /\ node.present =>
            node.task /\ IsInhibited /\ (handler.inhibit = 2 => unbalanced)
  /\ pc = "end" /\ prog.result = "none" => media = NoMedia \/ badBoot

(* FUMOUNT takes no medium away from open files, nor the node from a       *)
(* running handler, unless they came after it had looked.                  *)
EjectsUnused ==
  [][/\ media # NoMedia /\ media' = NoMedia => (node.task => ~handler.inUse) \/ disturbed
     /\ node.present /\ ~node'.present => ~node.task \/ disturbed]_vars

(* A command ends. It can hang only after one that gave up waiting for a   *)
(* handler, which exits later, under a packet sent to it.                  *)
CommandsEnd == pc # "rest" ~> pc = "rest" \/ late

=============================================================================

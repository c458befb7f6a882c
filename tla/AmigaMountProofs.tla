-------------------------- MODULE AmigaMountProofs --------------------------
(***************************************************************************)
(* Proofs about AmigaMount, for any types and numbers of images and any    *)
(* number of polls.  AmigaInv says, for every step a program may be at,    *)
(* what it has seen and still holds, how often the drive is inhibited, and *)
(* when the node may not fit the medium.  Whoever reads the drive's        *)
(* DosEnvec reads it when the handler starts (NodeInv), so what counts is  *)
(* whether a handler may have started since the program looked (Asleep).   *)
(* That a command ends in a bounded number of steps is counted by          *)
(* StepsLeft.                                                              *)
(***************************************************************************)
EXTENDS AmigaMount, TLAPS

NodeType == [present : BOOLEAN, env : Types, task : BOOLEAN]
HandlerType == [env : Types, inhibit : 0..2, inUse : BOOLEAN, dying : BOOLEAN]
ProgType == [image : Images \cup {NoMedia}, present : BOOLEAN, active : BOOLEAN,
             same : BOOLEAN, parked : BOOLEAN, inhibited : BOOLEAN,
             gone : BOOLEAN, polls : 0..MaxPolls, result : {"ok", "failed", "none"}]

(* Where a program may be.                                                 *)
Mounting == {"m_mount", "m_create", "m_envec", "m_uninhibit"}
MountSteps == {"m_snapshot", "m_node", "m_retire"} \cup Mounting
UnmountSteps == {"u_state", "u_port", "u_busy", "u_flush", "u_die", "u_in_use", "u_inhibit",
                 "u_retire", "u_eject", "u_remove"}
BootSteps == {"b_state", "b_restore", "b_validate", "b_create", "b_start"}
Steps == {"rest", "end", "hung"} \cup MountSteps \cup UnmountSteps \cup BootSteps

TypeInv ==
  /\ node \in NodeType /\ handler \in HandlerType /\ prog \in ProgType
  /\ media \in Images \cup {NoMedia} /\ pc \in Steps
  /\ canDie \in BOOLEAN /\ disturbed \in BOOLEAN /\ late \in BOOLEAN
  /\ unbalanced \in BOOLEAN /\ badBoot \in BOOLEAN

(* Somebody has started the handler since the program found none.          *)
Asleep == node.task => disturbed

(* How often the running handler is inhibited.                             *)
Held == IF node.task THEN handler.inhibit ELSE 0
AtMostTwice == Held <= 2 /\ (Held = 2 => unbalanced)
MostlyFree ==
  AtMostTwice /\ (Held = 1 => unbalanced \/ media = NoMedia) /\ (Held = 2 => media = NoMedia)
(* A program that takes the drive for one in use has overlooked no more    *)
(* than that it is parked.                                                 *)
Overlooked == Held <= 1 /\ (Held = 1 => unbalanced /\ media = NoMedia)

(* A running handler has read the node's DosEnvec, and only one that can   *)
(* die is dying.                                                           *)
NodeInv ==
  /\ node.task => node.present /\ handler.env = node.env
  /\ handler.dying => canDie

(* What FMOUNT saw of the node is so while it acts on it.                  *)
SeenInv ==
  pc \in MountSteps \ {"m_snapshot", "m_uninhibit"} =>
    /\ prog.image \in Images /\ prog.result = "ok"
    /\ prog.present = node.present
    /\ prog.same => (prog.present => node.env = Type(prog.image))
MountInv ==
  /\ pc = "m_snapshot" => prog.image \in Images /\ prog.result = "ok"
  /\ pc \in MountSteps \ Mounting => ~prog.inhibited /\ ~prog.parked
  /\ pc = "m_node" => IF prog.active THEN prog.present ELSE Asleep
  /\ pc \in Mounting /\ prog.parked => prog.present /\ prog.same
  /\ pc = "m_mount" /\ ~prog.same => Asleep
  /\ pc = "m_create" => ~prog.present /\ media = prog.image
  /\ pc = "m_envec" => prog.present /\ ~prog.same /\ Asleep /\ media = prog.image
  /\ pc = "m_uninhibit" => prog.result # "none"
  /\ pc = "m_uninhibit" /\ prog.result = "ok" =>
       /\ prog.image \in Images /\ media = prog.image
       /\ node.present /\ node.env = Type(prog.image)

(* FUMOUNT looks at the handler before it ejects; what comes later, it     *)
(* does not see.                                                           *)
UnmountInv ==
  /\ pc \in UnmountSteps => prog.image = NoMedia /\ prog.result = "ok" /\ ~prog.parked
  /\ pc \in UnmountSteps \ {"u_eject"} => ~prog.inhibited
  /\ pc \in {"u_in_use", "u_inhibit"} => ~canDie
  /\ pc = "u_inhibit" => (node.task => ~handler.inUse) \/ disturbed
  /\ pc = "u_eject" =>
       IF prog.inhibited
       THEN /\ ~canDie /\ node.task /\ handler.inhibit \in 1..2
            /\ handler.inhibit = 2 => unbalanced /\ media = NoMedia
            /\ ~handler.inUse \/ disturbed
       ELSE Asleep
  /\ pc = "u_remove" => Asleep /\ media = NoMedia

BootInv ==
  /\ pc \in BootSteps => prog.image = NoMedia \/ media = prog.image
  /\ pc \in BootSteps => prog.result = "ok" /\ ~prog.inhibited
  /\ pc \in BootSteps \ {"b_state"} => Asleep /\ prog.present = node.present
  /\ pc \in {"b_validate", "b_create", "b_start"} => prog.image \in Images
  /\ pc \in {"b_create", "b_start"} => Type(media) = BootType
  /\ pc = "b_create" => ~prog.present
  /\ pc = "b_start" => prog.present

(* A handler is inhibited by a program that will undo it, by one that      *)
(* parked it, or because undoing it failed; twice, when a command did not  *)
(* see that it was parked.                                                 *)
HeldInv ==
  /\ pc \in Mounting =>
       IF prog.inhibited
       THEN /\ AtMostTwice
            /\ prog.parked /\ (pc = "m_mount" \/ prog.result = "failed") => media = NoMedia
       ELSE Held = 0
  /\ pc = "m_node" /\ ~prog.active => Held = 0
  /\ pc \in {"u_flush", "u_die", "u_in_use", "u_inhibit", "u_retire"} => Overlooked
  /\ pc = "u_remove" => Held = 0
  /\ pc = "u_eject" /\ ~prog.inhibited => Held = 0
  /\ pc \in BootSteps \ {"b_state"} => Held = 0
  /\ pc \notin Mounting \cup {"u_eject"} => MostlyFree
  /\ prog.parked => prog.inhibited

(* A medium differs from the node it is under only while no handler runs   *)
(* there that the program has not been told of.                            *)
Differing == {"m_envec", "b_validate", "b_start"}
FitInv == Unfit => disturbed \/ badBoot \/ (pc \in Differing /\ ~node.task)

EndInv ==
  /\ pc = "end" /\ prog.result = "ok" =>
       /\ media = prog.image
       /\ media # NoMedia => node.present /\ (node.env = Type(media) \/ badBoot)
       /\ media = NoMedia /\ node.present => ~canDie /\ node.task /\ handler.inhibit > 0
  /\ pc = "end" /\ prog.result = "none" => media = NoMedia \/ badBoot

AmigaInv ==
  /\ TypeInv /\ NodeInv /\ SeenInv /\ MountInv /\ UnmountInv /\ BootInv
  /\ HeldInv /\ FitInv /\ EndInv

-----------------------------------------------------------------------------
LEMMA Media ==
  /\ NoMedia \notin Images
  /\ \A image \in Images : Type(image) \in Types
BY AmigaAssumption DEF Images, NoMedia, Type

(* One field of a record is set.                                           *)
LEMMA SetsInhibited ==
  ASSUME TypeInv, NEW v \in BOOLEAN, Set("inhibited", v)
  PROVE  /\ prog' \in ProgType /\ prog'.inhibited = v
         /\ prog'.image = prog.image /\ prog'.present = prog.present
         /\ prog'.active = prog.active /\ prog'.same = prog.same
         /\ prog'.parked = prog.parked /\ prog'.result = prog.result
BY DEF TypeInv, ProgType, Set

LEMMA Fail ==
  ASSUME TypeInv, Fails
  PROVE  /\ prog' \in ProgType /\ prog'.result = "failed"
         /\ prog'.image = prog.image /\ prog'.present = prog.present
         /\ prog'.active = prog.active /\ prog'.same = prog.same
         /\ prog'.parked = prog.parked /\ prog'.inhibited = prog.inhibited
BY DEF TypeInv, ProgType, Set, Fails

LEMMA SetsGone ==
  ASSUME TypeInv, Set("gone", FALSE)
  PROVE  /\ prog' \in ProgType /\ prog'.result = prog.result
         /\ prog'.image = prog.image /\ prog'.present = prog.present
         /\ prog'.active = prog.active /\ prog'.same = prog.same
         /\ prog'.parked = prog.parked /\ prog'.inhibited = prog.inhibited
BY DEF TypeInv, ProgType, Set

LEMMA SetsPolls ==
  ASSUME TypeInv, NEW v \in 0..MaxPolls, Set("polls", v)
  PROVE  /\ prog' \in ProgType /\ prog'.result = prog.result
         /\ prog'.image = prog.image /\ prog'.present = prog.present
         /\ prog'.active = prog.active /\ prog'.same = prog.same
         /\ prog'.parked = prog.parked /\ prog'.inhibited = prog.inhibited
BY DEF TypeInv, ProgType, Set

LEMMA SetsPresent ==
  ASSUME TypeInv, NEW v \in BOOLEAN, Set("present", v)
  PROVE  /\ prog' \in ProgType /\ prog'.result = prog.result
         /\ prog'.image = prog.image /\ prog'.present = v
         /\ prog'.active = prog.active /\ prog'.same = prog.same
         /\ prog'.parked = prog.parked /\ prog'.inhibited = prog.inhibited
BY DEF TypeInv, ProgType, Set

LEMMA SetsImage ==
  ASSUME TypeInv, NEW v \in Images \cup {NoMedia}, Set("image", v)
  PROVE  /\ prog' \in ProgType /\ prog'.result = prog.result
         /\ prog'.image = v /\ prog'.present = prog.present
         /\ prog'.active = prog.active /\ prog'.same = prog.same
         /\ prog'.parked = prog.parked /\ prog'.inhibited = prog.inhibited
BY DEF TypeInv, ProgType, Set

LEMMA SetsNone ==
  ASSUME TypeInv, Set("result", "none")
  PROVE  /\ prog' \in ProgType /\ prog'.result = "none"
         /\ prog'.image = prog.image /\ prog'.present = prog.present
         /\ prog'.active = prog.active /\ prog'.same = prog.same
         /\ prog'.parked = prog.parked /\ prog'.inhibited = prog.inhibited
BY DEF TypeInv, ProgType, Set

LEMMA Fresh ==
  /\ NoProgram \in ProgType /\ NoProgram.image = NoMedia /\ NoProgram.result = "ok"
  /\ ~NoProgram.inhibited /\ ~NoProgram.parked
BY AmigaAssumption DEF NoProgram, ProgType

LEMMA Sleeper ==
  ASSUME NEW env \in Types
  PROVE  LET h == AsleepHandler(env) IN
         h \in HandlerType /\ h.env = env /\ h.inhibit = 0 /\ ~h.inUse /\ ~h.dying
BY DEF AsleepHandler, HandlerType

LEMMA Waking ==
  ASSUME TypeInv
  PROVE  /\ Awake \in HandlerType /\ Awake.inhibit = Held
         /\ Awake.env = IF node.task THEN handler.env ELSE node.env
         /\ Awake.dying = (node.task /\ handler.dying)
         /\ Awake.inUse = (node.task /\ handler.inUse)
BY Sleeper DEF TypeInv, NodeType, HandlerType, Awake, Held

LEMMA NodeWakes ==
  ASSUME TypeInv, node' = [node EXCEPT !.task = TRUE]
  PROVE  /\ node' \in NodeType /\ node'.task
         /\ node'.present = node.present /\ node'.env = node.env
BY DEF TypeInv, NodeType

LEMMA More ==
  ASSUME TypeInv, Held <= 1, InhibitMore
  PROVE  /\ node' \in NodeType /\ node'.task /\ node.present
         /\ node'.present /\ node'.env = node.env
         /\ handler' \in HandlerType /\ handler'.inhibit = Held + 1
         /\ handler'.env = Awake.env /\ handler'.dying = Awake.dying
         /\ handler'.inUse = Awake.inUse
<1>1. Held \in Nat /\ Awake \in HandlerType /\ Awake.inhibit = Held
  BY Waking DEF HandlerType
<1>2. handler' = [Awake EXCEPT !.inhibit = @ + 1] /\ node.present
      /\ node' = [node EXCEPT !.task = TRUE]
  BY DEF InhibitMore, ByName
<1>3. QED  BY <1>1, <1>2, NodeWakes DEF HandlerType

LEMMA Less ==
  ASSUME TypeInv, InhibitLess
  PROVE  /\ node' \in NodeType /\ node'.task /\ node.present
         /\ node'.present /\ node'.env = node.env
         /\ handler' \in HandlerType /\ handler'.inhibit = IF Held = 0 THEN 0 ELSE Held - 1
         /\ handler'.env = Awake.env /\ handler'.dying = Awake.dying
         /\ handler'.inUse = Awake.inUse
<1>1. Held \in Nat /\ Awake \in HandlerType /\ Awake.inhibit = Held
  BY Waking DEF HandlerType
<1>2. handler' = [Awake EXCEPT !.inhibit = IF @ = 0 THEN 0 ELSE @ - 1] /\ node.present
      /\ node' = [node EXCEPT !.task = TRUE]
  BY DEF InhibitLess, ByName
<1>3. QED  BY <1>1, <1>2, NodeWakes DEF HandlerType

-----------------------------------------------------------------------------
(* FMOUNT's and FUMOUNT's first steps, and the users'.                     *)
(* A program that fails leaves the drive as it is.                         *)
LEMMA Failing ==
  ASSUME AmigaInv, Fails, pc' = "end", UNCHANGED system,
         UNCHANGED <<canDie, disturbed, unbalanced>>,
         late' \in BOOLEAN, badBoot' \in BOOLEAN, badBoot \/ pc \in Differing => badBoot',
         pc \notin Mounting \cup {"u_eject"}
  PROVE  AmigaInv'
<1>1. /\ prog' \in ProgType /\ prog'.result = "failed"
      /\ prog'.parked = prog.parked /\ prog'.inhibited = prog.inhibited
  BY Fail DEF AmigaInv
<1>2. UNCHANGED <<node, handler, media>>
  BY DEF system
<1>3. TypeInv' /\ NodeInv' /\ EndInv'
  BY <1>1, <1>2 DEF AmigaInv, TypeInv, Steps, NodeInv, EndInv
<1>4. SeenInv' /\ MountInv' /\ UnmountInv' /\ BootInv'
  BY DEF SeenInv, MountInv, UnmountInv, BootInv, MountSteps, Mounting, UnmountSteps, BootSteps
<1>5. HeldInv'
  BY <1>1, <1>2 DEF AmigaInv, HeldInv, Held, MostlyFree, AtMostTwice, Overlooked, Mounting,
                    BootSteps
<1>6. FitInv'
  BY <1>1, <1>2 DEF AmigaInv, FitInv, Unfit
<1>7. QED  BY <1>3, <1>4, <1>5, <1>6 DEF AmigaInv

LEMMA GivesUp ==
  ASSUME AmigaInv, GiveUp, UNCHANGED system,
         pc \notin Mounting \cup Differing \cup {"u_eject"}
  PROVE  AmigaInv'
BY Failing DEF GiveUp, Goto, history, AmigaInv, TypeInv

LEMMA GivesUpWaiting ==
  ASSUME AmigaInv, TooLate, UNCHANGED system, pc \in {"m_retire", "u_retire"}
  PROVE  AmigaInv'
BY Failing DEF TooLate, AmigaInv, TypeInv, Mounting, Differing

LEMMA ParkKeeps ==
  ASSUME AmigaInv, Park
  PROVE  AmigaInv'
<1>1. CASE GiveUp /\ UNCHANGED <<node, handler>>
  BY <1>1, GivesUp DEF Park, At, system, Mounting, Differing
<1>2. CASE InhibitMore /\ Set("inhibited", TRUE) /\ Goto("u_eject")
  <2>1. /\ pc = "u_inhibit" /\ Overlooked /\ ~canDie /\ ((node.task => ~handler.inUse) \/ disturbed)
        /\ prog.image = NoMedia /\ prog.result = "ok" /\ ~prog.parked
    BY DEF Park, At, AmigaInv, UnmountInv, HeldInv, UnmountSteps
  <2>2. /\ node' \in NodeType /\ node'.task /\ node'.present /\ node'.env = node.env /\ node.present
        /\ handler' \in HandlerType /\ handler'.inhibit = Held + 1 /\ Held \in 0..1
        /\ handler'.env = Awake.env /\ handler'.dying = Awake.dying /\ handler'.inUse = Awake.inUse
    BY <1>2, <2>1, More DEF AmigaInv, TypeInv, HandlerType, Held, Overlooked
  <2>3. /\ prog' \in ProgType /\ prog'.image = NoMedia /\ prog'.result = "ok"
        /\ ~prog'.parked /\ prog'.inhibited
    BY <1>2, <2>1, SetsInhibited DEF AmigaInv
  <2>4. pc' = "u_eject" /\ UNCHANGED <<media, canDie, disturbed, late, unbalanced, badBoot>>
    BY <1>2 DEF Park, Goto, history
  <2>5. /\ Awake.env = (IF node.task THEN handler.env ELSE node.env)
        /\ Awake.dying = (node.task /\ handler.dying)
        /\ Awake.inUse = (node.task /\ handler.inUse)
    BY Waking DEF AmigaInv
  <2>6. TypeInv' /\ NodeInv'
    BY <2>2, <2>3, <2>4, <2>5 DEF AmigaInv, TypeInv, NodeInv, NodeType, HandlerType, Steps,
                                  UnmountSteps
  <2>7. UnmountInv'
    BY <2>1, <2>2, <2>3, <2>4, <2>5 DEF AmigaInv, TypeInv, NodeType, HandlerType, UnmountInv,
                                        UnmountSteps, Overlooked
  <2>8. SeenInv' /\ MountInv' /\ BootInv' /\ EndInv'
    BY <2>4 DEF SeenInv, MountInv, BootInv, EndInv, MountSteps, Mounting, BootSteps
  <2>9. HeldInv'
    BY <2>3, <2>4 DEF HeldInv, Mounting, BootSteps
  <2>10. FitInv'
    BY <2>1, <2>2, <2>4 DEF AmigaInv, FitInv, Unfit, Differing
  <2>11. QED  BY <2>6, <2>7, <2>8, <2>9, <2>10 DEF AmigaInv
<1>3. QED  BY <1>1, <1>2 DEF Park

LEMMA InhibitRunningKeeps ==
  ASSUME AmigaInv, InhibitRunning
  PROVE  AmigaInv'
<1>1. CASE GiveUp /\ UNCHANGED <<node, handler>>
  BY <1>1, GivesUp DEF InhibitRunning, Answered, At, system, Mounting, Differing
<1>2. CASE /\ InhibitMore /\ Set("inhibited", TRUE)
           /\ IF IsParked THEN Overlook("m_mount") ELSE Goto("m_mount")
  <2>1. /\ pc = "m_node" /\ prog.same /\ prog.active /\ prog.image \in Images /\ prog.result = "ok"
        /\ prog.present = node.present /\ (prog.present => node.env = Type(prog.image))
        /\ ~prog.parked /\ MostlyFree /\ Held \in 0..2 /\ unbalanced \in BOOLEAN
    BY DEF InhibitRunning, At, AmigaInv, TypeInv, HandlerType, SeenInv, MountInv, HeldInv, Held,
           MountSteps, Mounting
  <2>4. /\ pc' = "m_mount" /\ UNCHANGED <<media, canDie, disturbed, late, badBoot>>
        /\ unbalanced' \in BOOLEAN /\ (unbalanced => unbalanced')
        /\ IsParked => unbalanced' /\ ~unbalanced
    BY <1>2, <2>1 DEF InhibitRunning, Overlook, Goto, history
  <2>12. Held <= 1 /\ (Held = 1 => unbalanced')
    <3>1. Held > 0 /\ media = NoMedia => IsParked
      BY <2>1 DEF Held, IsParked, IsInhibited
    <3>2. QED  BY <2>1, <2>4, <3>1 DEF MostlyFree, AtMostTwice
  <2>2. /\ node' \in NodeType /\ node'.task /\ node'.present /\ node'.env = node.env /\ node.present
        /\ handler' \in HandlerType /\ handler'.inhibit = Held + 1
        /\ handler'.env = Awake.env /\ handler'.dying = Awake.dying
    BY <1>2, <2>12, More DEF AmigaInv
  <2>3. /\ prog' \in ProgType /\ prog'.image = prog.image /\ prog'.result = "ok"
        /\ prog'.present = prog.present /\ prog'.same /\ ~prog'.parked /\ prog'.inhibited
    BY <1>2, <2>1, SetsInhibited DEF AmigaInv
  <2>5. /\ Awake.env = (IF node.task THEN handler.env ELSE node.env)
        /\ Awake.dying = (node.task /\ handler.dying)
    BY Waking DEF AmigaInv
  <2>6. TypeInv' /\ NodeInv'
    BY <2>1, <2>2, <2>3, <2>4, <2>5 DEF AmigaInv, TypeInv, NodeInv, NodeType, HandlerType, Steps,
                                        MountSteps, Mounting, IsParked, IsInhibited
  <2>7. SeenInv' /\ MountInv'
    BY <2>1, <2>2, <2>3, <2>4 DEF SeenInv, MountInv, MountSteps, Mounting, NodeType, ProgType
  <2>8. UnmountInv' /\ BootInv' /\ EndInv'
    BY <2>4 DEF UnmountInv, BootInv, EndInv, UnmountSteps, BootSteps
  <2>9. HeldInv'
    <3>1. Held' = Held + 1
      BY <2>2 DEF Held
    <3>2. QED  BY <2>1, <2>3, <2>4, <2>12, <3>1 DEF HeldInv, AtMostTwice, Mounting, BootSteps
  <2>10. FitInv'
    BY <2>1, <2>2, <2>4 DEF AmigaInv, FitInv, Unfit, Differing
  <2>11. QED  BY <2>6, <2>7, <2>8, <2>9, <2>10 DEF AmigaInv
<1>3. QED  BY <1>1, <1>2 DEF InhibitRunning

(* What users and the handler do beside a program.                         *)
LEMMA Outside ==
  ASSUME AmigaInv, UNCHANGED <<media, pc, canDie, late, unbalanced, badBoot>>,
         node' \in NodeType, node'.present = node.present, node'.env = node.env,
         handler' \in HandlerType, node'.task => node'.present /\ handler'.env = node'.env,
         handler'.dying => canDie,
         disturbed' \in BOOLEAN, disturbed => disturbed',
         node'.task => node.task \/ disturbed' \/ pc = "rest",
         node'.task /\ handler'.inUse => (node.task /\ handler.inUse) \/ disturbed' \/ pc = "rest",
         Held' = Held \/ Held' = 0,
         ~canDie /\ node.task => node'.task /\ handler'.inhibit = handler.inhibit,
         prog' \in ProgType, \E gone \in BOOLEAN : prog' = [prog EXCEPT !.gone = gone]
  PROVE  AmigaInv'
<1>1. /\ prog'.image = prog.image /\ prog'.present = prog.present /\ prog'.active = prog.active
      /\ prog'.same = prog.same /\ prog'.parked = prog.parked
      /\ prog'.inhibited = prog.inhibited /\ prog'.result = prog.result
  BY DEF AmigaInv, TypeInv, ProgType
<1>2. TypeInv' /\ NodeInv' /\ SeenInv'
  BY <1>1 DEF AmigaInv, TypeInv, NodeInv, SeenInv, NodeType, ProgType
<1>3. MountInv' /\ BootInv'
  BY <1>1 DEF AmigaInv, TypeInv, NodeType, ProgType, MountInv, BootInv, Asleep,
              MountSteps, Mounting, BootSteps
<1>4. UnmountInv' /\ EndInv'
  BY <1>1 DEF AmigaInv, TypeInv, NodeType, HandlerType, ProgType, UnmountInv, EndInv, Asleep,
              UnmountSteps
<1>5. HeldInv'
  BY <1>1 DEF AmigaInv, TypeInv, NodeType, HandlerType, ProgType, HeldInv, MostlyFree,
              AtMostTwice, Overlooked
<1>6. FitInv'
  BY DEF AmigaInv, TypeInv, NodeType, FitInv, Unfit, Differing
<1>7. QED  BY <1>2, <1>3, <1>4, <1>5, <1>6 DEF AmigaInv

LEMMA SameProgram ==
  ASSUME AmigaInv, prog' = prog
  PROVE  prog' \in ProgType /\ \E gone \in BOOLEAN : prog' = [prog EXCEPT !.gone = gone]
<1>1. prog \in ProgType
  BY DEF AmigaInv, TypeInv
<1>2. prog.gone \in BOOLEAN /\ prog' = [prog EXCEPT !.gone = prog.gone]
  BY <1>1 DEF ProgType
<1>3. QED  BY <1>1, <1>2

LEMMA AccessDriveKeeps ==
  ASSUME AmigaInv, AccessDrive
  PROVE  AmigaInv'
<1>1. TypeInv /\ node.env \in Types /\ disturbed \in BOOLEAN
  BY DEF AmigaInv, TypeInv, NodeType
<1>2. /\ node' \in NodeType /\ node'.task /\ node'.present = node.present /\ node'.env = node.env
      /\ node.present /\ ~node.task
  BY <1>1, NodeWakes DEF AccessDrive
<1>3. handler' \in HandlerType /\ handler'.env = node.env /\ handler'.inhibit = 0
      /\ ~handler'.inUse /\ ~handler'.dying
  BY <1>1, Sleeper DEF AccessDrive
<1>4. Held' = 0
  BY <1>2, <1>3 DEF Held
<1>5. /\ UNCHANGED <<media, pc, canDie, late, unbalanced, badBoot>> /\ prog' = prog
      /\ disturbed' \in BOOLEAN /\ (disturbed => disturbed') /\ (disturbed' \/ pc = "rest")
  BY <1>1 DEF AccessDrive
<1>6. QED  BY <1>2, <1>3, <1>4, <1>5, SameProgram, Outside

LEMMA OpenFileKeeps ==
  ASSUME AmigaInv, OpenFile
  PROVE  AmigaInv'
<1>1. node \in NodeType /\ handler \in HandlerType /\ disturbed \in BOOLEAN
      /\ (node.task => node.present /\ handler.env = node.env) /\ (handler.dying => canDie)
  BY DEF AmigaInv, TypeInv, NodeInv
<1>2. /\ handler' \in HandlerType /\ handler'.env = handler.env
      /\ handler'.inhibit = handler.inhibit /\ handler'.dying = handler.dying
      /\ node' = node /\ UNCHANGED <<media, pc, canDie, late, unbalanced, badBoot>> /\ prog' = prog
  BY <1>1 DEF OpenFile, HandlerType
<1>3. disturbed' \in BOOLEAN /\ (disturbed => disturbed') /\ (disturbed' \/ pc = "rest")
  BY <1>1 DEF OpenFile
<1>4. Held' = Held
  BY <1>2 DEF Held
<1>5. QED  BY <1>1, <1>2, <1>3, <1>4, SameProgram, Outside

LEMMA CloseFileKeeps ==
  ASSUME AmigaInv, CloseFile
  PROVE  AmigaInv'
<1>1. node \in NodeType /\ handler \in HandlerType /\ disturbed \in BOOLEAN
      /\ (node.task => node.present /\ handler.env = node.env) /\ (handler.dying => canDie)
  BY DEF AmigaInv, TypeInv, NodeInv
<1>2. /\ handler' \in HandlerType /\ handler'.env = handler.env
      /\ handler'.inhibit = handler.inhibit /\ handler'.dying = handler.dying /\ ~handler'.inUse
      /\ node' = node /\ prog' = prog
      /\ UNCHANGED <<media, pc, canDie, disturbed, late, unbalanced, badBoot>>
  BY <1>1 DEF CloseFile, HandlerType, history
<1>3. Held' = Held
  BY <1>2 DEF Held
<1>4. QED  BY <1>1, <1>2, <1>3, SameProgram, Outside

LEMMA HandlerExitsKeeps ==
  ASSUME AmigaInv, HandlerExits
  PROVE  AmigaInv'
<1>1. /\ node \in NodeType /\ node.env \in Types /\ disturbed \in BOOLEAN /\ prog \in ProgType
      /\ canDie
  BY DEF AmigaInv, TypeInv, NodeType, NodeInv, HandlerExits
<1>2. /\ node' \in NodeType /\ node'.present = node.present /\ node'.env = node.env
      /\ ~node'.task
  BY <1>1 DEF HandlerExits, NodeType
<1>3. handler' \in HandlerType /\ ~handler'.dying
  BY <1>1, Sleeper DEF HandlerExits
<1>4. UNCHANGED <<media, pc, canDie, disturbed, late, unbalanced, badBoot>>
  BY DEF HandlerExits, history
<1>5. prog' \in ProgType /\ \E gone \in BOOLEAN : prog' = [prog EXCEPT !.gone = gone]
  <2>1. prog' = [prog EXCEPT !.gone = TRUE] \/ prog' = [prog EXCEPT !.gone = FALSE]
    BY DEF HandlerExits, At
  <2>2. QED  BY <1>1, <2>1 DEF ProgType
<1>6. Held' = 0
  BY <1>2 DEF Held
<1>7. QED  BY <1>1, <1>2, <1>3, <1>4, <1>5, <1>6, Outside

LEMMA FindPortKeeps ==
  ASSUME AmigaInv, FindPort
  PROVE  AmigaInv'
<1>1. CASE GiveUp /\ UNCHANGED <<node, handler>>
  BY <1>1, GivesUp DEF FindPort, At, system, Mounting, Differing
<1>2. CASE ByName(Awake) /\ Set("gone", FALSE) /\ Goto("u_busy")
  <2>1. /\ pc = "u_port" /\ prog.image = NoMedia /\ prog.result = "ok"
        /\ ~prog.parked /\ ~prog.inhibited /\ MostlyFree
    BY DEF FindPort, At, AmigaInv, UnmountInv, HeldInv, UnmountSteps, Mounting
  <2>2. /\ node' \in NodeType /\ node'.task /\ node'.present = node.present
        /\ node'.env = node.env /\ node.present /\ handler' = Awake
    BY <1>2, NodeWakes DEF AmigaInv, ByName
  <2>3. /\ prog' \in ProgType /\ prog'.image = NoMedia /\ prog'.result = "ok"
        /\ ~prog'.parked /\ ~prog'.inhibited
    BY <1>2, <2>1, SetsGone DEF AmigaInv
  <2>4. pc' = "u_busy" /\ UNCHANGED <<media, canDie, disturbed, late, unbalanced, badBoot>>
    BY <1>2 DEF FindPort, Goto, history
  <2>5. /\ Awake \in HandlerType /\ Awake.inhibit = Held
        /\ Awake.env = (IF node.task THEN handler.env ELSE node.env)
        /\ Awake.dying = (node.task /\ handler.dying)
    BY Waking DEF AmigaInv
  <2>6. TypeInv' /\ NodeInv'
    BY <2>2, <2>3, <2>4, <2>5 DEF AmigaInv, TypeInv, NodeInv, Steps, UnmountSteps
  <2>7. UnmountInv'
    BY <2>3, <2>4 DEF UnmountInv, UnmountSteps
  <2>8. SeenInv' /\ MountInv' /\ BootInv' /\ EndInv'
    BY <2>4 DEF SeenInv, MountInv, BootInv, EndInv, MountSteps, Mounting, BootSteps
  <2>9. HeldInv'
    <3>1. Held' = Held
      BY <2>2, <2>5 DEF Held
    <3>2. QED  BY <2>1, <2>3, <2>4, <3>1 DEF HeldInv, MostlyFree, AtMostTwice, Overlooked,
                                        Mounting, BootSteps
  <2>10. FitInv'
    BY <2>1, <2>2, <2>4 DEF AmigaInv, FitInv, Unfit, Differing
  <2>11. QED  BY <2>6, <2>7, <2>8, <2>9, <2>10 DEF AmigaInv
<1>3. QED  BY <1>1, <1>2 DEF FindPort

LEMMA UninhibitKeeps ==
  ASSUME AmigaInv, Uninhibit
  PROVE  AmigaInv'
<1>1. /\ pc = "m_uninhibit" /\ pc' = "end" /\ UNCHANGED <<media, canDie, disturbed, late, badBoot>>
      /\ unbalanced \in BOOLEAN /\ Held \in Nat
  BY DEF Uninhibit, At, AmigaInv, TypeInv, Held, HandlerType
<1>2. /\ IF prog.inhibited
         THEN /\ AtMostTwice
              /\ prog.parked /\ prog.result = "failed" => media = NoMedia
         ELSE Held = 0
      /\ prog.parked => prog.inhibited
      /\ prog.result = "ok" => /\ prog.image \in Images /\ media = prog.image
                               /\ node.present /\ node.env = Type(prog.image)
      /\ prog.result # "none"
  BY <1>1 DEF AmigaInv, HeldInv, MountInv, Mounting
<1>3. ASSUME TypeInv', NodeInv', HeldInv', FitInv', EndInv'
      PROVE  AmigaInv'
  <2>1. SeenInv' /\ MountInv' /\ UnmountInv' /\ BootInv'
    BY <1>1 DEF SeenInv, MountInv, UnmountInv, BootInv, MountSteps, Mounting, UnmountSteps,
                BootSteps
  <2>2. QED  BY <1>3, <2>1 DEF AmigaInv
<1>4. CASE Uninhibits /\ InhibitLess /\ UNCHANGED <<prog, unbalanced>>
  <2>1. /\ node' \in NodeType /\ node'.task /\ node'.present /\ node'.env = node.env /\ node.present
        /\ handler' \in HandlerType /\ handler'.inhibit = IF Held = 0 THEN 0 ELSE Held - 1
        /\ handler'.env = Awake.env /\ handler'.dying = Awake.dying
    BY <1>4, Less DEF AmigaInv
  <2>2. /\ Awake.env = (IF node.task THEN handler.env ELSE node.env)
        /\ Awake.dying = (node.task /\ handler.dying)
    BY Waking DEF AmigaInv
  <2>3. TypeInv' /\ NodeInv'
    BY <1>1, <1>4, <2>1, <2>2 DEF AmigaInv, TypeInv, NodeInv, Steps
  <2>4. HeldInv'
    <3>1. Held' = IF Held = 0 THEN 0 ELSE Held - 1
      BY <2>1 DEF Held
    <3>2. Held' = 0 \/ (Held' = 1 /\ unbalanced)
      BY <1>1, <1>2, <3>1 DEF AtMostTwice
    <3>3. QED  BY <1>1, <1>2, <1>4, <3>2 DEF HeldInv, MostlyFree, AtMostTwice, Overlooked,
                                        Mounting, BootSteps
  <2>5. FitInv'
    BY <1>1, <2>1 DEF AmigaInv, FitInv, Unfit, Differing
  <2>6. EndInv'
    BY <1>1, <1>2, <1>4, <2>1, Media DEF EndInv
  <2>7. QED  BY <1>3, <2>3, <2>4, <2>5, <2>6
<1>5. CASE Uninhibits /\ ~unbalanced /\ Fails /\ unbalanced' = TRUE /\ UNCHANGED <<node, handler>>
  <2>1. /\ prog' \in ProgType /\ prog'.result = "failed"
        /\ prog'.parked = prog.parked /\ prog'.inhibited = prog.inhibited
    BY <1>5, Fail DEF AmigaInv
  <2>2. TypeInv' /\ NodeInv' /\ EndInv'
    BY <1>1, <1>5, <2>1 DEF AmigaInv, TypeInv, NodeInv, EndInv, Steps
  <2>3. HeldInv'
    <3>1. Held' = Held /\ Held <= 1
      BY <1>1, <1>2, <1>5 DEF Held, AtMostTwice
    <3>2. QED  BY <1>1, <1>2, <1>5, <2>1, <3>1 DEF HeldInv, MostlyFree, AtMostTwice,
                                        Overlooked, Mounting, BootSteps
  <2>4. FitInv'
    BY <1>1, <1>5 DEF AmigaInv, FitInv, Unfit, Differing
  <2>5. QED  BY <1>3, <2>2, <2>3, <2>4
<1>6. CASE ~Uninhibits /\ UNCHANGED <<node, handler, prog, unbalanced>>
  <2>1. TypeInv' /\ NodeInv'
    BY <1>1, <1>6 DEF AmigaInv, TypeInv, NodeInv, Steps
  <2>2. Held' = Held /\ (Held = 0 \/ (AtMostTwice /\ media = NoMedia))
    <3>1. ~prog.inhibited \/ (prog.result # "ok" /\ prog.parked)
      BY <1>6 DEF Uninhibits
    <3>2. prog.result # "none"
      BY <1>1 DEF AmigaInv, MountInv
    <3>3. QED  BY <1>1, <1>2, <1>6, <3>1, <3>2 DEF Held, AmigaInv, TypeInv, ProgType
  <2>3. HeldInv'
    BY <1>1, <1>2, <1>6, <2>2 DEF HeldInv, MostlyFree, AtMostTwice, Overlooked, Mounting, BootSteps
  <2>4. FitInv'
    BY <1>1, <1>6 DEF AmigaInv, FitInv, Unfit, Differing
  <2>5. EndInv'
    BY <1>1, <1>2, <1>6, Media DEF EndInv
  <2>6. QED  BY <1>3, <2>1, <2>3, <2>4, <2>5
<1>7. QED  BY <1>4, <1>5, <1>6 DEF Uninhibit

LEMMA SnapshotKeeps ==
  ASSUME AmigaInv, Snapshot
  PROVE  AmigaInv'
<1>1. /\ pc = "m_snapshot" /\ pc' = "m_node"
      /\ UNCHANGED <<node, handler, media, canDie, disturbed, late, unbalanced, badBoot>>
      /\ prog.image \in Images /\ prog.result = "ok" /\ ~prog.inhibited /\ ~prog.parked
      /\ node \in NodeType /\ prog \in ProgType /\ (node.task => node.present)
  BY DEF Snapshot, At, Goto, history, system, AmigaInv, MountInv, MountSteps, Mounting, TypeInv,
         NodeInv
<1>2. /\ node.present \in BOOLEAN /\ (node.present /\ node.task) \in BOOLEAN
      /\ (node.present => node.env = Type(prog.image)) \in BOOLEAN
  BY <1>1 DEF NodeType
<1>3. /\ prog' \in ProgType /\ prog'.image = prog.image /\ prog'.result = "ok"
      /\ ~prog'.inhibited /\ ~prog'.parked /\ prog'.present = node.present
      /\ prog'.active = (node.present /\ node.task)
      /\ prog'.same = (node.present => node.env = Type(prog.image))
  BY <1>1, <1>2 DEF Snapshot, ProgType
<1>4. TypeInv' /\ NodeInv'
  BY <1>1, <1>3 DEF AmigaInv, TypeInv, NodeInv, Steps, MountSteps
<1>5. SeenInv'
  BY <1>1, <1>3 DEF SeenInv, NodeType, ProgType
<1>6. MountInv'
  BY <1>1, <1>3 DEF MountInv, Asleep, NodeType, ProgType, MountSteps, Mounting
<1>7. UnmountInv' /\ BootInv' /\ EndInv'
  BY <1>1 DEF UnmountInv, BootInv, EndInv, UnmountSteps, BootSteps
<1>8. HeldInv'
  <2>1. Held' = Held /\ MostlyFree /\ (~node.task => Held = 0)
    BY <1>1 DEF Held, AmigaInv, HeldInv, Mounting
  <2>2. QED  BY <1>1, <1>3, <2>1 DEF HeldInv, MostlyFree, AtMostTwice, Overlooked, Mounting,
                                     BootSteps, NodeType, ProgType
<1>9. FitInv'
  BY <1>1 DEF AmigaInv, FitInv, Unfit, Differing
<1>10. QED  BY <1>4, <1>5, <1>6, <1>7, <1>8, <1>9 DEF AmigaInv

LEMMA ReuseParkedKeeps ==
  ASSUME AmigaInv, ReuseParked
  PROVE  AmigaInv'
<1>1. CASE ~prog.same
  BY <1>1, GivesUp DEF ReuseParked, Answered, At, Mounting, Differing
<1>2. CASE prog.same
  <2>1. /\ pc = "m_node" /\ pc' = "m_mount"
        /\ UNCHANGED <<node, handler, media, canDie, disturbed, late, unbalanced, badBoot>>
        /\ prog' = [prog EXCEPT !.parked = TRUE, !.inhibited = TRUE]
        /\ media = NoMedia /\ prog.active
    BY <1>2 DEF ReuseParked, Answered, At, Goto, history, system, IsParked
  <2>2. /\ prog.image \in Images /\ prog.result = "ok" /\ prog \in ProgType
        /\ prog.present = node.present /\ (prog.present => node.env = Type(prog.image))
        /\ MostlyFree /\ prog.present
    BY <1>2, <2>1 DEF AmigaInv, SeenInv, MountInv, TypeInv, HeldInv, MountSteps, Mounting
  <2>3. /\ prog' \in ProgType /\ prog'.image = prog.image /\ prog'.result = "ok"
        /\ prog'.inhibited /\ prog'.parked /\ prog'.same /\ prog'.present = prog.present
    BY <1>2, <2>1, <2>2 DEF ProgType
  <2>4. TypeInv' /\ NodeInv'
    BY <2>1, <2>3 DEF AmigaInv, TypeInv, NodeInv, Steps, MountSteps, Mounting
  <2>5. SeenInv'
    BY <2>1, <2>2, <2>3 DEF SeenInv, ProgType
  <2>6. MountInv'
    BY <2>1, <2>2, <2>3 DEF MountInv, MountSteps, Mounting
  <2>7. UnmountInv' /\ BootInv' /\ EndInv'
    BY <2>1 DEF UnmountInv, BootInv, EndInv, UnmountSteps, BootSteps
  <2>8. HeldInv'
    <3>1. Held' = Held
      BY <2>1 DEF Held
    <3>2. QED  BY <2>1, <2>2, <2>3, <3>1 DEF HeldInv, MostlyFree, AtMostTwice, Overlooked,
                                        Mounting, BootSteps
  <2>9. FitInv'
    BY <2>1 DEF AmigaInv, FitInv, Unfit, Differing
  <2>10. QED  BY <2>4, <2>5, <2>6, <2>7, <2>8, <2>9 DEF AmigaInv
<1>3. QED  BY <1>1, <1>2

(* ACTION_DIE changes no more than whether the handler is dying.           *)
LEMMA Dies ==
  ASSUME AmigaInv, Die
  PROVE  /\ handler' \in HandlerType /\ handler'.env = handler.env
         /\ handler'.inhibit = handler.inhibit /\ handler'.inUse = handler.inUse
         /\ canDie
BY DEF Die, AmigaInv, TypeInv, HandlerType

LEMMA RetireOtherKeeps ==
  ASSUME AmigaInv, RetireOther
  PROVE  AmigaInv'
<1>1. CASE ~canDie /\ GiveUp /\ UNCHANGED handler
  BY <1>1, GivesUp DEF RetireOther, Answered, At, system, Mounting, Differing
<1>2. CASE Die /\ Give("m_retire")
  <2>1. /\ pc = "m_node" /\ pc' = "m_retire" /\ prog' = prog
        /\ UNCHANGED <<node, media, canDie, disturbed, late, unbalanced, badBoot>>
    BY <1>2 DEF RetireOther, Answered, At, Give, Goto, history
  <2>2. TypeInv' /\ NodeInv'
    BY <1>2, <2>1, Dies DEF AmigaInv, TypeInv, NodeInv, Steps, MountSteps
  <2>3. SeenInv' /\ MountInv'
    BY <2>1 DEF AmigaInv, SeenInv, MountInv, MountSteps, Mounting
  <2>4. UnmountInv' /\ BootInv' /\ EndInv'
    BY <2>1 DEF UnmountInv, BootInv, EndInv, UnmountSteps, BootSteps
  <2>5. HeldInv'
    <3>1. Held' = Held
      BY <1>2, <2>1, Dies DEF Held
    <3>2. QED  BY <2>1, <3>1 DEF AmigaInv, HeldInv, MostlyFree, AtMostTwice, Overlooked,
                                 Mounting, BootSteps
  <2>6. FitInv'
    BY <2>1 DEF AmigaInv, FitInv, Unfit, Differing
  <2>7. QED  BY <2>2, <2>3, <2>4, <2>5, <2>6 DEF AmigaInv
<1>3. QED  BY <1>1, <1>2 DEF RetireOther

(* A poll that finds the handler still there.                              *)
LEMMA PollsAgain ==
  ASSUME AmigaInv, PollAgain, UNCHANGED system
  PROVE  AmigaInv'
<1>1. UNCHANGED <<pc, node, handler, media, canDie, disturbed, late, unbalanced, badBoot>>
  BY DEF PollAgain, history, system
<1>2. NextPoll \in 0..MaxPolls
  BY AmigaAssumption DEF PollAgain, NextPoll, AmigaInv, TypeInv, ProgType
<1>3. /\ prog' \in ProgType /\ prog'.result = prog.result
      /\ prog'.image = prog.image /\ prog'.present = prog.present
      /\ prog'.active = prog.active /\ prog'.same = prog.same
      /\ prog'.parked = prog.parked /\ prog'.inhibited = prog.inhibited
  BY <1>2, SetsPolls DEF PollAgain, AmigaInv
<1>4. TypeInv' /\ NodeInv' /\ SeenInv' /\ MountInv'
  BY <1>1, <1>3 DEF AmigaInv, TypeInv, NodeInv, SeenInv, MountInv, Asleep, NodeType, ProgType
<1>5. UnmountInv' /\ BootInv'
  BY <1>1, <1>3 DEF AmigaInv, UnmountInv, BootInv, Asleep, TypeInv, NodeType, ProgType
<1>6. HeldInv' /\ FitInv' /\ EndInv'
  BY <1>1, <1>3 DEF AmigaInv, HeldInv, Held, MostlyFree, AtMostTwice, Overlooked, FitInv,
                    Unfit, EndInv, TypeInv, ProgType
<1>7. QED  BY <1>4, <1>5, <1>6 DEF AmigaInv

LEMMA PollRetiredKeeps ==
  ASSUME AmigaInv, PollRetired
  PROVE  AmigaInv'
<1>1. pc = "m_retire" /\ UNCHANGED system
  BY DEF PollRetired, At
<1>2. CASE TooLate
  BY <1>1, <1>2, GivesUpWaiting
<1>3. CASE PollAgain
  BY <1>1, <1>3, PollsAgain
<1>4. CASE ~node.task /\ Give("m_mount")
  <2>1. /\ pc' = "m_mount" /\ prog' = prog
        /\ UNCHANGED <<node, handler, media, canDie, disturbed, late, unbalanced, badBoot>>
    BY <1>1, <1>4 DEF Give, Goto, history, system
  <2>2. TypeInv' /\ NodeInv' /\ SeenInv'
    BY <1>1, <2>1 DEF AmigaInv, TypeInv, NodeInv, SeenInv, Steps, MountSteps, Mounting
  <2>3. MountInv'
    BY <1>1, <1>4, <2>1 DEF AmigaInv, MountInv, Asleep, MountSteps, Mounting
  <2>4. UnmountInv' /\ BootInv' /\ EndInv'
    BY <2>1 DEF UnmountInv, BootInv, EndInv, UnmountSteps, BootSteps
  <2>5. HeldInv'
    <3>1. Held' = 0 /\ ~prog.inhibited /\ ~prog.parked
      BY <1>1, <1>4, <2>1 DEF Held, AmigaInv, MountInv, MountSteps, Mounting
    <3>2. QED  BY <2>1, <3>1 DEF HeldInv, Mounting, BootSteps
  <2>6. FitInv'
    BY <1>1, <2>1 DEF AmigaInv, FitInv, Unfit, Differing
  <2>7. QED  BY <2>2, <2>3, <2>4, <2>5, <2>6 DEF AmigaInv
<1>5. QED  BY <1>2, <1>3, <1>4 DEF PollRetired

LEMMA WaitRetiredKeeps ==
  ASSUME AmigaInv, WaitRetired
  PROVE  AmigaInv'
<1>1. pc = "u_retire" /\ UNCHANGED system
  BY DEF WaitRetired, At
<1>2. CASE TooLate
  BY <1>1, <1>2, GivesUpWaiting
<1>3. CASE PollAgain
  BY <1>1, <1>3, PollsAgain
<1>4. CASE (~node.present \/ ~node.task) /\ Give("u_eject")
  <2>1. /\ pc' = "u_eject" /\ prog' = prog
        /\ UNCHANGED <<node, handler, media, canDie, disturbed, late, unbalanced, badBoot>>
    BY <1>1, <1>4 DEF Give, Goto, history, system
  <2>2. ~node.task /\ ~prog.inhibited /\ prog.image = NoMedia /\ prog.result = "ok" /\ ~prog.parked
    BY <1>1, <1>4 DEF AmigaInv, NodeInv, UnmountInv, UnmountSteps
  <2>3. TypeInv' /\ NodeInv'
    BY <1>1, <2>1 DEF AmigaInv, TypeInv, NodeInv, Steps, UnmountSteps
  <2>4. UnmountInv'
    BY <2>1, <2>2 DEF UnmountInv, UnmountSteps, Asleep
  <2>5. SeenInv' /\ MountInv' /\ BootInv' /\ EndInv'
    BY <2>1 DEF SeenInv, MountInv, BootInv, EndInv, MountSteps, Mounting, BootSteps
  <2>6. HeldInv'
    <3>1. Held' = 0
      BY <2>1, <2>2 DEF Held
    <3>2. QED  BY <2>1, <2>2, <3>1 DEF HeldInv, Mounting, BootSteps
  <2>7. FitInv'
    BY <1>1, <2>1 DEF AmigaInv, FitInv, Unfit, Differing
  <2>8. QED  BY <2>3, <2>4, <2>5, <2>6, <2>7 DEF AmigaInv
<1>5. QED  BY <1>2, <1>3, <1>4 DEF WaitRetired

(* A step that only moves the program on.                                  *)
LEMMA Gives ==
  ASSUME AmigaInv, NEW step \in Steps, Give(step), UNCHANGED system
  PROVE  /\ pc' = step /\ TypeInv' /\ NodeInv' /\ Held' = Held /\ Unfit' = Unfit
         /\ UNCHANGED <<node, handler, media, prog, canDie, disturbed, late, unbalanced, badBoot>>
<1>1. /\ pc' = step
      /\ UNCHANGED <<node, handler, media, prog, canDie, disturbed, late, unbalanced, badBoot>>
  BY DEF Give, Goto, history, system
<1>2. TypeInv' /\ NodeInv'
  BY <1>1 DEF AmigaInv, TypeInv, NodeInv
<1>3. Held' = Held /\ Unfit' = Unfit
  BY <1>1 DEF Held, Unfit
<1>4. QED  BY <1>1, <1>2, <1>3

LEMMA HandlerGoneKeeps ==
  ASSUME AmigaInv, HandlerGone
  PROVE  AmigaInv'
<1>1. /\ Give("hung") /\ UNCHANGED system
      /\ pc \in {"m_node", "u_busy", "u_flush", "u_die", "u_in_use"}
  BY DEF HandlerGone, AsksHandler, At
<1>2. /\ pc' = "hung" /\ TypeInv' /\ NodeInv' /\ Held' = Held /\ Unfit' = Unfit
      /\ UNCHANGED <<node, handler, media, prog, canDie, disturbed, late, unbalanced, badBoot>>
  BY <1>1, Gives DEF Steps
<1>3. SeenInv' /\ MountInv' /\ UnmountInv' /\ BootInv' /\ EndInv'
  BY <1>2 DEF SeenInv, MountInv, UnmountInv, BootInv, EndInv, MountSteps, Mounting,
              UnmountSteps, BootSteps
<1>4. HeldInv' /\ FitInv'
  BY <1>1, <1>2 DEF AmigaInv, HeldInv, MostlyFree, AtMostTwice, Overlooked, FitInv, Differing,
                    Mounting, BootSteps
<1>5. QED  BY <1>2, <1>3, <1>4 DEF AmigaInv

LEMMA BadCandidateKeeps ==
  ASSUME AmigaInv, BadCandidate
  PROVE  AmigaInv'
BY GivesUp DEF BadCandidate, At, Mounting, Differing

LEMMA LeaveAsleepKeeps ==
  ASSUME AmigaInv, LeaveAsleep
  PROVE  AmigaInv'
<1>1. Give("m_mount") /\ UNCHANGED system /\ pc = "m_node" /\ ~prog.active
  BY DEF LeaveAsleep, Answered, At
<1>2. /\ pc' = "m_mount" /\ TypeInv' /\ NodeInv' /\ Held' = Held /\ Unfit' = Unfit
      /\ UNCHANGED <<node, handler, media, prog, canDie, disturbed, late, unbalanced, badBoot>>
  BY <1>1, Gives DEF Steps, MountSteps, Mounting
<1>3. /\ Asleep /\ Held = 0 /\ ~prog.inhibited /\ ~prog.parked
  BY <1>1 DEF AmigaInv, MountInv, HeldInv, MountSteps, Mounting
<1>4. SeenInv' /\ MountInv'
  BY <1>1, <1>2, <1>3 DEF AmigaInv, SeenInv, MountInv, Asleep, MountSteps, Mounting
<1>5. UnmountInv' /\ BootInv' /\ EndInv'
  BY <1>2 DEF UnmountInv, BootInv, EndInv, UnmountSteps, BootSteps
<1>6. HeldInv' /\ FitInv'
  BY <1>1, <1>2, <1>3 DEF AmigaInv, HeldInv, FitInv, Differing, Mounting, BootSteps
<1>7. QED  BY <1>2, <1>4, <1>5, <1>6 DEF AmigaInv

LEMMA HandlerStateKeeps ==
  ASSUME AmigaInv, HandlerState
  PROVE  AmigaInv'
<1>1. PICK step \in {"u_port", "u_eject"} :
        /\ Give(step) /\ UNCHANGED system /\ pc = "u_state"
        /\ step = "u_eject" => ~(node.present /\ node.task)
  BY DEF HandlerState, At
<1>2. /\ pc' = step /\ TypeInv' /\ NodeInv' /\ Held' = Held /\ Unfit' = Unfit
      /\ UNCHANGED <<node, handler, media, prog, canDie, disturbed, late, unbalanced, badBoot>>
  BY <1>1, Gives DEF Steps, UnmountSteps
<1>3. /\ prog.image = NoMedia /\ prog.result = "ok" /\ ~prog.parked /\ ~prog.inhibited
      /\ MostlyFree /\ (step = "u_eject" => ~node.task)
  BY <1>1 DEF AmigaInv, UnmountInv, HeldInv, NodeInv, UnmountSteps, Mounting
<1>4. UnmountInv'
  BY <1>2, <1>3 DEF UnmountInv, Asleep, UnmountSteps
<1>5. SeenInv' /\ MountInv' /\ BootInv' /\ EndInv'
  BY <1>2 DEF SeenInv, MountInv, BootInv, EndInv, MountSteps, Mounting, BootSteps
<1>6. HeldInv'
  <2>1. step = "u_eject" => Held = 0
    BY <1>3 DEF Held
  <2>2. QED  BY <1>2, <1>3, <2>1 DEF HeldInv, MostlyFree, AtMostTwice, Overlooked, Mounting,
                                     BootSteps
<1>7. FitInv'
  BY <1>1, <1>2 DEF AmigaInv, FitInv, Differing
<1>8. QED  BY <1>2, <1>4, <1>5, <1>6, <1>7 DEF AmigaInv

LEMMA RefuseParkedKeeps ==
  ASSUME AmigaInv, RefuseParked
  PROVE  AmigaInv'
<1>1. pc = "u_busy" /\ UNCHANGED system
  BY DEF RefuseParked, Answered, At
<1>2. CASE GiveUp
  BY <1>1, <1>2, GivesUp DEF Mounting, Differing
<1>3. CASE \/ IsInhibited /\ Overlook("u_flush") /\ UNCHANGED prog
           \/ ~IsInhibited /\ Give("u_flush")
  <2>1. /\ UNCHANGED <<node, handler, media, prog, canDie, disturbed, late, badBoot>>
        /\ pc' = "u_flush"
        /\ unbalanced' \in BOOLEAN /\ (unbalanced => unbalanced')
        /\ IsInhibited => unbalanced' /\ ~unbalanced
    BY <1>1, <1>3 DEF Overlook, Give, Goto, history, system, AmigaInv, TypeInv
  <2>2. TypeInv' /\ NodeInv'
    BY <1>1, <2>1 DEF AmigaInv, TypeInv, NodeInv, Steps, UnmountSteps, IsInhibited
  <2>3. MostlyFree /\ Held' = Held /\ Held \in 0..2 /\ (Held > 0 => IsInhibited) /\ ~prog.parked
    BY <1>1, <2>1 DEF AmigaInv, TypeInv, HandlerType, UnmountInv, UnmountSteps, HeldInv, Held,
                      IsInhibited, Mounting
  <2>4. UnmountInv'
    BY <1>1, <2>1 DEF AmigaInv, UnmountInv, UnmountSteps
  <2>5. SeenInv' /\ MountInv' /\ BootInv' /\ EndInv'
    BY <2>1 DEF SeenInv, MountInv, BootInv, EndInv, MountSteps, Mounting, BootSteps
  <2>6. Overlooked' /\ MostlyFree'
    BY <2>1, <2>3 DEF Overlooked, MostlyFree, AtMostTwice
  <2>7. HeldInv'
    BY <2>1, <2>3, <2>6 DEF HeldInv, Mounting, BootSteps
  <2>8. FitInv'
    BY <1>1, <2>1 DEF AmigaInv, FitInv, Unfit, Differing
  <2>9. QED  BY <2>2, <2>4, <2>5, <2>7, <2>8 DEF AmigaInv
<1>4. QED  BY <1>2, <1>3 DEF RefuseParked, SeesBusy

LEMMA FlushKeeps ==
  ASSUME AmigaInv, Flush
  PROVE  AmigaInv'
<1>1. pc = "u_flush" /\ UNCHANGED system
  BY DEF Flush, Answered, At
<1>2. CASE GiveUp
  BY <1>1, <1>2, GivesUp DEF Mounting, Differing
<1>3. CASE Give("u_die")
  <2>1. /\ pc' = "u_die" /\ TypeInv' /\ NodeInv' /\ Held' = Held /\ Unfit' = Unfit
        /\ UNCHANGED <<node, handler, media, prog, canDie, disturbed, late, unbalanced, badBoot>>
    BY <1>1, <1>3, Gives DEF Steps, UnmountSteps
  <2>2. UnmountInv'
    BY <1>1, <2>1 DEF AmigaInv, UnmountInv, UnmountSteps
  <2>3. SeenInv' /\ MountInv' /\ BootInv' /\ EndInv'
    BY <2>1 DEF SeenInv, MountInv, BootInv, EndInv, MountSteps, Mounting, BootSteps
  <2>4. HeldInv' /\ FitInv'
    BY <1>1, <2>1 DEF AmigaInv, HeldInv, MostlyFree, AtMostTwice, Overlooked, FitInv,
                      Differing, Mounting, BootSteps
  <2>5. QED  BY <2>1, <2>2, <2>3, <2>4 DEF AmigaInv
<1>4. QED  BY <1>2, <1>3 DEF Flush

LEMMA TellToDieKeeps ==
  ASSUME AmigaInv, TellToDie
  PROVE  AmigaInv'
<1>1. PICK step \in {"u_retire", "u_in_use"} :
        /\ pc = "u_die" /\ pc' = step /\ (step = "u_in_use" => ~canDie)
        /\ UNCHANGED <<node, media, prog, canDie, disturbed, late, unbalanced, badBoot>>
        /\ Die \/ handler' = handler
  BY DEF TellToDie, Answered, At, Give, Goto, history
<1>2. /\ handler' \in HandlerType /\ handler'.env = handler.env
      /\ handler'.inhibit = handler.inhibit /\ (handler'.dying => canDie)
  BY <1>1, Dies DEF AmigaInv, TypeInv, NodeInv
<1>3. TypeInv' /\ NodeInv'
  BY <1>1, <1>2 DEF AmigaInv, TypeInv, NodeInv, Steps, UnmountSteps
<1>4. UnmountInv'
  BY <1>1 DEF AmigaInv, UnmountInv, UnmountSteps
<1>5. SeenInv' /\ MountInv' /\ BootInv' /\ EndInv'
  BY <1>1 DEF SeenInv, MountInv, BootInv, EndInv, MountSteps, Mounting, BootSteps
<1>6. HeldInv'
  <2>1. Held' = Held
    BY <1>1, <1>2 DEF Held
  <2>2. QED  BY <1>1, <2>1 DEF AmigaInv, HeldInv, MostlyFree, AtMostTwice, Overlooked,
                               Mounting, BootSteps
<1>7. FitInv'
  BY <1>1 DEF AmigaInv, FitInv, Unfit, Differing
<1>8. QED  BY <1>3, <1>4, <1>5, <1>6, <1>7 DEF AmigaInv

LEMMA CheckInUseKeeps ==
  ASSUME AmigaInv, CheckInUse
  PROVE  AmigaInv'
<1>1. pc = "u_in_use" /\ UNCHANGED system
  BY DEF CheckInUse, Answered, At
<1>2. CASE GiveUp
  BY <1>1, <1>2, GivesUp DEF Mounting, Differing
<1>3. CASE ~handler.inUse /\ Give("u_inhibit")
  <2>1. /\ pc' = "u_inhibit" /\ TypeInv' /\ NodeInv' /\ Held' = Held /\ Unfit' = Unfit
        /\ UNCHANGED <<node, handler, media, prog, canDie, disturbed, late, unbalanced, badBoot>>
    BY <1>1, <1>3, Gives DEF Steps, UnmountSteps
  <2>2. UnmountInv'
    BY <1>1, <1>3, <2>1 DEF AmigaInv, UnmountInv, UnmountSteps
  <2>3. SeenInv' /\ MountInv' /\ BootInv' /\ EndInv'
    BY <2>1 DEF SeenInv, MountInv, BootInv, EndInv, MountSteps, Mounting, BootSteps
  <2>4. HeldInv' /\ FitInv'
    BY <1>1, <2>1 DEF AmigaInv, HeldInv, MostlyFree, AtMostTwice, Overlooked, FitInv,
                      Differing, Mounting, BootSteps
  <2>5. QED  BY <2>1, <2>2, <2>3, <2>4 DEF AmigaInv
<1>4. QED  BY <1>2, <1>3 DEF CheckInUse, NotInUse

-----------------------------------------------------------------------------
(* The medium, the node, and FBOOT.                                        *)
LEMMA MountCatalogKeeps ==
  ASSUME AmigaInv, MountCatalog
  PROVE  AmigaInv'
<1>1. /\ pc = "m_mount" /\ UNCHANGED <<node, handler, canDie, disturbed, late, unbalanced, badBoot>>
      /\ prog.image \in Images /\ prog.result = "ok" /\ prog.present = node.present
      /\ node.present \in BOOLEAN /\ prog.same \in BOOLEAN /\ node.task \in BOOLEAN
      /\ prog.same => (prog.present => node.env = Type(prog.image))
      /\ ~prog.same => Asleep
  BY DEF MountCatalog, At, Goto, history, AmigaInv, TypeInv, NodeType, ProgType, SeenInv,
         MountInv, MountSteps, Mounting
<1>2. /\ IF prog.inhibited
         THEN /\ AtMostTwice
              /\ prog.parked => media = NoMedia /\ prog.present /\ prog.same
         ELSE Held = 0
      /\ prog.parked => prog.inhibited
  BY <1>1 DEF AmigaInv, HeldInv, MountInv, Mounting
<1>3. Held' = Held
  BY <1>1 DEF Held
<1>4. CASE /\ media' = prog.image /\ UNCHANGED prog
           /\ Goto(IF ~prog.present THEN "m_create"
                   ELSE IF ~prog.same THEN "m_envec" ELSE "m_uninhibit")
  <2>1. /\ pc' = IF ~prog.present THEN "m_create"
                 ELSE IF ~prog.same THEN "m_envec" ELSE "m_uninhibit"
        /\ prog' = prog /\ media' = prog.image
    BY <1>4 DEF Goto
  <2>2. TypeInv' /\ NodeInv'
    BY <1>1, <2>1 DEF AmigaInv, TypeInv, NodeInv, Steps, MountSteps, Mounting
  <2>3. SeenInv' /\ MountInv'
    BY <1>1, <1>2, <2>1 DEF SeenInv, MountInv, Asleep, MountSteps, Mounting
  <2>4. UnmountInv' /\ BootInv' /\ EndInv'
    BY <2>1 DEF UnmountInv, BootInv, EndInv, UnmountSteps, BootSteps
  <2>5. HeldInv'
    BY <1>1, <1>2, <1>3, <2>1 DEF HeldInv, AtMostTwice, Mounting, BootSteps
  <2>6. FitInv'
    BY <1>1, <2>1 DEF FitInv, Unfit, Differing, Asleep
  <2>7. QED  BY <2>2, <2>3, <2>4, <2>5, <2>6 DEF AmigaInv
<1>5. CASE media' = media /\ Fails /\ Goto("m_uninhibit")
  <2>1. /\ prog' \in ProgType /\ prog'.result = "failed" /\ pc' = "m_uninhibit"
        /\ prog'.parked = prog.parked /\ prog'.inhibited = prog.inhibited
        /\ prog'.present = prog.present /\ prog'.same = prog.same
    BY <1>5, Fail DEF AmigaInv, Goto
  <2>2. TypeInv' /\ NodeInv'
    BY <1>1, <1>5, <2>1 DEF AmigaInv, TypeInv, NodeInv, Steps, MountSteps, Mounting
  <2>3. SeenInv' /\ MountInv'
    BY <1>2, <2>1 DEF SeenInv, MountInv, MountSteps, Mounting
  <2>4. UnmountInv' /\ BootInv' /\ EndInv'
    BY <2>1 DEF UnmountInv, BootInv, EndInv, UnmountSteps, BootSteps
  <2>5. HeldInv'
    BY <1>1, <1>2, <1>3, <1>5, <2>1 DEF HeldInv, AtMostTwice, Mounting, BootSteps
  <2>6. FitInv'
    BY <1>1, <1>5 DEF AmigaInv, FitInv, Unfit, Differing
  <2>7. QED  BY <2>2, <2>3, <2>4, <2>5, <2>6 DEF AmigaInv
<1>6. QED  BY <1>4, <1>5 DEF MountCatalog

(* The node of DNn: now has the geometry of the image that was mounted.    *)
LEMMA NodeFitted ==
  ASSUME AmigaInv, pc \in {"m_create", "m_envec"}, Give("m_uninhibit"),
         UNCHANGED <<handler, media>>, media \in Images,
         node' \in NodeType, node'.present, node'.env = Type(prog.image), ~node'.task
  PROVE  AmigaInv'
<1>1. pc' = "m_uninhibit" /\ UNCHANGED <<prog, canDie, disturbed, late, unbalanced, badBoot>>
  BY DEF Give, Goto, history
<1>2. /\ prog.image \in Images /\ media = prog.image /\ prog.result = "ok" /\ ~prog.parked
  BY DEF AmigaInv, SeenInv, MountInv, HeldInv, MountSteps, Mounting
<1>3. TypeInv' /\ NodeInv'
  BY <1>1 DEF AmigaInv, TypeInv, NodeInv, Steps, MountSteps, Mounting
<1>4. SeenInv' /\ MountInv'
  BY <1>1, <1>2 DEF SeenInv, MountInv, MountSteps, Mounting
<1>5. UnmountInv' /\ BootInv' /\ EndInv'
  BY <1>1 DEF UnmountInv, BootInv, EndInv, UnmountSteps, BootSteps
<1>6. HeldInv'
  <2>1. Held' = 0
    BY DEF Held
  <2>2. QED  BY <1>1, <1>2, <2>1 DEF HeldInv, AtMostTwice, Mounting, BootSteps
<1>7. FitInv'
  BY <1>1, <1>2 DEF FitInv, Unfit
<1>8. QED  BY <1>3, <1>4, <1>5, <1>6, <1>7 DEF AmigaInv

(* The node could not be made fit: FMOUNT undoes what it has done.         *)
LEMMA NodeNotFitted ==
  ASSUME AmigaInv, pc = "m_create" \/ (pc = "m_envec" /\ (disturbed \/ badBoot \/ node.task)),
         node' = node, Fails, Goto("m_uninhibit"), UNCHANGED <<handler, media>>
  PROVE  AmigaInv'
<1>1. /\ prog' \in ProgType /\ prog'.result = "failed" /\ pc' = "m_uninhibit"
      /\ prog'.parked = prog.parked /\ prog'.inhibited = prog.inhibited
      /\ UNCHANGED <<canDie, disturbed, late, unbalanced, badBoot>>
  BY Fail DEF AmigaInv, Goto, history
<1>2. ~prog.parked
  BY DEF AmigaInv, MountInv, Mounting
<1>3. TypeInv' /\ NodeInv'
  BY <1>1 DEF AmigaInv, TypeInv, NodeInv, Steps, MountSteps, Mounting
<1>4. SeenInv' /\ MountInv'
  BY <1>1, <1>2 DEF SeenInv, MountInv, MountSteps, Mounting
<1>5. UnmountInv' /\ BootInv' /\ EndInv'
  BY <1>1 DEF UnmountInv, BootInv, EndInv, UnmountSteps, BootSteps
<1>6. HeldInv'
  <2>1. Held' = Held
    BY DEF Held
  <2>2. QED  BY <1>1, <1>2, <2>1 DEF AmigaInv, HeldInv, AtMostTwice, Mounting, BootSteps
<1>7. FitInv'
  BY <1>1 DEF AmigaInv, FitInv, Unfit, MountInv, Asleep, Differing
<1>8. QED  BY <1>3, <1>4, <1>5, <1>6, <1>7 DEF AmigaInv

LEMMA CreateNodeKeeps ==
  ASSUME AmigaInv, CreateNode
  PROVE  AmigaInv'
<1>1. /\ pc = "m_create" /\ UNCHANGED <<handler, media>> /\ prog.image \in Images
      /\ media = prog.image
  BY DEF CreateNode, At, AmigaInv, SeenInv, MountInv, MountSteps, Mounting
<1>2. CASE /\ node' = [present |-> TRUE, env |-> Type(prog.image), task |-> FALSE]
           /\ Give("m_uninhibit")
  <2>1. /\ node' \in NodeType /\ node'.present /\ node'.env = Type(prog.image) /\ ~node'.task
    BY <1>1, <1>2, Media DEF NodeType
  <2>2. QED  BY <1>1, <1>2, <2>1, NodeFitted
<1>3. CASE node' = node /\ Fails /\ Goto("m_uninhibit")
  BY <1>1, <1>3, NodeNotFitted
<1>4. QED  BY <1>2, <1>3 DEF CreateNode

LEMMA UpdateInactiveEnvecKeeps ==
  ASSUME AmigaInv, UpdateInactiveEnvec
  PROVE  AmigaInv'
<1>1. /\ pc = "m_envec" /\ UNCHANGED <<handler, media>> /\ prog.image \in Images
      /\ media = prog.image /\ node \in NodeType /\ node.present
  BY DEF UpdateInactiveEnvec, At, AmigaInv, TypeInv, SeenInv, MountInv, MountSteps, Mounting
<1>2. CASE MayUpdate
  <2>1. node' = [node EXCEPT !.env = Type(prog.image)] /\ Give("m_uninhibit") /\ ~node.task
    BY <1>2 DEF UpdateInactiveEnvec, MayUpdate
  <2>2. /\ node' \in NodeType /\ node'.present /\ node'.env = Type(prog.image) /\ ~node'.task
    BY <1>1, <2>1, Media DEF NodeType
  <2>3. QED  BY <1>1, <2>1, <2>2, NodeFitted
<1>3. CASE ~MayUpdate
  <2>1. node' = node /\ Fails /\ Goto("m_uninhibit") /\ node.task
    BY <1>1, <1>3 DEF UpdateInactiveEnvec, MayUpdate
  <2>2. QED  BY <1>1, <2>1, NodeNotFitted
<1>4. QED  BY <1>2, <1>3

LEMMA EjectKeeps ==
  ASSUME AmigaInv, Eject
  PROVE  AmigaInv'
<1>1. /\ pc = "u_eject" /\ UNCHANGED <<node, handler, canDie, disturbed, late, unbalanced, badBoot>>
      /\ prog.image = NoMedia /\ prog.result = "ok" /\ ~prog.parked
      /\ IF prog.inhibited
         THEN /\ ~canDie /\ node.task /\ handler.inhibit \in 1..2 /\ (~handler.inUse \/ disturbed)
              /\ handler.inhibit = 2 => unbalanced /\ media = NoMedia
         ELSE Asleep /\ Held = 0
  BY DEF Eject, At, Give, Goto, history, AmigaInv, UnmountInv, HeldInv, UnmountSteps, Mounting
<1>2. Held' = Held /\ Held = IF prog.inhibited THEN handler.inhibit ELSE 0
  BY <1>1 DEF Held
<1>3. CASE media' = NoMedia /\ Give(IF KeepsNode THEN "end" ELSE "u_remove")
  <2>1. /\ pc' = (IF prog.inhibited THEN "end" ELSE "u_remove") /\ prog' = prog
        /\ media' = NoMedia
    BY <1>3 DEF Give, Goto, KeepsNode
  <2>2. TypeInv' /\ NodeInv' /\ FitInv'
    BY <1>1, <2>1 DEF AmigaInv, TypeInv, NodeInv, Steps, UnmountSteps, FitInv, Unfit
  <2>3. UnmountInv' /\ EndInv'
    BY <1>1, <2>1 DEF UnmountInv, EndInv, Asleep, UnmountSteps
  <2>4. SeenInv' /\ MountInv' /\ BootInv'
    BY <2>1 DEF SeenInv, MountInv, BootInv, MountSteps, Mounting, BootSteps
  <2>5. HeldInv'
    BY <1>1, <1>2, <2>1 DEF HeldInv, MostlyFree, AtMostTwice, Overlooked, Mounting, BootSteps
  <2>6. QED  BY <2>2, <2>3, <2>4, <2>5 DEF AmigaInv
<1>4. CASE media' = media /\ Fails /\ Goto(IF prog.inhibited THEN "m_uninhibit" ELSE "end")
  <2>1. /\ prog' \in ProgType /\ prog'.result = "failed"
        /\ prog'.parked = prog.parked /\ prog'.inhibited = prog.inhibited
        /\ pc' = (IF prog.inhibited THEN "m_uninhibit" ELSE "end")
    BY <1>4, Fail DEF AmigaInv, Goto
  <2>2. TypeInv' /\ NodeInv'
    BY <1>1, <1>4, <2>1 DEF AmigaInv, TypeInv, NodeInv, Steps, MountSteps, Mounting
  <2>3. SeenInv' /\ MountInv' /\ UnmountInv' /\ BootInv' /\ EndInv'
    BY <1>1, <2>1 DEF SeenInv, MountInv, UnmountInv, BootInv, EndInv, MountSteps, Mounting,
                      UnmountSteps, BootSteps
  <2>4. HeldInv'
    BY <1>1, <1>2, <1>4, <2>1 DEF HeldInv, MostlyFree, AtMostTwice, Overlooked, Mounting, BootSteps
  <2>5. FitInv'
    BY <1>1, <1>4 DEF AmigaInv, FitInv, Unfit, Differing
  <2>6. QED  BY <2>2, <2>3, <2>4, <2>5 DEF AmigaInv
<1>5. QED  BY <1>3, <1>4 DEF Eject

LEMMA RemoveNodeKeeps ==
  ASSUME AmigaInv, RemoveNode
  PROVE  AmigaInv'
<1>1. /\ pc = "u_remove" /\ UNCHANGED <<handler, media>> /\ media = NoMedia
      /\ prog.image = NoMedia /\ prog.result = "ok" /\ ~prog.parked /\ ~prog.inhibited
      /\ node \in NodeType
  BY DEF RemoveNode, At, AmigaInv, TypeInv, UnmountInv, UnmountSteps
<1>2. CASE ~node.present
  BY <1>1, <1>2, GivesUp DEF RemoveNode, system, Mounting, Differing
<1>3. CASE node.present
  <2>1. /\ node' = [node EXCEPT !.present = FALSE, !.task = FALSE] /\ pc' = "end"
        /\ UNCHANGED <<prog, canDie, disturbed, late, unbalanced, badBoot>>
    BY <1>3 DEF RemoveNode, Give, Goto, history
  <2>2. node' \in NodeType /\ ~node'.present /\ ~node'.task
    BY <1>1, <2>1 DEF NodeType
  <2>3. TypeInv' /\ NodeInv' /\ FitInv' /\ EndInv'
    BY <1>1, <2>1, <2>2 DEF AmigaInv, TypeInv, NodeInv, Steps, FitInv, Unfit, EndInv
  <2>4. SeenInv' /\ MountInv' /\ UnmountInv' /\ BootInv'
    BY <2>1 DEF SeenInv, MountInv, UnmountInv, BootInv, MountSteps, Mounting, UnmountSteps,
                BootSteps
  <2>5. HeldInv'
    <3>1. Held' = 0
      BY <2>2 DEF Held
    <3>2. QED  BY <1>1, <2>1, <3>1 DEF HeldInv, MostlyFree, AtMostTwice, Overlooked, Mounting,
                                       BootSteps
  <2>6. QED  BY <2>3, <2>4, <2>5 DEF AmigaInv
<1>4. QED  BY <1>2, <1>3

LEMMA NodeStateKeeps ==
  ASSUME AmigaInv, NodeState
  PROVE  AmigaInv'
<1>1. pc = "b_state" /\ UNCHANGED system
  BY DEF NodeState, At
<1>2. CASE GiveUp
  BY <1>1, <1>2, GivesUp DEF Mounting, Differing
<1>3. CASE ~(node.present /\ node.task) /\ Set("present", node.present) /\ Goto("b_restore")
  <2>1. /\ UNCHANGED <<node, handler, media, canDie, disturbed, late, unbalanced, badBoot>>
        /\ pc' = "b_restore" /\ ~node.task /\ node.present \in BOOLEAN
    BY <1>1, <1>3 DEF Goto, history, system, AmigaInv, TypeInv, NodeType, NodeInv
  <2>2. /\ prog.result = "ok" /\ ~prog.inhibited /\ (prog.image = NoMedia \/ media = prog.image)
        /\ ~prog.parked
    BY <1>1 DEF AmigaInv, BootInv, HeldInv, BootSteps
  <2>3. /\ prog' \in ProgType /\ prog'.result = "ok" /\ prog'.image = prog.image
        /\ prog'.present = node.present /\ ~prog'.inhibited /\ ~prog'.parked
    BY <1>3, <2>1, <2>2, SetsPresent DEF AmigaInv
  <2>4. TypeInv' /\ NodeInv'
    BY <2>1, <2>3 DEF AmigaInv, TypeInv, NodeInv, Steps, BootSteps
  <2>5. BootInv'
    BY <2>1, <2>2, <2>3 DEF BootInv, Asleep, BootSteps
  <2>6. SeenInv' /\ MountInv' /\ UnmountInv' /\ EndInv'
    BY <2>1 DEF SeenInv, MountInv, UnmountInv, EndInv, MountSteps, Mounting, UnmountSteps
  <2>7. HeldInv'
    <3>1. Held' = 0
      BY <2>1 DEF Held
    <3>2. QED  BY <2>1, <2>3, <3>1 DEF HeldInv, MostlyFree, AtMostTwice, Overlooked, Mounting,
                                       BootSteps
  <2>8. FitInv'
    BY <1>1, <2>1 DEF AmigaInv, FitInv, Unfit, Differing
  <2>9. QED  BY <2>4, <2>5, <2>6, <2>7, <2>8 DEF AmigaInv
<1>4. QED  BY <1>2, <1>3 DEF NodeState

LEMMA RestoreDefaultKeeps ==
  ASSUME AmigaInv, RestoreDefault
  PROVE  AmigaInv'
<1>1. /\ pc = "b_restore" /\ UNCHANGED <<node, handler>> /\ prog.result = "ok"
      /\ ~prog.inhibited /\ ~prog.parked /\ prog.present = node.present /\ Asleep /\ Held = 0
      /\ media \in Images \cup {NoMedia}
  BY DEF RestoreDefault, At, AmigaInv, TypeInv, BootInv, HeldInv, BootSteps
<1>2. CASE GiveUp /\ UNCHANGED media
  BY <1>1, <1>2, GivesUp DEF system, Mounting, Differing
<1>3. CASE TakenForEmpty /\ media' \in Images \cup {NoMedia} /\ (media = NoMedia \/ media' = media)
  <2>1. /\ prog' \in ProgType /\ prog'.result = "none" /\ ~prog'.inhibited /\ ~prog'.parked
        /\ pc' = "end" /\ UNCHANGED <<canDie, disturbed, late, unbalanced>>
    BY <1>1, <1>3, SetsNone DEF AmigaInv, TakenForEmpty, MarkBoot, Goto, history
  <2>2. badBoot' \in BOOLEAN /\ (media' = NoMedia \/ badBoot')
    BY <1>3 DEF AmigaInv, TypeInv, TakenForEmpty, MarkBoot, Goto, history
  <2>3. TypeInv' /\ NodeInv' /\ FitInv' /\ EndInv'
    BY <1>1, <1>3, <2>1, <2>2 DEF AmigaInv, TypeInv, NodeInv, Steps, FitInv, Unfit, EndInv
  <2>4. SeenInv' /\ MountInv' /\ UnmountInv' /\ BootInv'
    BY <2>1 DEF SeenInv, MountInv, UnmountInv, BootInv, MountSteps, Mounting, UnmountSteps,
                BootSteps
  <2>5. HeldInv'
    <3>1. Held' = 0
      BY <1>1 DEF Held
    <3>2. QED  BY <2>1, <3>1 DEF HeldInv, MostlyFree, AtMostTwice, Overlooked, Mounting, BootSteps
  <2>6. QED  BY <2>3, <2>4, <2>5 DEF AmigaInv
<1>4. CASE media' \in Images /\ Set("image", media') /\ Goto("b_validate")
  <2>1. /\ prog' \in ProgType /\ prog'.image = media' /\ prog'.result = "ok"
        /\ ~prog'.inhibited /\ ~prog'.parked /\ prog'.present = prog.present
        /\ pc' = "b_validate" /\ UNCHANGED <<canDie, disturbed, late, unbalanced, badBoot>>
    BY <1>1, <1>4, SetsImage DEF AmigaInv, Goto, history
  <2>2. TypeInv' /\ NodeInv' /\ FitInv'
    BY <1>1, <1>4, <2>1 DEF AmigaInv, TypeInv, NodeInv, Steps, BootSteps, FitInv, Differing, Asleep
  <2>3. BootInv'
    BY <1>1, <1>4, <2>1 DEF BootInv, Asleep, BootSteps
  <2>4. SeenInv' /\ MountInv' /\ UnmountInv' /\ EndInv'
    BY <2>1 DEF SeenInv, MountInv, UnmountInv, EndInv, MountSteps, Mounting, UnmountSteps
  <2>5. HeldInv'
    <3>1. Held' = 0
      BY <1>1 DEF Held
    <3>2. QED  BY <2>1, <3>1 DEF HeldInv, MostlyFree, AtMostTwice, Overlooked, Mounting, BootSteps
  <2>6. QED  BY <2>2, <2>3, <2>4, <2>5 DEF AmigaInv
<1>5. QED
  <2>1. ASSUME ~(GiveUp /\ UNCHANGED media)
        PROVE  /\ media' \in IF media = NoMedia THEN Images \cup {NoMedia} ELSE {media}
               /\ \/ media' # NoMedia /\ Set("image", media') /\ Goto("b_validate")
                  \/ TakenForEmpty
    BY <2>1 DEF RestoreDefault
  <2>2. QED  BY <1>1, <1>2, <1>3, <1>4, <2>1

LEMMA ValidateDefaultKeeps ==
  ASSUME AmigaInv, ValidateDefault
  PROVE  AmigaInv'
<1>1. /\ pc = "b_validate" /\ UNCHANGED system /\ prog.image \in Images /\ media = prog.image
      /\ prog.result = "ok" /\ ~prog.inhibited /\ Asleep /\ prog.present = node.present /\ Held = 0
      /\ ~prog.parked /\ prog.present \in BOOLEAN
  BY Media DEF ValidateDefault, At, AmigaInv, TypeInv, ProgType, BootInv, HeldInv, BootSteps
<1>2. CASE Refuse
  BY <1>1, <1>2, Failing DEF Refuse, MarkBoot, AmigaInv, TypeInv, Mounting
<1>3. CASE Type(media) = BootType /\ Give(IF prog.present THEN "b_start" ELSE "b_create")
  <2>1. /\ pc' = IF prog.present THEN "b_start" ELSE "b_create"
        /\ TypeInv' /\ NodeInv' /\ Held' = Held /\ Unfit' = Unfit
        /\ UNCHANGED <<node, handler, media, prog, canDie, disturbed, late, unbalanced, badBoot>>
    BY <1>1, <1>3, Gives DEF Steps, BootSteps
  <2>2. BootInv'
    BY <1>1, <1>3, <2>1 DEF BootInv, Asleep, BootSteps
  <2>3. SeenInv' /\ MountInv' /\ UnmountInv' /\ EndInv'
    BY <2>1 DEF SeenInv, MountInv, UnmountInv, EndInv, MountSteps, Mounting, UnmountSteps
  <2>4. HeldInv'
    BY <1>1, <2>1 DEF HeldInv, MostlyFree, AtMostTwice, Overlooked, Mounting, BootSteps
  <2>5. FitInv'
    BY <1>1, <2>1 DEF FitInv, Unfit, Differing, Asleep
  <2>6. QED  BY <2>1, <2>2, <2>3, <2>4, <2>5 DEF AmigaInv
<1>4. QED  BY <1>2, <1>3 DEF ValidateDefault, IsDefaultType

LEMMA CreateDn0Keeps ==
  ASSUME AmigaInv, CreateDn0
  PROVE  AmigaInv'
<1>1. /\ pc = "b_create" /\ UNCHANGED <<handler, media>> /\ media = prog.image
      /\ prog.image \in Images /\ Type(media) = BootType /\ ~prog.inhibited /\ ~prog.parked
      /\ prog.result = "ok"
  BY Media DEF CreateDn0, At, AmigaInv, BootInv, HeldInv, BootSteps
<1>2. CASE GiveUp /\ UNCHANGED node
  BY <1>1, <1>2, GivesUp DEF system, Mounting, Differing
<1>3. CASE node' = [present |-> TRUE, env |-> BootType, task |-> FALSE] /\ Give("end")
  <2>1. /\ node' \in NodeType /\ node'.present /\ node'.env = BootType /\ ~node'.task
        /\ pc' = "end" /\ UNCHANGED <<prog, canDie, disturbed, late, unbalanced, badBoot>>
    BY <1>3, AmigaAssumption DEF NodeType, Give, Goto, history
  <2>2. TypeInv' /\ NodeInv' /\ FitInv' /\ EndInv'
    BY <1>1, <2>1, Media DEF AmigaInv, TypeInv, NodeInv, Steps, FitInv, Unfit, EndInv
  <2>3. SeenInv' /\ MountInv' /\ UnmountInv' /\ BootInv'
    BY <2>1 DEF SeenInv, MountInv, UnmountInv, BootInv, MountSteps, Mounting, UnmountSteps,
                BootSteps
  <2>4. HeldInv'
    <3>1. Held' = 0
      BY <2>1 DEF Held
    <3>2. QED  BY <1>1, <2>1, <3>1 DEF HeldInv, MostlyFree, AtMostTwice, Overlooked, Mounting,
                                       BootSteps
  <2>5. QED  BY <2>2, <2>3, <2>4 DEF AmigaInv
<1>4. QED  BY <1>2, <1>3 DEF CreateDn0

LEMMA StartInactiveDn0Keeps ==
  ASSUME AmigaInv, StartInactiveDn0
  PROVE  AmigaInv'
<1>1. /\ pc = "b_start" /\ pc' = "end" /\ badBoot' = (badBoot \/ node.env # BootType)
      /\ UNCHANGED <<media, canDie, disturbed, late, unbalanced>> /\ media = prog.image
      /\ prog.image \in Images /\ Type(media) = BootType /\ ~prog.inhibited /\ ~prog.parked
      /\ prog.result = "ok" /\ Held = 0 /\ badBoot \in BOOLEAN
  BY Media DEF StartInactiveDn0, At, AmigaInv, TypeInv, BootInv, HeldInv, BootSteps
<1>2. ASSUME TypeInv', NodeInv', HeldInv', FitInv', EndInv'
      PROVE  AmigaInv'
  <2>1. SeenInv' /\ MountInv' /\ UnmountInv' /\ BootInv'
    BY <1>1 DEF SeenInv, MountInv, UnmountInv, BootInv, MountSteps, Mounting, UnmountSteps,
                BootSteps
  <2>2. QED  BY <1>2, <2>1 DEF AmigaInv
<1>3. CASE ByName(Awake) /\ UNCHANGED prog
  <2>1. /\ node' \in NodeType /\ node'.task /\ node'.present = node.present
        /\ node'.env = node.env /\ node.present /\ handler' = Awake
    BY <1>3, NodeWakes DEF AmigaInv, ByName
  <2>2. /\ Awake \in HandlerType /\ Awake.inhibit = Held
        /\ Awake.env = (IF node.task THEN handler.env ELSE node.env)
        /\ Awake.dying = (node.task /\ handler.dying)
    BY Waking DEF AmigaInv
  <2>3. TypeInv' /\ NodeInv'
    BY <1>1, <1>3, <2>1, <2>2 DEF AmigaInv, TypeInv, NodeInv, Steps
  <2>4. HeldInv'
    <3>1. Held' = 0
      BY <1>1, <2>1, <2>2 DEF Held
    <3>2. QED  BY <1>1, <1>3, <3>1 DEF HeldInv, MostlyFree, AtMostTwice, Overlooked, Mounting,
                                       BootSteps
  <2>5. FitInv' /\ EndInv'
    BY <1>1, <1>3, <2>1, Media DEF FitInv, Unfit, EndInv
  <2>6. QED  BY <1>2, <2>3, <2>4, <2>5
<1>4. CASE Fails /\ UNCHANGED <<node, handler>>
  <2>1. /\ prog' \in ProgType /\ prog'.result = "failed" /\ ~prog'.parked
    BY <1>1, <1>4, Fail DEF AmigaInv
  <2>2. TypeInv' /\ NodeInv' /\ EndInv'
    BY <1>1, <1>4, <2>1 DEF AmigaInv, TypeInv, NodeInv, Steps, EndInv
  <2>3. HeldInv'
    <3>1. Held' = 0
      BY <1>1, <1>4 DEF Held
    <3>2. QED  BY <1>1, <2>1, <3>1 DEF HeldInv, MostlyFree, AtMostTwice, Overlooked, Mounting,
                                       BootSteps
  <2>4. FitInv'
    BY <1>1, <1>4 DEF FitInv, Unfit
  <2>5. QED  BY <1>2, <2>2, <2>3, <2>4
<1>5. QED  BY <1>3, <1>4 DEF StartInactiveDn0

LEMMA EndKeeps ==
  ASSUME AmigaInv, End
  PROVE  AmigaInv'
<1>1. /\ pc = "end" /\ pc' = "rest" /\ prog' = NoProgram
      /\ disturbed' = (disturbed /\ prog.result # "ok") /\ badBoot' = (badBoot /\ Unfit)
      /\ UNCHANGED <<node, handler, media, canDie, late, unbalanced>>
  BY DEF End, At, system
<1>2. TypeInv' /\ NodeInv'
  BY <1>1, Fresh DEF AmigaInv, TypeInv, NodeInv, Steps
<1>3. SeenInv' /\ MountInv' /\ UnmountInv' /\ BootInv' /\ EndInv'
  BY <1>1 DEF SeenInv, MountInv, UnmountInv, BootInv, EndInv, MountSteps, Mounting, UnmountSteps,
              BootSteps
<1>4. HeldInv'
  <2>1. Held' = Held /\ MostlyFree
    BY <1>1 DEF Held, AmigaInv, HeldInv, Mounting
  <2>2. QED  BY <1>1, <2>1, Fresh DEF HeldInv, MostlyFree, AtMostTwice, Overlooked, Mounting,
                                      BootSteps
<1>5. FitInv'
  <2>1. Unfit' = Unfit
    BY <1>1 DEF Unfit
  <2>2. Unfit /\ prog.result = "ok" => badBoot
    BY <1>1 DEF Unfit, AmigaInv, EndInv
  <2>3. Unfit => disturbed \/ badBoot
    BY <1>1 DEF AmigaInv, FitInv, Differing
  <2>4. QED  BY <1>1, <2>1, <2>2, <2>3 DEF FitInv
<1>6. QED  BY <1>2, <1>3, <1>4, <1>5 DEF AmigaInv

(* A program starts on a drive that the last one left.                     *)
LEMMA Starting ==
  ASSUME AmigaInv, pc = "rest", UNCHANGED <<system, history>>, prog' \in ProgType,
         ~prog'.inhibited, ~prog'.parked, prog'.result = "ok",
         \/ pc' = "m_snapshot" /\ prog'.image \in Images
         \/ pc' \in {"u_state", "b_state"} /\ prog'.image = NoMedia
  PROVE  AmigaInv'
<1>1. UNCHANGED <<node, handler, media, canDie, disturbed, late, unbalanced, badBoot>>
  BY DEF system, history
<1>2. TypeInv' /\ NodeInv'
  BY <1>1 DEF AmigaInv, TypeInv, NodeInv, Steps, MountSteps, UnmountSteps, BootSteps
<1>3. SeenInv' /\ MountInv' /\ UnmountInv' /\ BootInv' /\ EndInv'
  BY <1>1 DEF SeenInv, MountInv, UnmountInv, BootInv, EndInv, MountSteps, Mounting, UnmountSteps,
              BootSteps
<1>4. HeldInv'
  <2>1. Held' = Held /\ MostlyFree
    BY <1>1 DEF Held, AmigaInv, HeldInv, Mounting
  <2>2. QED  BY <1>1, <2>1 DEF HeldInv, MostlyFree, AtMostTwice, Overlooked, Mounting, BootSteps
<1>5. FitInv'
  BY <1>1 DEF AmigaInv, FitInv, Unfit, Differing
<1>6. QED  BY <1>2, <1>3, <1>4, <1>5 DEF AmigaInv

LEMMA StartMountKeeps ==
  ASSUME AmigaInv, NEW image \in Images, StartMount(image)
  PROVE  AmigaInv'
<1>1. prog' = [NoProgram EXCEPT !.image = image]
  BY DEF StartMount
<1>2. /\ prog' \in ProgType /\ ~prog'.inhibited /\ ~prog'.parked /\ prog'.result = "ok"
      /\ prog'.image = image
  BY <1>1, Fresh DEF ProgType
<1>3. QED  BY <1>2, Starting DEF StartMount, At

LEMMA StartsKeep ==
  ASSUME AmigaInv, StartUnmount \/ StartBoot
  PROVE  AmigaInv'
BY Starting, Fresh DEF StartUnmount, StartBoot, At

-----------------------------------------------------------------------------
LEMMA AmigaInit == Init => AmigaInv
<1>1. SUFFICES ASSUME Init  PROVE AmigaInv
  OBVIOUS
<1>2. PICK present \in BOOLEAN, env \in Types :
        /\ node = [present |-> present, env |-> env, task |-> FALSE]
        /\ handler = AsleepHandler(env)
  BY <1>1, Zenon DEF Init
<1>3. /\ node \in NodeType /\ ~node.task /\ handler \in HandlerType /\ ~handler.dying
      /\ prog \in ProgType /\ ~prog.inhibited /\ ~prog.parked
  <2>1. prog = NoProgram
    BY <1>1 DEF Init
  <2>2. QED  BY <1>2, <2>1, Sleeper, Fresh DEF NodeType
<1>4. /\ pc = "rest" /\ media = NoMedia
      /\ canDie \in BOOLEAN /\ disturbed = FALSE /\ late = FALSE /\ unbalanced = FALSE
      /\ badBoot = FALSE
  BY <1>1, Zenon DEF Init
<1>5. TypeInv /\ NodeInv
  BY <1>3, <1>4 DEF TypeInv, NodeInv, Steps
<1>6. SeenInv /\ MountInv /\ UnmountInv /\ BootInv /\ EndInv /\ FitInv
  BY <1>4 DEF SeenInv, MountInv, UnmountInv, BootInv, EndInv, FitInv, Unfit, MountSteps, Mounting,
              UnmountSteps, BootSteps
<1>7. HeldInv
  BY <1>3, <1>4 DEF HeldInv, Held, MostlyFree, AtMostTwice, Overlooked, Mounting, BootSteps
<1>8. QED  BY <1>5, <1>6, <1>7 DEF AmigaInv

LEMMA AmigaStep ==
  ASSUME AmigaInv, [Next]_vars
  PROVE  AmigaInv'
<1>1. CASE UNCHANGED vars
  <2>1. UNCHANGED <<node, handler, media, pc, prog, canDie, disturbed, late, unbalanced, badBoot>>
    BY <1>1 DEF vars, system, history
  <2>2. TypeInv' /\ NodeInv' /\ SeenInv' /\ MountInv' /\ UnmountInv' /\ BootInv'
    BY <2>1 DEF AmigaInv, TypeInv, NodeInv, SeenInv, MountInv, UnmountInv, BootInv, Asleep
  <2>3. HeldInv' /\ FitInv' /\ EndInv'
    BY <2>1 DEF AmigaInv, HeldInv, Held, MostlyFree, AtMostTwice, Overlooked, FitInv, Unfit, EndInv
  <2>4. QED  BY <2>2, <2>3 DEF AmigaInv
<1>2. CASE ProgramStep
  <2>1. CASE \/ HandlerGone \/ BadCandidate \/ Snapshot \/ ReuseParked \/ InhibitRunning
             \/ LeaveAsleep \/ RetireOther \/ PollRetired
    BY <2>1, HandlerGoneKeeps, BadCandidateKeeps, SnapshotKeeps, ReuseParkedKeeps,
       InhibitRunningKeeps, LeaveAsleepKeeps, RetireOtherKeeps, PollRetiredKeeps
  <2>2. CASE MountCatalog \/ CreateNode \/ UpdateInactiveEnvec \/ Uninhibit \/ End
    BY <2>2, MountCatalogKeeps, CreateNodeKeeps, UpdateInactiveEnvecKeeps, UninhibitKeeps, EndKeeps
  <2>3. CASE \/ HandlerState \/ FindPort \/ RefuseParked \/ Flush \/ TellToDie \/ CheckInUse
             \/ Park \/ WaitRetired \/ Eject \/ RemoveNode
    BY <2>3, HandlerStateKeeps, FindPortKeeps, RefuseParkedKeeps, FlushKeeps, TellToDieKeeps,
       CheckInUseKeeps, ParkKeeps, WaitRetiredKeeps, EjectKeeps, RemoveNodeKeeps
  <2>4. CASE NodeState \/ RestoreDefault \/ ValidateDefault \/ CreateDn0 \/ StartInactiveDn0
    BY <2>4, NodeStateKeeps, RestoreDefaultKeeps, ValidateDefaultKeeps, CreateDn0Keeps,
       StartInactiveDn0Keeps
  <2>5. QED  BY <1>2, <2>1, <2>2, <2>3, <2>4 DEF ProgramStep
<1>3. CASE StartUnmount \/ StartBoot \/ \E image \in Images : StartMount(image)
  BY <1>3, StartsKeep, StartMountKeeps
<1>4. CASE AccessDrive \/ OpenFile \/ CloseFile \/ HandlerExits
  BY <1>4, AccessDriveKeeps, OpenFileKeeps, CloseFileKeeps, HandlerExitsKeeps
<1>5. QED  BY <1>1, <1>2, <1>3, <1>4 DEF Next

LEMMA AmigaInvariant == Spec => []AmigaInv
BY AmigaInit, AmigaStep, PTL DEF Spec

-----------------------------------------------------------------------------
(* The node, the handler, the drive and the program's variables have their *)
(* types: in particular Inhibit never nests deeper than two, because a     *)
(* command inhibits a drive once and one other inhibit can have been left. *)
THEOREM AmigaTypeCorrect == Spec => []TypeOK
<1>1. AmigaInv => TypeOK
  BY DEF AmigaInv, TypeInv, TypeOK, NodeType, HandlerType, ProgType
<1>2. QED  BY <1>1, AmigaInvariant, PTL

(* No running handler reads a mounted image with a DosEnvec that it does   *)
(* not fit, unless somebody accessed the drive meanwhile or FBOOT left     *)
(* there an image it had refused or not seen: the node is made fit before  *)
(* the drive is given back.                                                *)
THEOREM GeometryAlwaysMatches == Spec => []GeometryMatches
<1>1. AmigaInv => GeometryMatches
  <2>1. SUFFICES ASSUME AmigaInv, Stale  PROVE disturbed \/ badBoot
    BY DEF GeometryMatches
  <2>2. node.task /\ media # NoMedia /\ node.present /\ node.env # Type(media)
    BY <2>1 DEF Stale, AmigaInv, NodeInv
  <2>3. QED  BY <2>1, <2>2 DEF Unfit, AmigaInv, FitInv
<1>2. QED  BY <1>1, AmigaInvariant, PTL

(* Between commands a drive is inhibited only when it is parked without a  *)
(* medium, and then once; one Inhibit more is left by a failed             *)
(* Inhibit(DOSFALSE), or by a failed query that hid from fmount.c or       *)
(* fumount.c that the drive was parked.                                    *)
THEOREM InhibitAlwaysBalanced == Spec => []InhibitBalanced
<1>1. AmigaInv => InhibitBalanced
  <2>1. SUFFICES ASSUME AmigaInv, pc = "rest", node.task, IsInhibited
                 PROVE  /\ media # NoMedia => unbalanced /\ handler.inhibit = 1
                        /\ handler.inhibit = 2 => unbalanced
    BY DEF InhibitBalanced
  <2>2. MostlyFree /\ Held = handler.inhibit /\ handler.inhibit \in 0..2 /\ handler.inhibit > 0
    BY <2>1 DEF AmigaInv, TypeInv, HandlerType, HeldInv, Held, IsInhibited, Mounting
  <2>3. QED  BY <2>2 DEF MostlyFree, AtMostTwice
<1>2. QED  BY <1>1, AmigaInvariant, PTL

(* A command that reports success has done what it says, and FBOOT says    *)
(* that there is no default disk only when there is none or it did not see *)
(* it.                                                                     *)
THEOREM AmigaSuccessIsTrue == Spec => []SuccessIsTrue
<1>1. AmigaInv => SuccessIsTrue
  <2>1. SUFFICES ASSUME AmigaInv, pc = "end"  PROVE SuccessIsTrue
    BY DEF SuccessIsTrue
  <2>2. prog.result = "none" => media = NoMedia \/ badBoot
    BY <2>1 DEF AmigaInv, EndInv
  <2>3. prog.result = "ok" =>
          /\ media = prog.image
          /\ media # NoMedia => node.present /\ (badBoot \/ node.env = Type(media))
          /\ media = NoMedia /\ node.present => node.task /\ handler.inhibit > 0
    BY <2>1 DEF AmigaInv, EndInv
  <2>4. node.task => handler.env = node.env
    BY <2>1 DEF AmigaInv, NodeInv
  <2>5. MostlyFree /\ (node.task => Held = handler.inhibit) /\ handler.inhibit \in 0..2
    BY <2>1 DEF AmigaInv, TypeInv, HandlerType, HeldInv, Held, Mounting
  <2>6. node.task /\ IsInhibited =>
          /\ media # NoMedia => unbalanced /\ handler.inhibit = 1
          /\ handler.inhibit = 2 => unbalanced
    BY <2>5 DEF IsInhibited, MostlyFree, AtMostTwice
  <2>7. QED  BY <2>2, <2>3, <2>4, <2>6 DEF SuccessIsTrue, Stale, IsInhibited
<1>2. QED  BY <1>1, AmigaInvariant, PTL

(* A step that takes no medium from files, nor the node from a handler,    *)
(* that were there when the program looked.                                *)
Harmless ==
  /\ media # NoMedia /\ media' = NoMedia => (node.task => ~handler.inUse) \/ disturbed
  /\ node.present /\ ~node'.present => ~node.task \/ disturbed

LEMMA NodeStays ==
  ASSUME AmigaInv
  PROVE  /\ InhibitMore \/ InhibitLess \/ ByName(Awake) => node'.present
         /\ AccessDrive \/ HandlerExits => node'.present = node.present
         /\ UpdateInactiveEnvec => node'.present = node.present
BY DEF AmigaInv, TypeInv, NodeType, InhibitMore, InhibitLess, ByName, AccessDrive, HandlerExits,
       UpdateInactiveEnvec

LEMMA HarmlessStep ==
  ASSUME AmigaInv, Next
  PROVE  Harmless
<1>1. CASE /\ media' = media \/ media' # NoMedia
           /\ node'.present = node.present \/ node'.present
  BY <1>1 DEF Harmless
<1>2. CASE Eject
  BY <1>2 DEF Harmless, Eject, At, AmigaInv, UnmountInv, Asleep
<1>3. CASE RemoveNode
  BY <1>3 DEF Harmless, RemoveNode, At, AmigaInv, UnmountInv, Asleep
<1>4. CASE MountCatalog \/ RestoreDefault
  <2>1. MountCatalog => prog.image # NoMedia
    BY Media DEF MountCatalog, At, AmigaInv, SeenInv, MountSteps, Mounting
  <2>2. QED  BY <1>4, <2>1 DEF Harmless, MountCatalog, RestoreDefault
<1>5. CASE \/ HandlerGone \/ BadCandidate \/ Snapshot \/ ReuseParked \/ LeaveAsleep
           \/ RetireOther \/ PollRetired \/ HandlerState \/ RefuseParked \/ Flush \/ TellToDie
           \/ CheckInUse \/ WaitRetired \/ NodeState \/ ValidateDefault \/ End
           \/ StartUnmount \/ StartBoot \/ (\E image \in Images : StartMount(image))
           \/ OpenFile \/ CloseFile
  <2>1. UNCHANGED <<node, media>>
    BY <1>5 DEF HandlerGone, BadCandidate, Snapshot, ReuseParked, LeaveAsleep, RetireOther,
         PollRetired, HandlerState, RefuseParked, Flush, TellToDie, CheckInUse, WaitRetired,
         NodeState, ValidateDefault, End, StartUnmount, StartBoot, StartMount, OpenFile, CloseFile,
         system
  <2>2. QED  BY <1>1, <2>1
<1>6. CASE CreateNode \/ CreateDn0
  BY <1>1, <1>6 DEF CreateNode, CreateDn0
<1>7. CASE InhibitRunning \/ Uninhibit \/ FindPort \/ Park \/ StartInactiveDn0
  <2>1. media' = media /\ (node'.present \/ node' = node)
    BY <1>7, NodeStays DEF InhibitRunning, Uninhibit, FindPort, Park, StartInactiveDn0
  <2>2. QED  BY <1>1, <2>1
<1>8. CASE UpdateInactiveEnvec \/ AccessDrive \/ HandlerExits
  BY <1>1, <1>8, NodeStays DEF UpdateInactiveEnvec, AccessDrive, HandlerExits
<1>9. QED
  BY <1>2, <1>3, <1>4, <1>5, <1>6, <1>7, <1>8 DEF Next, ProgramStep

(* FUMOUNT ejects no medium under files that were open, and removes no     *)
(* node whose handler ran, when it looked.                                 *)
THEOREM AmigaEjectsUnused == Spec => EjectsUnused
<1>1. AmigaInv /\ [Next]_vars => [Harmless]_vars
  BY HarmlessStep
<1>2. QED  BY <1>1, AmigaInvariant, PTL DEF Spec, EjectsUnused, Harmless

-----------------------------------------------------------------------------
(* The steps that follow each, and how many there may still be.            *)
Following ==
  [m_snapshot |-> {"m_node", "end"}, m_node |-> {"hung", "m_mount", "m_retire", "end"},
   m_retire |-> {"m_mount", "end"}, m_mount |-> {"m_create", "m_envec", "m_uninhibit"},
   m_create |-> {"m_uninhibit"}, m_envec |-> {"m_uninhibit"}, m_uninhibit |-> {"end"},
   u_state |-> {"u_port", "u_eject"}, u_port |-> {"u_busy", "end"},
   u_busy |-> {"hung", "u_flush", "end"}, u_flush |-> {"hung", "u_die", "end"},
   u_die |-> {"hung", "u_retire", "u_in_use"}, u_in_use |-> {"hung", "u_inhibit", "end"},
   u_inhibit |-> {"u_eject", "end"}, u_retire |-> {"u_eject", "end"},
   u_eject |-> {"u_remove", "m_uninhibit", "end"}, u_remove |-> {"end"},
   b_state |-> {"b_restore", "end"}, b_restore |-> {"b_validate", "end"},
   b_validate |-> {"b_start", "b_create", "end"}, b_create |-> {"end"}, b_start |-> {"end"},
   end |-> {"rest"}, rest |-> {}, hung |-> {}]

StepsLeft ==
  CASE pc \in {"rest", "hung"} -> 0
    [] pc = "end" -> 1
    [] pc \in {"m_uninhibit", "u_remove", "b_create", "b_start"} -> 2
    [] pc \in {"m_create", "m_envec", "u_eject", "b_validate"} -> 3
    [] pc \in {"m_mount", "u_inhibit", "b_restore"} -> 4
    [] pc \in {"u_in_use", "b_state"} -> 5
    [] pc \in {"m_retire", "u_retire"} -> MaxPolls - prog.polls + 5
    [] pc \in {"m_node", "u_die"} -> MaxPolls + 6
    [] pc \in {"m_snapshot", "u_flush"} -> MaxPolls + 7
    [] pc = "u_busy" -> MaxPolls + 8
    [] pc = "u_port" -> MaxPolls + 9
    [] pc = "u_state" -> MaxPolls + 10

CommandBounded ==
  StepsLeft \in 0..(MaxPolls + 10) /\ (StepsLeft = 0 <=> pc \in {"rest", "hung"})

CommandAdvances ==
  \/ ProgramStep /\ StepsLeft' < StepsLeft
  \/ pc = "rest"
  \/ StepsLeft' = StepsLeft

(* A handler that is dying while a program may ask it has outlasted the    *)
(* polls of the one that told it to die.                                   *)
Asking == {"m_node", "u_busy", "u_flush", "u_die", "u_in_use"}
Dying == node.task /\ handler.dying
DyingInv ==
  /\ Dying => late \/ pc \in {"m_retire", "u_retire"}
  /\ pc \in Asking /\ prog.gone => late
  /\ pc = "hung" => late

LEMMA StepsCounted == TypeInv => CommandBounded
<1> SUFFICES ASSUME TypeInv PROVE CommandBounded
  OBVIOUS
<1>1. PICK n : n = StepsLeft
  OBVIOUS
<1>2. PICK left : left = MaxPolls - prog.polls
  OBVIOUS
<1>3. MaxPolls \in Nat /\ left \in 0..MaxPolls
  BY <1>2, AmigaAssumption DEF TypeInv, ProgType
<1>4. pc \in {"rest", "hung"} => n = 0
  BY <1>1, <1>2 DEF StepsLeft
<1>5. pc = "end" => n = 1
  BY <1>1, <1>2 DEF StepsLeft
<1>6. pc \in {"m_uninhibit", "u_remove", "b_create", "b_start"} => n = 2
  BY <1>1, <1>2 DEF StepsLeft
<1>7. pc \in {"m_create", "m_envec", "u_eject", "b_validate"} => n = 3
  BY <1>1, <1>2 DEF StepsLeft
<1>8. pc \in {"m_mount", "u_inhibit", "b_restore"} => n = 4
  BY <1>1, <1>2 DEF StepsLeft
<1>9. pc \in {"u_in_use", "b_state"} => n = 5
  BY <1>1, <1>2 DEF StepsLeft
<1>10. pc \in {"m_retire", "u_retire"} => n = left + 5
  BY <1>1, <1>2 DEF StepsLeft
<1>11. pc \in {"m_node", "u_die"} => n = MaxPolls + 6
  BY <1>1, <1>2 DEF StepsLeft
<1>12. pc \in {"m_snapshot", "u_flush"} => n = MaxPolls + 7
  BY <1>1, <1>2 DEF StepsLeft
<1>13. pc = "u_busy" => n = MaxPolls + 8
  BY <1>1, <1>2 DEF StepsLeft
<1>14. pc = "u_port" => n = MaxPolls + 9
  BY <1>1, <1>2 DEF StepsLeft
<1>15. pc = "u_state" => n = MaxPolls + 10
  BY <1>1, <1>2 DEF StepsLeft
<1>16. pc \in Steps
  BY DEF TypeInv
<1>17. n \in 0..(MaxPolls + 10) /\ (n = 0 <=> pc \in {"rest", "hung"})
  <2>1. CASE pc \in {"rest", "hung"}  BY <2>1, <1>3, <1>4
  <2>2. CASE pc \notin {"rest", "hung"}
    <3>1. n \in 1..(MaxPolls + 10)
      BY <2>2, <1>3, <1>5, <1>6, <1>7, <1>8, <1>9, <1>10, <1>11, <1>12, <1>13, <1>14, <1>15, <1>16
         DEF Steps, MountSteps, Mounting, UnmountSteps, BootSteps
    <3>2. QED  BY <3>1, <2>2, <1>3
  <2>3. QED  BY <2>1, <2>2
<1>18. QED  BY <1>1, <1>17 DEF CommandBounded

LEMMA Follows ==
  ASSUME TypeInv, ProgramStep
  PROVE  \/ pc' \in Following[pc]
         \/ pc \in {"m_retire", "u_retire"} /\ pc' = pc /\ prog'.polls = prog.polls + 1
<1> USE DEF Following, At, Answered, Goto, Give, GiveUp
<1>1. CASE HandlerGone
  BY <1>1 DEF HandlerGone, AsksHandler
<1>2. CASE BadCandidate \/ Snapshot \/ ReuseParked \/ InhibitRunning \/ LeaveAsleep \/ RetireOther
  <2>1. CASE BadCandidate \/ Snapshot
    BY <2>1 DEF BadCandidate, Snapshot
  <2>2. CASE ReuseParked \/ InhibitRunning \/ LeaveAsleep \/ RetireOther
    <3>1. pc = "m_node" /\ pc' \in {"m_mount", "m_retire", "end"}
      BY <2>2 DEF ReuseParked, InhibitRunning, LeaveAsleep, RetireOther, Overlook
    <3>2. QED  BY <3>1
  <2>3. QED  BY <1>2, <2>1, <2>2
<1>3. CASE PollRetired \/ WaitRetired
  <2>1. ASSUME PollAgain PROVE pc' = pc /\ prog'.polls = prog.polls + 1
    BY <2>1 DEF PollAgain, Set, NextPoll, TypeInv, ProgType
  <2>2. QED  BY <1>3, <2>1 DEF PollRetired, WaitRetired, TooLate
<1>4. CASE MountCatalog \/ CreateNode \/ UpdateInactiveEnvec \/ Uninhibit
  BY <1>4 DEF MountCatalog, CreateNode, UpdateInactiveEnvec, Uninhibit
<1>5. CASE HandlerState \/ FindPort \/ RefuseParked \/ Flush
  <2>1. CASE HandlerState  BY <2>1 DEF HandlerState
  <2>2. CASE FindPort  BY <2>2 DEF FindPort
  <2>3. CASE RefuseParked  BY <2>3 DEF RefuseParked, Overlook
  <2>4. CASE Flush  BY <2>4 DEF Flush
  <2>5. QED  BY <1>5, <2>1, <2>2, <2>3, <2>4
<1>6. CASE TellToDie \/ CheckInUse \/ Park \/ Eject \/ RemoveNode
  <2>1. CASE TellToDie  BY <2>1 DEF TellToDie
  <2>2. CASE CheckInUse  BY <2>2 DEF CheckInUse
  <2>3. CASE Park  BY <2>3 DEF Park
  <2>4. CASE Eject  BY <2>4 DEF Eject
  <2>5. CASE RemoveNode  BY <2>5 DEF RemoveNode
  <2>6. QED  BY <1>6, <2>1, <2>2, <2>3, <2>4, <2>5
<1>7. CASE NodeState \/ RestoreDefault \/ ValidateDefault \/ CreateDn0 \/ StartInactiveDn0 \/ End
  BY <1>7 DEF NodeState, RestoreDefault, ValidateDefault, CreateDn0, StartInactiveDn0, End, Refuse,
               MarkBoot, TakenForEmpty
<1>8. QED  BY <1>1, <1>2, <1>3, <1>4, <1>5, <1>6, <1>7 DEF ProgramStep

LEMMA StepAdvances == TypeInv /\ TypeInv' /\ ProgramStep => StepsLeft' < StepsLeft
<1> SUFFICES ASSUME TypeInv, TypeInv', ProgramStep PROVE StepsLeft' < StepsLeft
  OBVIOUS
<1>1. /\ pc \in Steps /\ prog.polls \in 0..MaxPolls /\ prog'.polls \in 0..MaxPolls
      /\ MaxPolls \in Nat
  BY AmigaAssumption DEF TypeInv, ProgType
<1>2. CASE pc \in {"m_retire", "u_retire"} /\ pc' = pc /\ prog'.polls = prog.polls + 1
  BY <1>1, <1>2 DEF StepsLeft
<1>3. CASE pc' \in Following[pc]
  <2>1. CASE pc \in MountSteps
    BY <1>1, <1>3, <2>1 DEF StepsLeft, Following, MountSteps, Mounting
  <2>2. CASE pc \in UnmountSteps
    BY <1>1, <1>3, <2>2 DEF StepsLeft, Following, UnmountSteps
  <2>3. CASE pc \in BootSteps \cup {"rest", "end", "hung"}
    BY <1>1, <1>3, <2>3 DEF StepsLeft, Following, BootSteps
  <2>4. QED  BY <1>1, <2>1, <2>2, <2>3 DEF Steps
<1>4. QED  BY <1>2, <1>3, Follows

(* What keeps a handler that is not waited for from dying.                 *)
LEMMA DyingStays ==
  ASSUME DyingInv, Dying' => Dying, late => late',
         pc \in {"m_retire", "u_retire"} => late' \/ ~Dying' \/ pc' = pc,
         pc' \in Asking => ~prog'.gone \/ late', pc' = "hung" => late'
  PROVE  DyingInv'
BY DEF DyingInv

(* The history of a step that does not give up waiting.                    *)
LEMMA SameHistory ==
  ASSUME UNCHANGED history
  PROVE  late' = late
BY DEF history

LEMMA MountsLeaveDying ==
  ASSUME TypeInv, NodeInv, DyingInv,
         \/ BadCandidate \/ Snapshot \/ ReuseParked \/ InhibitRunning \/ LeaveAsleep
         \/ RetireOther \/ PollRetired \/ MountCatalog \/ CreateNode
         \/ UpdateInactiveEnvec \/ Uninhibit
  PROVE  DyingInv'
<1> USE DEF At, Answered, Goto, Give, GiveUp, history, system, Asking
<1>1. CASE BadCandidate
  BY <1>1, DyingStays DEF BadCandidate, Dying
<1>2. CASE Snapshot
  <2>1. prog'.gone = FALSE /\ pc = "m_snapshot" /\ pc' = "m_node"
    BY <1>2 DEF Snapshot, TypeInv, ProgType
  <2>2. QED  BY <1>2, <2>1, DyingStays DEF Snapshot, Dying
<1>3. CASE ReuseParked
  BY <1>3, DyingStays DEF ReuseParked, Dying
<1>4. CASE InhibitRunning
  <2>1. Dying' => Dying
    <3>1. CASE InhibitMore
      <4>1. handler'.dying = Awake.dying
        BY <3>1, Waking DEF InhibitMore, ByName, HandlerType
      <4>2. QED  BY <4>1, Waking DEF Dying
    <3>2. CASE UNCHANGED <<node, handler>>
      BY <3>2 DEF Dying
    <3>3. QED  BY <1>4, <3>1, <3>2 DEF InhibitRunning
  <2>2. pc = "m_node" /\ pc' \in {"m_mount", "end"} /\ late' = late
    BY <1>4 DEF InhibitRunning, Overlook
  <2>3. QED  BY <2>1, <2>2, DyingStays
<1>5. CASE LeaveAsleep
  BY <1>5, DyingStays DEF LeaveAsleep, Dying
<1>6. CASE RetireOther
  <2>1. CASE pc' = "m_retire" /\ UNCHANGED history
    BY <2>1 DEF DyingInv
  <2>2. CASE GiveUp /\ UNCHANGED handler
    BY <1>6, <2>2, DyingStays DEF RetireOther, Dying
  <2>3. QED  BY <1>6, <2>1, <2>2 DEF RetireOther
<1>7. CASE PollRetired
  <2>1. pc = "m_retire" /\ (Dying' <=> Dying)
    BY <1>7 DEF PollRetired, Dying
  <2>2. CASE TooLate
    BY <2>1, <2>2, DyingStays DEF TooLate
  <2>3. CASE ~node.task /\ Give("m_mount")
    BY <2>1, <2>3, DyingStays DEF Dying
  <2>4. CASE PollAgain
    BY <2>1, <2>4, DyingStays DEF PollAgain
  <2>5. QED  BY <1>7, <2>2, <2>3, <2>4 DEF PollRetired
<1>8. CASE MountCatalog
  BY <1>8, DyingStays DEF MountCatalog, Dying
<1>9. CASE CreateNode
  <2>1. Dying' => Dying
    BY <1>9 DEF CreateNode, Dying
  <2>2. QED  BY <1>9, <2>1, DyingStays DEF CreateNode
<1>10. CASE UpdateInactiveEnvec
  <2>1. Dying' => Dying
    BY <1>10 DEF UpdateInactiveEnvec, Dying, TypeInv, NodeType
  <2>2. QED  BY <1>10, <2>1, DyingStays DEF UpdateInactiveEnvec
<1>11. CASE Uninhibit
  <2>1. Dying' => Dying
    <3>1. CASE InhibitLess
      <4>1. handler'.dying = Awake.dying
        BY <3>1, Waking DEF InhibitLess, ByName, HandlerType
      <4>2. QED  BY <4>1, Waking DEF Dying
    <3>2. CASE UNCHANGED <<node, handler>>
      BY <3>2 DEF Dying
    <3>3. QED  BY <1>11, <3>1, <3>2 DEF Uninhibit
  <2>2. pc = "m_uninhibit" /\ pc' = "end" /\ late' = late
    BY <1>11 DEF Uninhibit
  <2>3. QED  BY <2>1, <2>2, DyingStays
<1>12. QED  BY <1>1, <1>2, <1>3, <1>4, <1>5, <1>6, <1>7, <1>8, <1>9, <1>10, <1>11

LEMMA UnmountsLeaveDying ==
  ASSUME TypeInv, NodeInv, DyingInv,
         \/ HandlerState \/ FindPort \/ RefuseParked \/ Flush \/ TellToDie \/ CheckInUse
         \/ Park \/ WaitRetired \/ Eject \/ RemoveNode
  PROVE  DyingInv'
<1> USE DEF At, Answered, Goto, Give, GiveUp, history, system, Asking
<1>1. CASE HandlerState
  BY <1>1, DyingStays DEF HandlerState, Dying
<1>2. CASE FindPort
  <2>1. Dying' => Dying
    <3>1. CASE ByName(Awake)
      BY <3>1, Waking DEF ByName, Dying
    <3>2. CASE UNCHANGED <<node, handler>>
      BY <3>2 DEF Dying
    <3>3. QED  BY <1>2, <3>1, <3>2 DEF FindPort
  <2>2. pc = "u_port" /\ late' = late /\ (pc' = "end" \/ (pc' = "u_busy" /\ ~prog'.gone))
    BY <1>2 DEF FindPort, Set, TypeInv, ProgType
  <2>3. QED  BY <2>1, <2>2, DyingStays
<1>3. CASE RefuseParked \/ Flush \/ CheckInUse
  <2>1. /\ UNCHANGED <<node, handler>> /\ pc \in Asking /\ late' = late
        /\ pc' = "end" \/ (pc' \in {"u_flush", "u_die", "u_inhibit"} /\ UNCHANGED prog)
    BY <1>3 DEF RefuseParked, Flush, CheckInUse, Overlook
  <2>2. prog.gone => late
    BY <2>1 DEF DyingInv
  <2>3. QED  BY <2>1, <2>2, DyingStays DEF Dying
<1>4. CASE TellToDie
  <2>1. CASE pc' = "u_retire" /\ UNCHANGED history
    BY <2>1 DEF DyingInv
  <2>2. CASE Give("u_in_use") /\ UNCHANGED handler
    <3>1. pc = "u_die" /\ (prog.gone => late)
      BY <1>4 DEF TellToDie, DyingInv
    <3>2. QED  BY <1>4, <2>2, <3>1, DyingStays DEF TellToDie, Dying
  <2>3. QED  BY <1>4, <2>1, <2>2 DEF TellToDie
<1>5. CASE Park
  <2>1. Dying' => Dying
    <3>1. CASE InhibitMore
      <4>1. handler'.dying = Awake.dying
        BY <3>1, Waking DEF InhibitMore, ByName, HandlerType
      <4>2. QED  BY <4>1, Waking DEF Dying
    <3>2. CASE UNCHANGED <<node, handler>>
      BY <3>2 DEF Dying
    <3>3. QED  BY <1>5, <3>1, <3>2 DEF Park
  <2>2. pc = "u_inhibit" /\ pc' \in {"u_eject", "end"} /\ late' = late
    BY <1>5 DEF Park
  <2>3. QED  BY <2>1, <2>2, DyingStays
<1>6. CASE WaitRetired
  <2>1. pc = "u_retire" /\ (Dying' <=> Dying)
    BY <1>6 DEF WaitRetired, Dying
  <2>2. CASE TooLate
    BY <2>1, <2>2, DyingStays DEF TooLate
  <2>3. CASE (~node.present \/ ~node.task) /\ Give("u_eject")
    <3>1. ~Dying
      BY <2>3 DEF Dying, NodeInv
    <3>2. QED  BY <2>1, <2>3, <3>1, DyingStays
  <2>4. CASE PollAgain
    BY <2>1, <2>4, DyingStays DEF PollAgain
  <2>5. QED  BY <1>6, <2>2, <2>3, <2>4 DEF WaitRetired
<1>7. CASE Eject
  BY <1>7, DyingStays DEF Eject, Dying
<1>8. CASE RemoveNode
  <2>1. Dying' => Dying
    BY <1>8 DEF RemoveNode, Dying, TypeInv, NodeType
  <2>2. QED  BY <1>8, <2>1, DyingStays DEF RemoveNode
<1>9. QED  BY <1>1, <1>2, <1>3, <1>4, <1>5, <1>6, <1>7, <1>8

LEMMA BootsLeaveDying ==
  ASSUME TypeInv, NodeInv, DyingInv,
         NodeState \/ RestoreDefault \/ ValidateDefault \/ CreateDn0 \/ StartInactiveDn0 \/ End
  PROVE  DyingInv'
<1> USE DEF At, Answered, Goto, Give, GiveUp, history, system, Asking
<1>1. CASE NodeState \/ RestoreDefault \/ ValidateDefault
  <2>1. /\ UNCHANGED <<node, handler>> /\ late' = late
        /\ pc \in BootSteps /\ pc' \in BootSteps \cup {"end"}
    BY <1>1 DEF NodeState, RestoreDefault, ValidateDefault, Refuse, MarkBoot, TakenForEmpty,
                    BootSteps
  <2>2. QED  BY <2>1, DyingStays DEF Dying, BootSteps
<1>2. CASE CreateDn0
  <2>1. Dying' => Dying
    BY <1>2 DEF CreateDn0, Dying
  <2>2. QED  BY <1>2, <2>1, DyingStays DEF CreateDn0
<1>3. CASE StartInactiveDn0
  <2>1. Dying' => Dying
    <3>1. CASE ByName(Awake)
      BY <3>1, Waking DEF ByName, Dying
    <3>2. CASE UNCHANGED <<node, handler>>
      BY <3>2 DEF Dying
    <3>3. QED  BY <1>3, <3>1, <3>2 DEF StartInactiveDn0
  <2>2. QED  BY <1>3, <2>1, DyingStays DEF StartInactiveDn0
<1>4. CASE End
  BY <1>4, DyingStays DEF End, Dying
<1>5. QED  BY <1>1, <1>2, <1>3, <1>4

LEMMA DyingKept == AmigaInv /\ DyingInv /\ [Next]_vars => DyingInv'
<1> SUFFICES ASSUME TypeInv, NodeInv, DyingInv, [Next]_vars PROVE DyingInv'
  BY DEF AmigaInv
<1> USE DEF system, history, Asking
<1>1. CASE HandlerGone
  <2>1. pc \in Asking /\ prog.gone /\ late' = late
    BY <1>1 DEF HandlerGone, AsksHandler, At, Give, Goto
  <2>2. late
    BY <2>1 DEF DyingInv
  <2>3. QED  BY <2>1, <2>2 DEF DyingInv
<1>2. CASE ProgramStep /\ ~HandlerGone
  BY <1>2, MountsLeaveDying, UnmountsLeaveDying, BootsLeaveDying DEF ProgramStep
<1>3. CASE StartUnmount \/ StartBoot \/ \E image \in Images : StartMount(image)
  <2>1. /\ UNCHANGED <<node, handler>> /\ late' = late /\ pc = "rest"
        /\ pc' \in {"u_state", "b_state", "m_snapshot"}
    BY <1>3 DEF StartUnmount, StartBoot, StartMount, At
  <2>2. QED  BY <2>1, DyingStays DEF Dying
<1>4. CASE AccessDrive \/ OpenFile \/ CloseFile
  <2>1. ~handler'.dying \/ (handler'.dying = handler.dying /\ node' = node)
    BY <1>4 DEF AccessDrive, OpenFile, CloseFile, AsleepHandler, TypeInv, HandlerType
  <2>2. (Dying' => Dying) /\ UNCHANGED <<pc, prog, late>>
    BY <1>4, <2>1 DEF AccessDrive, OpenFile, CloseFile, Dying
  <2>3. QED  BY <2>2 DEF DyingInv
<1>5. CASE HandlerExits
  <2>1. Dying /\ ~Dying' /\ UNCHANGED <<pc, late>>
    BY <1>5 DEF HandlerExits, Dying, TypeInv, NodeType
  <2>2. QED  BY <2>1 DEF DyingInv
<1>6. CASE UNCHANGED vars
  BY <1>6 DEF vars, DyingInv, Dying
<1>7. QED  BY <1>1, <1>2, <1>3, <1>4, <1>5, <1>6 DEF Next

(* A command of fmount.c, fumount.c or fboot takes a bounded number of     *)
(* steps, MaxPolls + 10 at most, whatever users do to the drive between    *)
(* them; it hangs only after a handler has outlasted its polls.  What      *)
(* CommandsEnd adds is that the steps are taken.                           *)
THEOREM CommandsBounded ==
  Spec => [](CommandBounded /\ (pc = "hung" => late)) /\ [][CommandAdvances]_vars
<1>1. Init => DyingInv
  BY DEF Init, DyingInv, Dying, Asking, NoProgram
<1>2. AmigaInv /\ AmigaInv' /\ [Next]_vars => [CommandAdvances]_vars
  <2> SUFFICES ASSUME TypeInv, TypeInv', [Next]_vars PROVE [CommandAdvances]_vars
    BY DEF AmigaInv
  <2>1. CASE ProgramStep
    BY <2>1, StepAdvances DEF CommandAdvances
  <2>2. CASE StartUnmount \/ StartBoot \/ \E image \in Images : StartMount(image)
    BY <2>2 DEF StartUnmount, StartBoot, StartMount, At, CommandAdvances
  <2>3. CASE AccessDrive \/ OpenFile \/ CloseFile \/ HandlerExits
    <3>1. pc' = pc /\ prog'.polls = prog.polls
      BY <2>3 DEF AccessDrive, OpenFile, CloseFile, HandlerExits, TypeInv, ProgType
    <3>2. StepsLeft' = StepsLeft
      BY <3>1 DEF StepsLeft
    <3>3. QED  BY <3>2 DEF CommandAdvances
  <2>4. QED  BY <2>1, <2>2, <2>3 DEF Next
<1>3. AmigaInv /\ DyingInv => CommandBounded /\ (pc = "hung" => late)
  BY StepsCounted DEF AmigaInv, DyingInv
<1>4. QED  BY <1>1, <1>2, <1>3, AmigaInvariant, DyingKept, PTL DEF Spec

=============================================================================

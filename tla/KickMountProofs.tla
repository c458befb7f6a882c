--------------------------- MODULE KickMountProofs ---------------------------
(***************************************************************************)
(* Proofs about KickMount, for any set of tasks, logical units and types   *)
(* of medium.  What a program does next fixes what it may hold (JobInv),   *)
(* what is mounted follows the comparison that FMOUNT made (MatchInv), and *)
(* markers and programs only name handlers that run (HandlerInv).  A unit  *)
(* on which no two programs met has at most one program, and whatever its  *)
(* marker and its media lack is what that program is about to do (Solo).   *)
(***************************************************************************)
EXTENDS KickMount, TLAPS

USE KickAssumption DEF KickAssumption

Steps == {"rest", "inspect", "find", "choose", "mount", "start", "mark", "record",
          "eject", "clear", "restore", "validate", "boot", "mounted", "refused", "booted"}
JobRecord == [at : Steps, unit : Logical \cup {None},
              e : Endpoints \cup {None}, type : Types \cup {None}]

TypeInv ==
  /\ catalog \in Types /\ default \in Types \cup {None}
  /\ media \in [Endpoints -> Types \cup {None}]
  /\ handler \subseteq Endpoints /\ started \subseteq Endpoints
  /\ logical \in [Logical -> Endpoints \cup {None}]
  /\ job \in [Tasks -> JobRecord]
  /\ owner \in [Endpoints -> Logical \cup {None}]
  /\ swapped \in [Endpoints -> BOOLEAN] /\ blurred \in [Logical -> BOOLEAN]

(* A program is given a logical unit or an endpoint, and works on one      *)
(* endpoint of that unit once it has chosen.                               *)
Given(j) == (j.unit \in Logical /\ j.e = None) \/ (j.unit = None /\ j.e \in Endpoints)
Chosen(j) == j.e \in Endpoints /\ (j.unit = None \/ j.unit = IndexOf(j.e))
JobShape(j) ==
  /\ j.at \in {"inspect", "choose"} => Given(j)
  /\ j.at = "choose" => j.type \in Types
  /\ j.at = "find" => j.unit \in Logical /\ j.e = None
  /\ j.at \in {"mount", "start", "mark", "record", "mounted", "eject", "clear"} => Chosen(j)
  /\ j.at = "mount" => j.type = TypeOf(j.e)
  /\ j.at \in {"restore", "validate", "boot", "refused", "booted"} => j.e = DN0 /\ j.unit = None

LogicalShape == \A i \in Logical : logical[i] # None => IndexOf(logical[i]) = i
JobInv == LogicalShape /\ \A p \in Tasks : JobShape(job[p])

MatchInv ==
  \A e \in Endpoints :
    media[e] # None /\ ~swapped[e] /\ (e = DN0 => default \in {DDFFS, None}) =>
      media[e] = TypeOf(e)

Served == {"mark", "record", "mounted", "booted"}
HandlerInv ==
  /\ started \subseteq handler
  /\ \A p \in Tasks : job[p].at \in Served => job[p].e \in handler

KickInv == TypeInv /\ JobInv /\ MatchInv /\ HandlerInv

-----------------------------------------------------------------------------
LEMMA Dn0IsEndpoint == DN0 \in Endpoints /\ TypeOf(DN0) = DDFFS /\ IndexOf(DN0) = 0
BY DEF DN0, Endpoints, TypeOf, IndexOf

LEMMA EndpointParts ==
  ASSUME NEW e \in Endpoints
  PROVE  TypeOf(e) \in Types /\ IndexOf(e) \in Logical /\ e # None
BY DEF Endpoints, TypeOf, IndexOf

LEMMA EndpointOf ==
  ASSUME NEW t \in Types, NEW i \in Logical
  PROVE  /\ EndpointForMedia(i, t) \in Endpoints
         /\ TypeOf(EndpointForMedia(i, t)) = t /\ IndexOf(EndpointForMedia(i, t)) = i
BY DEF EndpointForMedia, Endpoints, TypeOf, IndexOf

LEMMA KickInit == Init => KickInv
<1> SUFFICES ASSUME Init PROVE KickInv  OBVIOUS
<1>1. NoJob \in JobRecord /\ NoJob.at = "rest"
  BY DEF NoJob, JobRecord, Steps
<1>2. TypeInv  BY <1>1 DEF Init, TypeInv
<1>3. JobInv  BY <1>1 DEF Init, JobInv, JobShape, LogicalShape
<1>4. MatchInv  BY DEF Init, MatchInv
<1>5. HandlerInv  BY <1>1 DEF Init, HandlerInv, Served
<1>6. QED  BY <1>2, <1>3, <1>4, <1>5 DEF KickInv

(* A step that changes one program keeps JobInv if it leaves that program  *)
(* in shape.                                                               *)
LEMMA PutKeeps ==
  ASSUME KickInv, NEW p \in Tasks, NEW j \in JobRecord, Put(p, j), JobShape(j),
         UNCHANGED logical \/ LogicalShape'
  PROVE  JobInv' /\ job' \in [Tasks -> JobRecord] /\ job'[p] = j
         /\ \A q \in Tasks \ {p} : job'[q] = job[q]
BY DEF KickInv, TypeInv, JobInv, LogicalShape, Put

LEMMA RestShape == NoJob \in JobRecord /\ JobShape(NoJob) /\ NoJob.at = "rest"
BY DEF NoJob, JobRecord, Steps, JobShape

(* A step that changes a program and no device or marker.                  *)
LEMMA OnlyJob ==
  ASSUME KickInv, NEW p \in Tasks, NEW j \in JobRecord, Put(p, j), JobShape(j),
         j.at \in Served => j.e \in handler,
         UNCHANGED <<outside, media, handler, markers, owner, swapped>>,
         blurred' \in [Logical -> BOOLEAN]
  PROVE  KickInv'
<1> USE DEF outside, markers
<1>1. JobInv' /\ job' \in [Tasks -> JobRecord] /\ job'[p] = j
      /\ \A q \in Tasks \ {p} : job'[q] = job[q]
  BY PutKeeps
<1>2. TypeInv'  BY <1>1 DEF KickInv, TypeInv
<1>3. MatchInv'  BY DEF KickInv, MatchInv
<1>4. HandlerInv'  BY <1>1 DEF KickInv, HandlerInv
<1>5. QED  BY <1>1, <1>2, <1>3, <1>4 DEF KickInv

LEMMA RunKeeps ==
  ASSUME KickInv, NEW p \in Tasks, Run(p)
  PROVE  KickInv'
<1> DEFINE Fits(j) == j \in JobRecord /\ JobShape(j) /\ j.at \notin Served
<1>1. ASSUME NEW j, Fits(j), Start(p, j)
      PROVE  KickInv'
  <2>1. blurred' \in [Logical -> BOOLEAN]
    BY <1>1 DEF Start, KickInv, TypeInv
  <2>2. QED  BY <1>1, <2>1, OnlyJob DEF Start
<1>2. CASE \E i \in Logical, first \in {"inspect", "find"} :
             Start(p, [NoJob EXCEPT !.unit = i, !.at = first])
  <2>1. \A i \in Logical, first \in {"inspect", "find"} :
          Fits([NoJob EXCEPT !.unit = i, !.at = first])
    <3> TAKE i \in Logical, first \in {"inspect", "find"}
    <3> DEFINE j == [NoJob EXCEPT !.unit = i, !.at = first]
    <3>1. j.at = first /\ j.unit = i /\ j.e = None
      BY DEF NoJob
    <3>2. j \in JobRecord
      BY DEF NoJob, JobRecord, Steps
    <3>3. JobShape(j) /\ j.at \notin Served
      BY <3>1 DEF JobShape, Given, Served
    <3>4. QED  BY <3>2, <3>3
  <2>2. QED  BY <1>1, <1>2, <2>1
<1>3. CASE \E e \in Endpoints, first \in {"inspect", "eject"} :
             Start(p, [NoJob EXCEPT !.e = e, !.at = first])
  <2>1. \A e \in Endpoints, first \in {"inspect", "eject"} :
          Fits([NoJob EXCEPT !.e = e, !.at = first])
    <3> TAKE e \in Endpoints, first \in {"inspect", "eject"}
    <3> DEFINE j == [NoJob EXCEPT !.e = e, !.at = first]
    <3>1. j.at = first /\ j.unit = None /\ j.e = e
      BY DEF NoJob
    <3>2. j \in JobRecord
      BY DEF NoJob, JobRecord, Steps
    <3>3. JobShape(j) /\ j.at \notin Served
      BY <3>1 DEF JobShape, Given, Chosen, Served
    <3>4. QED  BY <3>2, <3>3
  <2>2. QED  BY <1>1, <1>3, <2>1
<1>4. CASE Start(p, [NoJob EXCEPT !.e = DN0, !.at = "restore"])
  <2>1. Fits([NoJob EXCEPT !.e = DN0, !.at = "restore"])
    BY Dn0IsEndpoint DEF NoJob, JobRecord, Steps, JobShape, Served
  <2>2. QED  BY <1>1, <1>4, <2>1
<1>5. QED  BY <1>2, <1>3, <1>4 DEF Run

(* What a program has is of its type, and in shape for its next step.      *)
LEMMA JobOf ==
  ASSUME KickInv, NEW p \in Tasks
  PROVE  job[p] \in JobRecord /\ JobShape(job[p])
BY DEF KickInv, TypeInv, JobInv

LEMMA EndKeeps ==
  ASSUME KickInv, NEW p \in Tasks, End(p),
         UNCHANGED <<outside, media, handler, markers, owner, swapped>>,
         blurred' \in [Logical -> BOOLEAN]
  PROVE  KickInv'
BY RestShape, OnlyJob DEF End, Served

LEMMA InspectKeeps ==
  ASSUME KickInv, NEW p \in Tasks, Inspect(p)
  PROVE  KickInv'
<1> DEFINE j == [job[p] EXCEPT !.type = catalog, !.at = "choose"]
<1>1. blurred' \in [Logical -> BOOLEAN]
      /\ UNCHANGED <<outside, media, handler, markers, owner, swapped>>
  BY DEF Inspect, history, KickInv, TypeInv
<1>2. CASE Put(p, j)
  <2>1. j \in JobRecord
    BY JobOf DEF JobRecord, Steps, KickInv, TypeInv
  <2>2. JobShape(j) /\ j.at \notin Served
    BY JobOf DEF Inspect, JobRecord, JobShape, Given, Served, KickInv, TypeInv
  <2>3. QED  BY <1>1, <1>2, <2>1, <2>2, OnlyJob
<1>3. CASE End(p)
  BY <1>1, <1>3, EndKeeps
<1>4. QED  BY <1>2, <1>3 DEF Inspect

LEMMA ChooseKeeps ==
  ASSUME KickInv, NEW p \in Tasks, Choose(p)
  PROVE  KickInv'
<1> DEFINE e == IF job[p].unit = None THEN job[p].e
                ELSE EndpointForMedia(job[p].unit, job[p].type)
           j == [job[p] EXCEPT !.e = e, !.at = "mount"]
<1>1. blurred' \in [Logical -> BOOLEAN]
      /\ UNCHANGED <<outside, media, handler, markers, owner, swapped>>
  BY DEF Choose, history, KickInv, TypeInv
<1>2. CASE End(p)
  BY <1>1, <1>2, EndKeeps
<1>3. CASE Put(p, j) /\ Suits(e, job[p].type)
  <2>1. job[p] \in JobRecord /\ Given(job[p]) /\ job[p].type \in Types
    BY JobOf DEF Choose, JobShape
  <2>2. e \in Endpoints /\ (job[p].unit = None \/ job[p].unit = IndexOf(e))
    BY <2>1, EndpointOf DEF Given
  <2>3. j \in JobRecord
    BY <2>1, <2>2 DEF JobRecord, Steps
  <2>4. JobShape(j) /\ j.at \notin Served
    BY <1>3, <2>1, <2>2 DEF JobRecord, JobShape, Chosen, Suits, Served
  <2>5. QED  BY <1>1, <1>3, <2>3, <2>4, OnlyJob
<1>4. QED  BY <1>2, <1>3 DEF Choose


(* The next step of a program that keeps what it works on.                 *)
LEMMA GotoJob ==
  ASSUME KickInv, NEW p \in Tasks, NEW step \in Steps, Goto(p, step)
  PROVE  /\ Put(p, [job[p] EXCEPT !.at = step])
         /\ [job[p] EXCEPT !.at = step] \in JobRecord
         /\ [job[p] EXCEPT !.at = step].at = step
         /\ [job[p] EXCEPT !.at = step].e = job[p].e
         /\ [job[p] EXCEPT !.at = step].unit = job[p].unit
BY JobOf DEF Goto, JobRecord

(* ... in the two chains of steps that change devices and markers.         *)
LEMMA GotoChosen ==
  ASSUME KickInv, NEW p \in Tasks, NEW step \in Steps, Goto(p, step),
         UNCHANGED logical \/ LogicalShape',
         \/ Chosen(job[p]) /\ step \in {"mark", "record", "mounted", "clear"}
         \/ job[p].e = DN0 /\ job[p].unit = None
            /\ step \in {"validate", "boot", "refused", "booted"}
  PROVE  /\ JobInv' /\ job' \in [Tasks -> JobRecord]
         /\ job'[p].at = step /\ job'[p].e = job[p].e
         /\ \A q \in Tasks \ {p} : job'[q] = job[q]
<1> DEFINE j == [job[p] EXCEPT !.at = step]
<1>1. Put(p, j) /\ j \in JobRecord /\ j.at = step /\ j.e = job[p].e /\ j.unit = job[p].unit
  BY GotoJob
<1>2. JobShape(j)
  BY <1>1 DEF JobShape, Chosen
<1>3. QED  BY <1>1, <1>2, PutKeeps

LEMMA EndJob ==
  ASSUME KickInv, NEW p \in Tasks, End(p), UNCHANGED logical \/ LogicalShape'
  PROVE  /\ JobInv' /\ job' \in [Tasks -> JobRecord] /\ job'[p].at = "rest"
         /\ \A q \in Tasks \ {p} : job'[q] = job[q]
BY RestShape, PutKeeps DEF End

LEMMA MountMediumKeeps ==
  ASSUME KickInv, NEW p \in Tasks, MountMedium(p)
  PROVE  KickInv'
<1> DEFINE j == [job[p] EXCEPT !.type = None, !.at = "start"]
<1>1. job[p] \in JobRecord /\ Chosen(job[p]) /\ job[p].type = TypeOf(job[p].e)
  BY JobOf DEF MountMedium, JobShape
<1>2. UNCHANGED <<catalog, default, handler, started, logical, blurred>>
  BY DEF MountMedium, outside, markers
<1>3. JobInv' /\ job' \in [Tasks -> JobRecord] /\ job'[p].at \notin Served
      /\ \A q \in Tasks \ {p} : job'[q] = job[q]
  <2>1. CASE Put(p, j)
    <3>1. j \in JobRecord
      BY <1>1 DEF JobRecord, Steps
    <3>2. JobShape(j) /\ j.at \notin Served
      BY <1>1 DEF JobRecord, JobShape, Chosen, Served
    <3>3. QED  BY <1>2, <2>1, <3>1, <3>2, PutKeeps
  <2>2. CASE End(p)
    BY <1>2, <2>2, EndJob DEF Served
  <2>3. QED  BY <2>1, <2>2 DEF MountMedium
<1>4. HandlerInv'
  BY <1>2, <1>3 DEF KickInv, HandlerInv
<1>5. CASE UNCHANGED <<media, swapped, owner>>
  <2>1. MatchInv'  BY <1>2, <1>5 DEF KickInv, MatchInv
  <2>2. TypeInv'  BY <1>2, <1>3, <1>5 DEF KickInv, TypeInv
  <2>3. QED  BY <1>3, <1>4, <2>1, <2>2 DEF KickInv
<1>6. CASE /\ media' = [media EXCEPT ![job[p].e] = catalog]
           /\ swapped' = [swapped EXCEPT ![job[p].e] = catalog # job[p].type]
           /\ owner' \in {owner, [owner EXCEPT ![job[p].e] = job[p].unit]}
  <2>1. TypeInv'
    <3>1. owner' \in [Endpoints -> Logical \cup {None}]
      BY <1>1, <1>6 DEF KickInv, TypeInv, JobRecord
    <3>2. media' \in [Endpoints -> Types \cup {None}]
      BY <1>1, <1>6 DEF KickInv, TypeInv, Chosen
    <3>3. swapped' \in [Endpoints -> BOOLEAN]
      BY <1>1, <1>6 DEF KickInv, TypeInv, Chosen
    <3>4. QED  BY <1>2, <1>3, <3>1, <3>2, <3>3 DEF KickInv, TypeInv
  <2>2. MatchInv'
    BY <1>1, <1>2, <1>6 DEF KickInv, TypeInv, MatchInv, Chosen
  <2>3. QED  BY <1>3, <1>4, <2>1, <2>2 DEF KickInv
<1>7. QED  BY <1>5, <1>6 DEF MountMedium

LEMMA StartHandlerKeeps ==
  ASSUME KickInv, NEW p \in Tasks, StartHandler(p)
  PROVE  KickInv'
<1>1. Chosen(job[p])
  BY JobOf DEF StartHandler, JobShape
<1>2. UNCHANGED <<catalog, default, media, started, logical, owner, swapped>>
  BY DEF StartHandler, outside, markers
<1>3. MatchInv'
  BY <1>2 DEF KickInv, MatchInv
<1>4. blurred' \in [Logical -> BOOLEAN]
  BY DEF StartHandler, KickInv, TypeInv
<1>5. CASE WasStarted(job[p]) /\ Goto(p, "record") /\ UNCHANGED handler
  <2>1. JobInv' /\ job' \in [Tasks -> JobRecord] /\ job'[p].e = job[p].e
        /\ \A q \in Tasks \ {p} : job'[q] = job[q]
    BY <1>1, <1>2, <1>5, GotoChosen DEF Steps
  <2>2. HandlerInv'
    BY <1>2, <1>5, <2>1 DEF KickInv, HandlerInv, WasStarted
  <2>3. TypeInv'
    BY <1>2, <1>4, <1>5, <2>1 DEF KickInv, TypeInv
  <2>4. QED  BY <1>3, <2>1, <2>2, <2>3 DEF KickInv
<1>6. CASE handler' = handler \cup {job[p].e} /\ Goto(p, "mark")
  <2>1. JobInv' /\ job' \in [Tasks -> JobRecord] /\ job'[p].e = job[p].e
        /\ \A q \in Tasks \ {p} : job'[q] = job[q]
    BY <1>1, <1>2, <1>6, GotoChosen DEF Steps
  <2>2. HandlerInv'
    BY <1>2, <1>6, <2>1 DEF KickInv, HandlerInv
  <2>3. TypeInv'
    BY <1>1, <1>2, <1>4, <1>6, <2>1 DEF KickInv, TypeInv, Chosen
  <2>4. QED  BY <1>3, <2>1, <2>2, <2>3 DEF KickInv
<1>7. CASE End(p) /\ UNCHANGED handler
  BY <1>2, <1>4, <1>7, EndKeeps DEF outside, markers
<1>8. QED  BY <1>5, <1>6, <1>7 DEF StartHandler

LEMMA MarkStartedKeeps ==
  ASSUME KickInv, NEW p \in Tasks, MarkStarted(p)
  PROVE  KickInv'
<1>1. Chosen(job[p]) /\ job[p].e \in handler
  BY JobOf DEF MarkStarted, JobShape, KickInv, HandlerInv, Served
<1>2. UNCHANGED <<catalog, default, media, handler, logical, owner, swapped, blurred>>
      /\ started' \in {started, started \cup {job[p].e}}
  BY DEF MarkStarted, outside, history
<1>3. JobInv' /\ job' \in [Tasks -> JobRecord] /\ job'[p].e = job[p].e
      /\ \A q \in Tasks \ {p} : job'[q] = job[q]
  BY <1>1, <1>2, GotoChosen DEF MarkStarted, Steps
<1>4. MatchInv'  BY <1>2 DEF KickInv, MatchInv
<1>5. HandlerInv'  BY <1>1, <1>2, <1>3 DEF KickInv, HandlerInv
<1>6. TypeInv'  BY <1>1, <1>2, <1>3 DEF KickInv, TypeInv, Chosen
<1>7. QED  BY <1>3, <1>4, <1>5, <1>6 DEF KickInv


LEMMA RecordLogicalKeeps ==
  ASSUME KickInv, NEW p \in Tasks, RecordLogical(p)
  PROVE  KickInv'
<1>1. Chosen(job[p]) /\ job[p].e \in handler
  BY JobOf DEF RecordLogical, JobShape, KickInv, HandlerInv, Served
<1>2. UNCHANGED <<catalog, default, media, handler, started, owner, swapped>>
      /\ blurred' \in [Logical -> BOOLEAN]
  BY DEF RecordLogical, outside, KickInv, TypeInv
<1>3. \/ UNCHANGED logical
      \/ job[p].unit # None /\ logical' = [logical EXCEPT ![job[p].unit] = job[p].e]
  BY DEF RecordLogical
<1>4. logical' \in [Logical -> Endpoints \cup {None}] /\ LogicalShape'
  BY <1>1, <1>3 DEF KickInv, TypeInv, JobInv, LogicalShape, Chosen
<1>5. JobInv' /\ job' \in [Tasks -> JobRecord] /\ job'[p].e = job[p].e
      /\ \A q \in Tasks \ {p} : job'[q] = job[q]
  BY <1>1, <1>4, GotoChosen DEF RecordLogical, Steps
<1>6. MatchInv'  BY <1>2 DEF KickInv, MatchInv
<1>7. HandlerInv'  BY <1>1, <1>2, <1>5 DEF KickInv, HandlerInv
<1>8. TypeInv'  BY <1>2, <1>4, <1>5 DEF KickInv, TypeInv
<1>9. QED  BY <1>5, <1>6, <1>7, <1>8 DEF KickInv

LEMMA FindKeeps ==
  ASSUME KickInv, NEW p \in Tasks, Find(p)
  PROVE  KickInv'
<1> DEFINE j == [job[p] EXCEPT !.e = logical[job[p].unit], !.at = "eject"]
<1>1. job[p] \in JobRecord /\ job[p].unit \in Logical
  BY JobOf DEF Find, JobShape
<1>2. blurred' \in [Logical -> BOOLEAN]
      /\ UNCHANGED <<outside, media, handler, markers, owner, swapped>>
  BY DEF Find, history, KickInv, TypeInv
<1>3. CASE End(p)
  BY <1>2, <1>3, EndKeeps
<1>4. CASE logical[job[p].unit] # None /\ Put(p, j)
  <2>1. logical[job[p].unit] \in Endpoints /\ IndexOf(logical[job[p].unit]) = job[p].unit
    BY <1>1, <1>4 DEF KickInv, TypeInv, JobInv, LogicalShape
  <2>2. j \in JobRecord
    BY <1>1, <2>1 DEF JobRecord, Steps
  <2>3. JobShape(j) /\ j.at \notin Served
    BY <1>1, <2>1 DEF JobRecord, JobShape, Chosen, Served
  <2>4. QED  BY <1>2, <1>4, <2>2, <2>3, OnlyJob
<1>5. QED  BY <1>3, <1>4 DEF Find

LEMMA EjectKeeps ==
  ASSUME KickInv, NEW p \in Tasks, Eject(p)
  PROVE  KickInv'
<1>1. job[p] \in JobRecord /\ Chosen(job[p])
  BY JobOf DEF Eject, JobShape
<1>2. UNCHANGED <<catalog, default, handler, started, logical>>
      /\ blurred' \in [Logical -> BOOLEAN]
  BY DEF Eject, outside, markers, KickInv, TypeInv
<1>3. JobInv' /\ job' \in [Tasks -> JobRecord] /\ job'[p].at \notin Served
      /\ \A q \in Tasks \ {p} : job'[q] = job[q]
  <2>1. CASE Goto(p, "clear")
    BY <1>1, <1>2, <2>1, GotoChosen DEF Steps, Served
  <2>2. CASE End(p)
    BY <1>2, <2>2, EndJob DEF Served
  <2>3. QED  BY <2>1, <2>2 DEF Eject
<1>4. HandlerInv'
  BY <1>2, <1>3 DEF KickInv, HandlerInv
<1>5. CASE UNCHANGED <<media, owner, swapped>>
  <2>1. MatchInv'  BY <1>2, <1>5 DEF KickInv, MatchInv
  <2>2. TypeInv'  BY <1>2, <1>3, <1>5 DEF KickInv, TypeInv
  <2>3. QED  BY <1>3, <1>4, <2>1, <2>2 DEF KickInv
<1>6. CASE /\ media' = [media EXCEPT ![job[p].e] = None]
           /\ owner' = [owner EXCEPT ![job[p].e] = None]
           /\ swapped' = [swapped EXCEPT ![job[p].e] = FALSE]
  <2>1. MatchInv'
    BY <1>1, <1>2, <1>6 DEF KickInv, TypeInv, MatchInv, Chosen
  <2>2. TypeInv'
    BY <1>1, <1>2, <1>3, <1>6 DEF KickInv, TypeInv, Chosen
  <2>3. QED  BY <1>3, <1>4, <2>1, <2>2 DEF KickInv
<1>7. QED  BY <1>5, <1>6 DEF Eject

LEMMA ClearKeeps ==
  ASSUME KickInv, NEW p \in Tasks, Clear(p)
  PROVE  KickInv'
<1>1. UNCHANGED <<catalog, default, media, handler, started, owner, swapped>>
      /\ blurred' \in [Logical -> BOOLEAN]
  BY DEF Clear, outside, KickInv, TypeInv
<1>2. \/ UNCHANGED logical
      \/ logical' = [i \in Logical |-> IF i \in Matching(job[p]) THEN None ELSE logical[i]]
  BY DEF Clear
<1>3. logical' \in [Logical -> Endpoints \cup {None}] /\ LogicalShape'
  BY <1>2 DEF KickInv, TypeInv, JobInv, LogicalShape
<1>4. JobInv' /\ job' \in [Tasks -> JobRecord] /\ job'[p].at \notin Served
      /\ \A q \in Tasks \ {p} : job'[q] = job[q]
  BY <1>3, EndJob DEF Clear, Served
<1>5. MatchInv'  BY <1>1 DEF KickInv, MatchInv
<1>6. HandlerInv'  BY <1>1, <1>4 DEF KickInv, HandlerInv
<1>7. TypeInv'  BY <1>1, <1>3, <1>4 DEF KickInv, TypeInv
<1>8. QED  BY <1>4, <1>5, <1>6, <1>7 DEF KickInv

(* What FBOOT restores is of the default's type.                           *)
LEMMA RestoreKeeps ==
  ASSUME KickInv, NEW p \in Tasks, Restore(p)
  PROVE  KickInv'
<1>1. job[p].e = DN0 /\ job[p].unit = None
  BY JobOf DEF Restore, JobShape
<1>2. UNCHANGED <<catalog, default, handler, started, logical, owner, swapped, blurred>>
  BY DEF Restore, outside, markers, history
<1>3. JobInv' /\ job' \in [Tasks -> JobRecord] /\ job'[p].at \notin Served
      /\ \A q \in Tasks \ {p} : job'[q] = job[q]
  <2>1. CASE Goto(p, "validate")
    BY <1>1, <1>2, <2>1, GotoChosen DEF Steps, Served
  <2>2. CASE End(p)
    BY <1>2, <2>2, EndJob DEF Served
  <2>3. QED  BY <2>1, <2>2 DEF Restore
<1>4. \/ UNCHANGED media
      \/ media[DN0] = None /\ media' = [media EXCEPT ![DN0] = default]
  BY DEF Restore
<1>5. TypeInv'  BY <1>2, <1>3, <1>4, Dn0IsEndpoint DEF KickInv, TypeInv
<1>6. MatchInv'  BY <1>2, <1>4, Dn0IsEndpoint DEF KickInv, TypeInv, MatchInv
<1>7. HandlerInv'  BY <1>2, <1>3 DEF KickInv, HandlerInv
<1>8. QED  BY <1>3, <1>5, <1>6, <1>7 DEF KickInv

LEMMA ValidateKeeps ==
  ASSUME KickInv, NEW p \in Tasks, Validate(p)
  PROVE  KickInv'
<1>1. job[p].e = DN0 /\ job[p].unit = None
  BY JobOf DEF Validate, JobShape
<1>2. UNCHANGED <<catalog, default, media, handler, started, logical, owner, swapped, blurred>>
  BY DEF Validate, outside, markers, history
<1>3. JobInv' /\ job' \in [Tasks -> JobRecord] /\ job'[p].at \notin Served
      /\ \A q \in Tasks \ {p} : job'[q] = job[q]
  BY <1>1, <1>2, GotoChosen DEF Validate, Steps, Served
<1>4. TypeInv'  BY <1>2, <1>3 DEF KickInv, TypeInv
<1>5. MatchInv'  BY <1>2 DEF KickInv, MatchInv
<1>6. HandlerInv'  BY <1>2, <1>3 DEF KickInv, HandlerInv
<1>7. QED  BY <1>3, <1>4, <1>5, <1>6 DEF KickInv

LEMMA StartBootKeeps ==
  ASSUME KickInv, NEW p \in Tasks, StartBoot(p)
  PROVE  KickInv'
<1>1. job[p].e = DN0 /\ job[p].unit = None
  BY JobOf DEF StartBoot, JobShape
<1>2. UNCHANGED <<catalog, default, media, started, logical, owner, swapped, blurred>>
  BY DEF StartBoot, outside, markers, history
<1>3. CASE End(p) /\ UNCHANGED handler
  BY <1>2, <1>3, EndKeeps DEF outside, markers, KickInv, TypeInv
<1>4. CASE handler' = handler \cup {DN0} /\ Goto(p, "booted")
  <2>1. JobInv' /\ job' \in [Tasks -> JobRecord] /\ job'[p].e = DN0
        /\ \A q \in Tasks \ {p} : job'[q] = job[q]
    BY <1>1, <1>2, <1>4, GotoChosen DEF Steps
  <2>2. TypeInv'  BY <1>2, <1>4, <2>1, Dn0IsEndpoint DEF KickInv, TypeInv
  <2>3. MatchInv'  BY <1>2 DEF KickInv, MatchInv
  <2>4. HandlerInv'  BY <1>2, <1>4, <2>1 DEF KickInv, HandlerInv
  <2>5. QED  BY <2>1, <2>2, <2>3, <2>4 DEF KickInv
<1>5. QED  BY <1>3, <1>4 DEF StartBoot

LEMMA RebootKeeps ==
  ASSUME KickInv, Reboot
  PROVE  KickInv'
<1>1. \A p \in Tasks : job'[p] = NoJob
  BY DEF Reboot
<1>2. TypeInv'
  BY RestShape DEF Reboot, outside, KickInv, TypeInv
<1>3. JobInv'
  BY <1>1, RestShape DEF Reboot, KickInv, JobInv, LogicalShape
<1>4. MatchInv'
  BY DEF Reboot, outside, KickInv, MatchInv
<1>5. HandlerInv'
  BY <1>1, RestShape DEF Reboot, HandlerInv, Served
<1>6. QED  BY <1>2, <1>3, <1>4, <1>5 DEF KickInv

-----------------------------------------------------------------------------
LEMMA KickStep == KickInv /\ [Next]_vars => KickInv'
<1> SUFFICES ASSUME KickInv, [Next]_vars PROVE KickInv'  OBVIOUS
<1>1. CASE ChangeCatalog
  <2> USE <1>1 DEF ChangeCatalog
  <2>1. TypeInv'  BY DEF KickInv, TypeInv, markers, history
  <2>2. JobInv'  BY DEF KickInv, JobInv, LogicalShape, markers
  <2>3. MatchInv'  BY DEF KickInv, MatchInv, history
  <2>4. HandlerInv'  BY DEF KickInv, HandlerInv, markers
  <2>5. QED  BY <2>1, <2>2, <2>3, <2>4 DEF KickInv
<1>2. CASE Reboot  BY <1>2, RebootKeeps
<1>3. ASSUME NEW p \in Tasks, Run(p) PROVE KickInv'  BY <1>3, RunKeeps
<1>4. ASSUME NEW p \in Tasks, Step(p) PROVE KickInv'
  <2>1. CASE Inspect(p)  BY <2>1, InspectKeeps
  <2>2. CASE Choose(p)  BY <2>2, ChooseKeeps
  <2>3. CASE MountMedium(p)  BY <2>3, MountMediumKeeps
  <2>4. CASE StartHandler(p)  BY <2>4, StartHandlerKeeps
  <2>5. CASE MarkStarted(p)  BY <2>5, MarkStartedKeeps
  <2>6. CASE RecordLogical(p)  BY <2>6, RecordLogicalKeeps
  <2>7. CASE Find(p)  BY <2>7, FindKeeps
  <2>8. CASE Eject(p)  BY <2>8, EjectKeeps
  <2>9. CASE Clear(p)  BY <2>9, ClearKeeps
  <2>10. CASE Restore(p)  BY <2>10, RestoreKeeps
  <2>11. CASE Validate(p)  BY <2>11, ValidateKeeps
  <2>12. CASE StartBoot(p)  BY <2>12, StartBootKeeps
  <2>13. CASE Finish(p)
    BY <2>13, EndKeeps DEF Finish, history, KickInv, TypeInv
  <2>14. QED
    BY <1>4, <2>1, <2>2, <2>3, <2>4, <2>5, <2>6, <2>7, <2>8, <2>9, <2>10, <2>11, <2>12, <2>13
    DEF Step
<1>5. CASE UNCHANGED vars
  <2> USE <1>5 DEF vars, outside, markers, history
  <2>1. TypeInv'  BY DEF KickInv, TypeInv
  <2>2. JobInv'  BY DEF KickInv, JobInv, LogicalShape
  <2>3. MatchInv'  BY DEF KickInv, MatchInv
  <2>4. HandlerInv'  BY DEF KickInv, HandlerInv
  <2>5. QED  BY <2>1, <2>2, <2>3, <2>4 DEF KickInv
<1>6. QED  BY <1>1, <1>2, <1>3, <1>4, <1>5 DEF Next

LEMMA KickAlways == Spec => []KickInv
BY KickInit, KickStep, PTL DEF Spec

(* No handler serves a medium of another type than its static entry has:   *)
(* the comparison in FMOUNT and the choice of endpoint by type suffice for *)
(* any number of programs at a time.                                       *)
THEOREM HandlersMatch == Spec => []HandlerMatches
<1>1. KickInv => HandlerMatches
  BY DEF KickInv, TypeInv, MatchInv, HandlerMatches
<1>2. QED  BY <1>1, KickAlways, PTL

(* A drive that FMOUNT or FBOOT reports has its handler running: a marker  *)
(* T:FNM<unit> is only written by a program that started the handler.      *)
THEOREM DrivesReady == Spec => []ReadyToUse
<1>1. KickInv => ReadyToUse
  BY DEF KickInv, HandlerInv, Served, ReadyToUse
<1>2. QED  BY <1>1, KickAlways, PTL

-----------------------------------------------------------------------------
(***************************************************************************)
(* LogicalIsTrue: what one program leaves a logical unit lacking, and that *)
(* steps on one unit leave the others alone.                               *)
(***************************************************************************)
Busy(p, i) == job[p].at # "rest" /\ Index(job[p]) = i

Mounting == {"start", "mark", "record"}

(* What is missing while p is the only program on unit i, if it is on it.  *)
Solo(i, p) ==
  /\ logical[i] # None /\ media[logical[i]] = None =>
       job[p].at = "clear" /\ job[p].e = logical[i]
  /\ \A e \in Endpoints : IndexOf(e) = i /\ owner[e] = i /\ logical[i] # e =>
       job[p].at \in Mounting /\ job[p].unit # None /\ job[p].e = e
  /\ job[p].at \in Mounting \cup {"mount"} /\ job[p].unit # None => logical[i] = None
  /\ job[p].at \in Mounting => media[job[p].e] # None
  /\ job[p].at = "clear" => media[job[p].e] = None
  /\ job[p].at \in {"eject", "clear"} /\ job[p].unit # None => logical[i] = job[p].e

(* Nothing is missing.                                                     *)
Rests(i) ==
  /\ logical[i] # None => media[logical[i]] # None
  /\ \A e \in Endpoints : IndexOf(e) = i /\ owner[e] = i => logical[i] = e

UnitInv(i) ==
  /\ \A p, q \in Tasks : Busy(p, i) /\ Busy(q, i) => p = q
  /\ \A p \in Tasks : Busy(p, i) => Solo(i, p)
  /\ (\A p \in Tasks : ~Busy(p, i)) => Rests(i)

OwnerInv == \A e \in Endpoints : owner[e] # None => owner[e] = IndexOf(e) /\ media[e] # None

LogicalInv == OwnerInv /\ \A i \in Logical : ~blurred[i] => UnitInv(i)

-----------------------------------------------------------------------------
LEMMA SoloAtRest ==
  ASSUME NEW i, NEW p, job[p].at = "rest"
  PROVE  Solo(i, p) <=> Rests(i)
BY DEF Solo, Rests, Mounting

LEMMA LogicalInit == Init => LogicalInv
<1> SUFFICES ASSUME Init PROVE LogicalInv  OBVIOUS
<1>1. OwnerInv
  BY DEF Init, OwnerInv
<1>2. ASSUME NEW i \in Logical PROVE UnitInv(i)
  <2>1. \A p \in Tasks : ~Busy(p, i)
    BY DEF Init, NoJob, Busy
  <2>2. Rests(i)
    BY <1>2, EndpointParts DEF Init, Rests
  <2>3. QED  BY <2>1, <2>2 DEF UnitInv
<1>3. QED  BY <1>1, <1>2 DEF LogicalInv

(* What a program works on is of its unit.                                 *)
LEMMA UnitOf ==
  ASSUME KickInv, NEW p \in Tasks, job[p].at # "rest"
  PROVE  Index(job[p]) \in Logical
<1>1. job[p] \in JobRecord /\ JobShape(job[p])
  BY JobOf
<1>2. Given(job[p]) \/ Chosen(job[p]) \/ job[p].e = DN0
      \/ (job[p].unit \in Logical /\ job[p].e = None)
  BY <1>1 DEF JobRecord, JobShape, Steps
<1>3. QED  BY <1>2, EndpointParts, Dn0IsEndpoint DEF Given, Chosen, Index

(* A step of p on unit k, of which another unit sees nothing.              *)
StepOn(k, p) ==
  /\ job[p].at # "rest" => Index(job[p]) = k
  /\ job'[p].at # "rest" => Index(job[p])' = k
  /\ \A q \in Tasks \ {p} : job'[q] = job[q]
  /\ \A i \in Logical \ {k} : logical'[i] = logical[i] /\ blurred'[i] = blurred[i]
  /\ \A e \in Endpoints : IndexOf(e) # k => media'[e] = media[e] /\ owner'[e] = owner[e]

LEMMA OtherUnit ==
  ASSUME KickInv, KickInv', NEW p \in Tasks, NEW k \in Logical, StepOn(k, p),
         NEW i \in Logical \ {k}, UnitInv(i)
  PROVE  UnitInv(i)'
<1>1. ~Busy(p, i) /\ ~Busy(p, i)'
  BY DEF StepOn, Busy
<1>2. \A q \in Tasks \ {p} : job'[q] = job[q] /\ (Busy(q, i)' <=> Busy(q, i))
  BY DEF StepOn, Busy, Index
<1>3. /\ logical'[i] = logical[i]
      /\ logical[i] # None => logical[i] \in Endpoints /\ IndexOf(logical[i]) = i
  BY DEF StepOn, KickInv, TypeInv, JobInv, LogicalShape
<1>4. logical[i] # None => media'[logical[i]] = media[logical[i]]
  BY <1>3 DEF StepOn
<1>5. \A e \in Endpoints : IndexOf(e) = i => media'[e] = media[e] /\ owner'[e] = owner[e]
  BY DEF StepOn
<1>6. ASSUME NEW q \in Tasks, Busy(q, i)' PROVE Solo(i, q)'
  <2>1. q # p /\ job'[q] = job[q] /\ Busy(q, i)
    BY <1>1, <1>2, <1>6
  <2>2. Solo(i, q)
    BY <2>1 DEF UnitInv
  <2>3. job[q].at \in Mounting \cup {"clear"} => media'[job[q].e] = media[job[q].e]
    <3>1. JobShape(job[q])
      BY JobOf
    <3>2. SUFFICES ASSUME job[q].at \in Mounting \cup {"clear"}
                   PROVE  media'[job[q].e] = media[job[q].e]
      OBVIOUS
    <3>3. job[q].e \in Endpoints
      BY <3>1, <3>2 DEF JobShape, Chosen, Mounting
    <3>4. IndexOf(job[q].e) = i
      BY <2>1, <3>3, EndpointParts DEF Busy, Index
    <3>5. QED  BY <1>5, <3>3, <3>4
  <2>4. QED  BY <1>3, <1>4, <1>5, <2>1, <2>2, <2>3 DEF Solo
<1>7. (\A q \in Tasks : ~Busy(q, i)') => Rests(i)'
  <2> SUFFICES ASSUME \A q \in Tasks : ~Busy(q, i)' PROVE Rests(i)'  OBVIOUS
  <2>1. Rests(i)
    BY <1>1, <1>2 DEF UnitInv
  <2>2. QED  BY <1>3, <1>4, <1>5, <2>1 DEF Rests
<1>8. \A q, r \in Tasks : Busy(q, i)' /\ Busy(r, i)' => q = r
  BY <1>1, <1>2 DEF UnitInv
<1>9. QED  BY <1>6, <1>7, <1>8 DEF UnitInv

(* On its own unit a program is the only one, unless the unit is blurred.  *)
LEMMA OwnUnit ==
  ASSUME NEW p \in Tasks, NEW k \in Logical, StepOn(k, p), UnitInv(k),
         job[p].at # "rest" \/ \A q \in Tasks : ~Busy(q, k),
         Solo(k, p) => Solo(k, p)'
  PROVE  UnitInv(k)'
<1>1. \A q \in Tasks \ {p} : ~Busy(q, k) /\ ~Busy(q, k)'
  <2>1. \A q \in Tasks \ {p} : ~Busy(q, k)
    BY DEF StepOn, Busy, UnitInv
  <2>2. QED  BY <2>1 DEF StepOn, Busy, Index
<1>2. Solo(k, p)
  <2>1. CASE job[p].at # "rest"
    BY <2>1 DEF StepOn, Busy, UnitInv
  <2>2. CASE job[p].at = "rest"
    <3>1. Rests(k)  BY <2>2, <1>1 DEF UnitInv, Busy
    <3>2. QED  BY <2>2, <3>1, SoloAtRest
  <2>3. QED  BY <2>1, <2>2
<1>3. Solo(k, p)'
  BY <1>2
<1>4. (\A q \in Tasks : ~Busy(q, k)') => Rests(k)'
  <2>1. ~Busy(p, k)' => job'[p].at = "rest"
    BY DEF StepOn, Busy
  <2>2. job'[p].at = "rest" => Rests(k)'
    BY <1>3 DEF Solo, Rests, Mounting
  <2>3. QED  BY <2>1, <2>2
<1>5. QED  BY <1>1, <1>3, <1>4 DEF UnitInv

LEMMA StepKeepsUnits ==
  ASSUME KickInv, KickInv', LogicalInv, NEW p \in Tasks, NEW k \in Logical, StepOn(k, p),
         OwnerInv',
         \/ blurred'[k]
         \/ /\ ~blurred[k]
            /\ job[p].at # "rest" \/ \A q \in Tasks : ~Busy(q, k)
            /\ Solo(k, p) => Solo(k, p)'
  PROVE  LogicalInv'
<1>1. ASSUME NEW i \in Logical, ~blurred'[i] PROVE UnitInv(i)'
  <2>1. CASE i = k
    BY <1>1, <2>1, OwnUnit DEF LogicalInv
  <2>2. CASE i # k
    <3>1. ~blurred[i]
      BY <1>1, <2>2 DEF StepOn
    <3>2. QED  BY <2>2, <3>1, OtherUnit DEF LogicalInv
  <2>3. QED  BY <2>1, <2>2
<1>2. QED  BY <1>1 DEF LogicalInv

-----------------------------------------------------------------------------
LEMMA PutJob ==
  ASSUME KickInv, NEW p \in Tasks, NEW j, Put(p, j)
  PROVE  job'[p] = j /\ \A q \in Tasks \ {p} : job'[q] = job[q]
BY DEF KickInv, TypeInv, Put

LEMMA EndPut ==
  ASSUME KickInv, NEW p \in Tasks, End(p)
  PROVE  job'[p].at = "rest" /\ \A q \in Tasks \ {p} : job'[q] = job[q]
BY PutJob DEF End, NoJob

LEMMA GotoPut ==
  ASSUME KickInv, NEW p \in Tasks, NEW step \in Steps, Goto(p, step)
  PROVE  /\ job'[p].at = step /\ job'[p].e = job[p].e /\ job'[p].unit = job[p].unit
         /\ Index(job[p])' = Index(job[p])
         /\ \A q \in Tasks \ {p} : job'[q] = job[q]
<1> DEFINE j == [job[p] EXCEPT !.at = step]
<1>1. Put(p, j) /\ j.at = step /\ j.e = job[p].e /\ j.unit = job[p].unit
  BY GotoJob
<1> HIDE DEF j
<1>2. job'[p] = j /\ \A q \in Tasks \ {p} : job'[q] = job[q]
  BY <1>1, PutJob
<1>3. Index(job[p])' = Index(job[p])
  BY <1>1, <1>2 DEF Index
<1>4. QED  BY <1>1, <1>2, <1>3

(* A step that moves a program on and touches neither media nor markers.   *)
LEMMA JobOnly ==
  ASSUME KickInv, KickInv', LogicalInv, NEW p \in Tasks, job[p].at # "rest",
         UNCHANGED <<media, logical, owner, blurred>>,
         job'[p].at = "rest" \/ Index(job[p])' = Index(job[p]),
         \A q \in Tasks \ {p} : job'[q] = job[q],
         Solo(Index(job[p]), p) =>
           /\ job[p].at \notin Mounting \cup {"clear"} \/
              (job[p].at \in Mounting /\ job'[p].at \in Mounting /\ job'[p].e = job[p].e
               /\ job'[p].unit = job[p].unit)
           /\ job'[p].at \in Mounting => job[p].at \in Mounting
           /\ job'[p].at # "clear"
           /\ job'[p].at = "mount" /\ job'[p].unit # None => logical[Index(job[p])] = None
           /\ job'[p].at = "eject" /\ job'[p].unit # None =>
                logical[Index(job[p])] = job'[p].e
  PROVE  LogicalInv'
<1> DEFINE k == Index(job[p])
<1>1. k \in Logical
  BY UnitOf
<1>2. StepOn(k, p)
  BY DEF StepOn
<1>3. OwnerInv'
  BY DEF LogicalInv, OwnerInv
<1>4. ASSUME NEW i \in Logical, i = k, Solo(i, p) PROVE Solo(i, p)'
  BY <1>4 DEF Solo, Mounting
<1>5. \A i \in Logical : i = k => (Solo(i, p) => Solo(i, p)')
  BY <1>4
<1>6. ASSUME NEW i \in Logical, i = k PROVE LogicalInv'
  <2>1. StepOn(i, p) /\ (Solo(i, p) => Solo(i, p)')
    BY <1>2, <1>5, <1>6
  <2>2. blurred'[i] \/ ~blurred[i]
    OBVIOUS
  <2>3. QED  BY <1>3, <2>1, <2>2, StepKeepsUnits
<1>7. QED  BY <1>1, <1>6

LEMMA StartUnits ==
  ASSUME KickInv, KickInv', LogicalInv, NEW p \in Tasks, NEW j \in JobRecord, Start(p, j),
         j.at \in {"inspect", "find", "eject", "restore"},
         j.at = "eject" => j.unit = None
  PROVE  LogicalInv'
<1>1. job'[p] = j /\ \A q \in Tasks \ {p} : job'[q] = job[q]
  BY PutJob DEF Start
<1>2. Index(j) \in Logical
  <2>1. JobShape(j)
    BY <1>1 DEF KickInv, JobInv
  <2>2. Given(j) \/ Chosen(j) \/ j.e = DN0 \/ (j.unit \in Logical /\ j.e = None)
    BY <2>1 DEF JobShape
  <2>3. QED  BY <2>2, EndpointParts, Dn0IsEndpoint DEF Given, Chosen, Index
<1>3. ASSUME NEW k \in Logical, k = Index(j) PROVE LogicalInv'
  <2>1. /\ UNCHANGED <<media, logical, owner>> /\ job[p].at = "rest"
        /\ blurred' = [blurred EXCEPT ![k] = @ \/ Meets(p, j)]
    BY <1>3 DEF Start, markers
  <2>2. blurred'[k] = (blurred[k] \/ Meets(p, j))
        /\ \A i \in Logical \ {k} : blurred'[i] = blurred[i]
    BY <2>1 DEF KickInv, TypeInv
  <2>3. Index(job[p])' = k
    BY <1>1, <1>3 DEF Index
  <2>4. StepOn(k, p)
    BY <1>1, <2>1, <2>2, <2>3 DEF StepOn
  <2>5. ~Meets(p, j) => \A q \in Tasks : ~Busy(q, k)
    BY <1>3, <2>1 DEF Meets, Busy
  <2>6. Solo(k, p) => Solo(k, p)'
    BY <1>1, <2>1 DEF Solo, Mounting
  <2>7. OwnerInv'
    BY <2>1 DEF LogicalInv, OwnerInv
  <2>8. CASE blurred'[k]
    BY <2>4, <2>7, <2>8, StepKeepsUnits
  <2>9. CASE ~blurred'[k]
    <3>1. ~blurred[k] /\ ~Meets(p, j)
      BY <2>2, <2>9
    <3>2. QED  BY <2>4, <2>5, <2>6, <2>7, <3>1, StepKeepsUnits
  <2>10. QED  BY <2>8, <2>9
<1>4. QED  BY <1>2, <1>3

LEMMA RunUnits ==
  ASSUME KickInv, KickInv', LogicalInv, NEW p \in Tasks, Run(p)
  PROVE  LogicalInv'
<1> DEFINE Fits(j) == /\ j \in JobRecord /\ j.at \in {"inspect", "find", "eject", "restore"}
                      /\ j.at = "eject" => j.unit = None
<1>1. \A i \in Logical, first \in {"inspect", "find"} :
        Fits([NoJob EXCEPT !.unit = i, !.at = first])
  BY DEF NoJob, JobRecord, Steps
<1>2. \A e \in Endpoints, first \in {"inspect", "eject"} :
        Fits([NoJob EXCEPT !.e = e, !.at = first])
  BY DEF NoJob, JobRecord, Steps
<1>3. Fits([NoJob EXCEPT !.e = DN0, !.at = "restore"])
  BY Dn0IsEndpoint DEF NoJob, JobRecord, Steps
<1>4. PICK j : Fits(j) /\ Start(p, j)
  BY <1>1, <1>2, <1>3 DEF Run
<1>5. QED  BY <1>4, StartUnits

-----------------------------------------------------------------------------
LEMMA InspectUnits ==
  ASSUME KickInv, KickInv', LogicalInv, NEW p \in Tasks, Inspect(p)
  PROVE  LogicalInv'
<1> DEFINE j == [job[p] EXCEPT !.type = catalog, !.at = "choose"]
<1>1. job[p].at = "inspect" /\ UNCHANGED <<media, logical, owner, blurred>>
  BY DEF Inspect, markers, history
<1>2. CASE Put(p, j)
  <2>1. j.at = "choose" /\ j.e = job[p].e /\ j.unit = job[p].unit
    BY JobOf DEF JobRecord
  <2> HIDE DEF j
  <2>2. job'[p] = j /\ \A q \in Tasks \ {p} : job'[q] = job[q]
    BY <1>2, PutJob
  <2>3. Index(job[p])' = Index(job[p])
    BY <2>1, <2>2 DEF Index
  <2>4. QED  BY <1>1, <2>1, <2>2, <2>3, JobOnly DEF Mounting
<1>3. CASE End(p)
  BY <1>1, <1>3, EndPut, JobOnly DEF Mounting
<1>4. QED  BY <1>2, <1>3 DEF Inspect

(* logical_unit_is_mounted: the marker of the unit is free.                *)
LEMMA ChooseUnits ==
  ASSUME KickInv, KickInv', LogicalInv, NEW p \in Tasks, Choose(p)
  PROVE  LogicalInv'
<1> DEFINE e == IF job[p].unit = None THEN job[p].e
                ELSE EndpointForMedia(job[p].unit, job[p].type)
           j == [job[p] EXCEPT !.e = e, !.at = "mount"]
<1>1. job[p].at = "choose" /\ UNCHANGED <<media, logical, owner, blurred>>
  BY DEF Choose, markers, history
<1>2. CASE End(p)
  BY <1>1, <1>2, EndPut, JobOnly DEF Mounting
<1>3. CASE Put(p, j) /\ (job[p].unit # None => logical[job[p].unit] = None)
  <2>1. job[p] \in JobRecord /\ Given(job[p]) /\ job[p].type \in Types
    BY <1>1, JobOf DEF JobShape
  <2>2. j.at = "mount" /\ j.e = e /\ j.unit = job[p].unit
    BY <2>1 DEF JobRecord
  <2>3. e # None /\ (job[p].unit # None => IndexOf(e) = job[p].unit)
    BY <2>1, EndpointOf, EndpointParts DEF Given
  <2>4. Index(job[p]) = IndexOf(e) /\ (job[p].unit # None => Index(job[p]) = job[p].unit)
    BY <2>1, <2>3 DEF Given, Index
  <2> HIDE DEF e, j
  <2>5. job'[p] = j /\ \A q \in Tasks \ {p} : job'[q] = job[q]
    BY <1>3, PutJob
  <2>6. Index(job[p])' = Index(job[p])
    BY <2>2, <2>3, <2>4, <2>5 DEF Index
  <2>7. job'[p].unit # None => logical[Index(job[p])] = None
    BY <1>3, <2>2, <2>4, <2>5
  <2>8. QED  BY <1>1, <2>2, <2>5, <2>6, <2>7, JobOnly DEF Mounting
<1>4. QED  BY <1>2, <1>3 DEF Choose, Occupied

LEMMA FindUnits ==
  ASSUME KickInv, KickInv', LogicalInv, NEW p \in Tasks, Find(p)
  PROVE  LogicalInv'
<1> DEFINE j == [job[p] EXCEPT !.e = logical[job[p].unit], !.at = "eject"]
<1>1. job[p].at = "find" /\ UNCHANGED <<media, logical, owner, blurred>>
  BY DEF Find, markers, history
<1>2. CASE End(p)
  BY <1>1, <1>2, EndPut, JobOnly DEF Mounting
<1>3. CASE logical[job[p].unit] # None /\ Put(p, j)
  <2>1. job[p] \in JobRecord /\ job[p].unit \in Logical /\ job[p].e = None
    BY <1>1, JobOf DEF JobShape
  <2>2. j.at = "eject" /\ j.e = logical[job[p].unit] /\ j.unit = job[p].unit
    BY <2>1 DEF JobRecord
  <2> HIDE DEF j
  <2>3. Index(job[p]) = job[p].unit /\ IndexOf(logical[job[p].unit]) = job[p].unit
    BY <1>3, <2>1 DEF Index, KickInv, JobInv, LogicalShape
  <2>4. job'[p] = j /\ \A q \in Tasks \ {p} : job'[q] = job[q]
    BY <1>3, PutJob
  <2>5. Index(job[p])' = Index(job[p])
    BY <1>3, <2>2, <2>3, <2>4 DEF Index
  <2>6. QED  BY <1>1, <2>2, <2>3, <2>4, <2>5, JobOnly DEF Mounting
<1>4. QED  BY <1>2, <1>3 DEF Find

LEMMA ValidateUnits ==
  ASSUME KickInv, KickInv', LogicalInv, NEW p \in Tasks, Validate(p)
  PROVE  LogicalInv'
<1>1. job[p].at = "validate" /\ UNCHANGED <<media, logical, owner, blurred>>
  BY DEF Validate, markers, history
<1>2. ASSUME NEW step \in {"boot", "refused"}, Goto(p, step) PROVE LogicalInv'
  BY <1>1, <1>2, GotoPut, JobOnly DEF Mounting, Steps
<1>3. QED  BY <1>2 DEF Validate

LEMMA StartBootUnits ==
  ASSUME KickInv, KickInv', LogicalInv, NEW p \in Tasks, StartBoot(p)
  PROVE  LogicalInv'
<1>1. job[p].at = "boot" /\ UNCHANGED <<media, logical, owner, blurred>>
  BY DEF StartBoot, markers, history
<1>2. CASE Goto(p, "booted")
  BY <1>1, <1>2, GotoPut, JobOnly DEF Mounting, Steps
<1>3. CASE End(p)
  BY <1>1, <1>3, EndPut, JobOnly DEF Mounting
<1>4. QED  BY <1>2, <1>3 DEF StartBoot

LEMMA FinishUnits ==
  ASSUME KickInv, KickInv', LogicalInv, NEW p \in Tasks, Finish(p)
  PROVE  LogicalInv'
<1>1. job[p].at \in {"mounted", "refused", "booted"} /\ End(p)
      /\ UNCHANGED <<media, logical, owner, blurred>>
  BY DEF Finish, markers, history
<1>2. QED  BY <1>1, EndPut, JobOnly DEF Mounting

LEMMA MarkStartedUnits ==
  ASSUME KickInv, KickInv', LogicalInv, NEW p \in Tasks, MarkStarted(p)
  PROVE  LogicalInv'
<1>1. job[p].at = "mark" /\ UNCHANGED <<media, logical, owner, blurred>> /\ Goto(p, "record")
  BY DEF MarkStarted, history
<1>2. QED  BY <1>1, GotoPut, JobOnly DEF Mounting, Steps

-----------------------------------------------------------------------------
LEMMA ChosenUnit ==
  ASSUME NEW j, Chosen(j)
  PROVE  /\ j.e \in Endpoints /\ j.e # None /\ IndexOf(j.e) \in Logical
         /\ Index(j) = IndexOf(j.e) /\ (j.unit # None => j.unit = IndexOf(j.e))
BY EndpointParts DEF Chosen, Index

(* A step of a program that works on endpoint e of unit k.                 *)
LEMMA ChosenStep ==
  ASSUME KickInv, KickInv', LogicalInv, NEW p \in Tasks, job[p].at # "rest",
         NEW e \in Endpoints, NEW k \in Logical, Index(job[p]) = k, IndexOf(e) = k,
         job'[p].at = "rest" \/ Index(job[p])' = k,
         \A q \in Tasks \ {p} : job'[q] = job[q],
         \A i \in Logical \ {k} : logical'[i] = logical[i] /\ blurred'[i] = blurred[i],
         \A d \in Endpoints \ {e} : media'[d] = media[d] /\ owner'[d] = owner[d],
         owner'[e] # None => owner'[e] = k /\ media'[e] # None,
         blurred'[k] \/ (~blurred[k] /\ (Solo(k, p) => Solo(k, p)'))
  PROVE  LogicalInv'
<1>1. StepOn(k, p)
  BY DEF StepOn
<1>2. OwnerInv'
  BY DEF LogicalInv, OwnerInv
<1>3. QED  BY <1>1, <1>2, StepKeepsUnits

LEMMA MountMediumUnits ==
  ASSUME KickInv, KickInv', LogicalInv, NEW p \in Tasks, MountMedium(p)
  PROVE  LogicalInv'
<1> DEFINE j == [job[p] EXCEPT !.type = None, !.at = "start"]
<1>1. /\ job[p].at = "mount" /\ job[p] \in JobRecord /\ Chosen(job[p])
      /\ UNCHANGED <<logical, blurred>> /\ catalog # None
  BY JobOf DEF MountMedium, JobShape, markers, KickInv, TypeInv
<1>2. j.at = "start" /\ j.e = job[p].e /\ j.unit = job[p].unit
  BY <1>1 DEF JobRecord
<1> HIDE DEF j
<1>3. CASE UNCHANGED <<media, owner>> /\ End(p)
  BY <1>1, <1>3, EndPut, JobOnly DEF Mounting
<1>4. ASSUME NEW e \in Endpoints, NEW k \in Logical, e = job[p].e, k = IndexOf(e),
             media' = [media EXCEPT ![e] = catalog],
             \/ Put(p, j) /\ owner' = IF job[p].unit = None THEN owner
                                      ELSE [owner EXCEPT ![e] = job[p].unit]
             \/ End(p) /\ UNCHANGED owner
      PROVE  LogicalInv'
  <2>1. Index(job[p]) = k /\ (job[p].unit # None => job[p].unit = k)
    BY <1>1, <1>4, ChosenUnit
  <2>2. media'[e] # None /\ \A d \in Endpoints \ {e} : media'[d] = media[d]
    BY <1>1, <1>4 DEF KickInv, TypeInv
  <2>3. /\ owner'[e] \in {owner[e], k} /\ \A d \in Endpoints \ {e} : owner'[d] = owner[d]
        /\ owner'[e] # owner[e] => job'[p].at = "start" /\ job[p].unit # None
    BY <1>1, <1>2, <1>4, <2>1, PutJob DEF KickInv, TypeInv
  <2>4. owner'[e] # None => owner'[e] = k
    BY <1>4, <2>3 DEF LogicalInv, OwnerInv
  <2>5. /\ \A q \in Tasks \ {p} : job'[q] = job[q]
        /\ \/ job'[p].at = "rest"
           \/ job'[p].at = "start" /\ job'[p].e = e /\ job'[p].unit = job[p].unit
    BY <1>2, <1>4, PutJob, EndPut
  <2>6. job'[p].at = "rest" \/ Index(job[p])' = k
    BY <1>4, <2>5, EndpointParts DEF Index
  <2>7. ASSUME Solo(k, p) PROVE Solo(k, p)'
    <3>1. logical'[k] # None => media'[logical'[k]] # None
      BY <1>1, <2>2, <2>7 DEF Solo, KickInv, TypeInv
    <3>2. \A d \in Endpoints : IndexOf(d) = k /\ owner'[d] = k /\ logical'[k] # d =>
            job'[p].at \in Mounting /\ job'[p].unit # None /\ job'[p].e = d
      BY <1>1, <1>4, <2>3, <2>5, <2>7 DEF Solo, Mounting
    <3>3. job'[p].unit # None /\ job'[p].at = "start" => logical'[k] = None
      BY <1>1, <2>5, <2>7 DEF Solo
    <3>4. QED  BY <2>2, <2>5, <3>1, <3>2, <3>3 DEF Solo, Mounting
  <2>8. QED  BY <1>1, <1>4, <2>1, <2>2, <2>3, <2>4, <2>5, <2>6, <2>7, ChosenStep
<1>5. job[p].e \in Endpoints /\ IndexOf(job[p].e) \in Logical
  BY <1>1, ChosenUnit
<1>6. CASE /\ media' = [media EXCEPT ![job[p].e] = catalog]
           /\ \/ Put(p, j) /\ owner' = IF job[p].unit = None THEN owner
                                         ELSE [owner EXCEPT ![job[p].e] = job[p].unit]
              \/ End(p) /\ UNCHANGED owner
  BY <1>4, <1>5, <1>6
<1>7. QED  BY <1>3, <1>6 DEF MountMedium, j

(* C:Mount's failure leaves the medium without a marker, and blurs.        *)
LEMMA StartHandlerUnits ==
  ASSUME KickInv, KickInv', LogicalInv, NEW p \in Tasks, StartHandler(p)
  PROVE  LogicalInv'
<1>1. job[p].at = "start" /\ Chosen(job[p]) /\ UNCHANGED <<media, logical, owner>>
  BY JobOf DEF StartHandler, JobShape, markers
<1>2. ASSUME NEW step \in {"record", "mark"}, Goto(p, step), UNCHANGED blurred
      PROVE  LogicalInv'
  BY <1>1, <1>2, GotoPut, JobOnly DEF Mounting, Steps
<1>3. CASE blurred' = [blurred EXCEPT ![Index(job[p])] = TRUE] /\ End(p)
  <2>1. ASSUME NEW e \in Endpoints, NEW k \in Logical, e = job[p].e, k = Index(job[p]),
               IndexOf(e) = k
        PROVE  LogicalInv'
    <3>1. blurred'[k] /\ \A i \in Logical \ {k} : blurred'[i] = blurred[i]
      BY <1>3, <2>1 DEF KickInv, TypeInv
    <3>2. owner'[e] # None => owner'[e] = k /\ media'[e] # None
      BY <1>1, <2>1 DEF LogicalInv, OwnerInv
    <3>3. job'[p].at = "rest" /\ \A q \in Tasks \ {p} : job'[q] = job[q]
      BY <1>3, EndPut
    <3>4. /\ job[p].at # "rest" /\ \A i \in Logical \ {k} : logical'[i] = logical[i]
          /\ \A d \in Endpoints \ {e} : media'[d] = media[d] /\ owner'[d] = owner[d]
      BY <1>1
    <3>5. QED  BY <2>1, <3>1, <3>2, <3>3, <3>4, ChosenStep
  <2>2. QED  BY <1>1, <2>1, ChosenUnit
<1>4. QED  BY <1>2, <1>3 DEF StartHandler

LEMMA RecordLogicalUnits ==
  ASSUME KickInv, KickInv', LogicalInv, NEW p \in Tasks, RecordLogical(p)
  PROVE  LogicalInv'
<1>1. job[p].at = "record" /\ Chosen(job[p]) /\ UNCHANGED <<media, owner>> /\ Goto(p, "mounted")
  BY JobOf DEF RecordLogical, JobShape
<1>2. ASSUME NEW e \in Endpoints, NEW k \in Logical, e = job[p].e, k = Index(job[p]),
             IndexOf(e) = k, job[p].unit # None => job[p].unit = k
      PROVE  LogicalInv'
  <2>1. /\ job'[p].at = "mounted" /\ Index(job[p])' = k
        /\ \A q \in Tasks \ {p} : job'[q] = job[q]
    BY <1>1, <1>2, GotoPut DEF Steps
  <2>2. owner'[e] # None => owner'[e] = k /\ media'[e] # None
    BY <1>1, <1>2 DEF LogicalInv, OwnerInv
  <2>3. /\ \A i \in Logical \ {k} : logical'[i] = logical[i] /\ blurred'[i] = blurred[i]
        /\ \/ blurred'[k]
           \/ blurred'[k] = blurred[k] /\ job[p].unit # None /\ logical'[k] = e
           \/ blurred'[k] = blurred[k] /\ job[p].unit = None /\ logical'[k] = logical[k]
    BY <1>2 DEF RecordLogical, KickInv, TypeInv
  <2>4. ASSUME Solo(k, p), ~blurred'[k] PROVE Solo(k, p)'
    <3>1. media[e] # None
      BY <1>1, <1>2, <2>4 DEF Solo, Mounting
    <3>2. CASE job[p].unit # None /\ logical'[k] = e
      <4>1. logical[k] = None
        BY <1>1, <2>4, <3>2 DEF Solo, Mounting
      <4>2. \A d \in Endpoints : IndexOf(d) = k /\ owner'[d] = k => d = e
        BY <1>1, <1>2, <2>4, <4>1, EndpointParts DEF Solo
      <4>3. QED  BY <1>1, <2>1, <3>1, <3>2, <4>2 DEF Solo, Mounting
    <3>3. CASE job[p].unit = None /\ logical'[k] = logical[k]
      BY <1>1, <2>1, <2>4, <3>3 DEF Solo, Mounting
    <3>4. QED  BY <2>3, <2>4, <3>2, <3>3
  <2>5. QED  BY <1>1, <1>2, <2>1, <2>2, <2>3, <2>4, ChosenStep
<1>3. QED  BY <1>1, <1>2, ChosenUnit

-----------------------------------------------------------------------------
LEMMA EjectUnits ==
  ASSUME KickInv, KickInv', LogicalInv, NEW p \in Tasks, Eject(p)
  PROVE  LogicalInv'
<1>1. job[p].at = "eject" /\ Chosen(job[p]) /\ UNCHANGED logical
  BY JobOf DEF Eject, JobShape, markers
<1>2. CASE End(p) /\ UNCHANGED <<media, owner, blurred>>
  BY <1>1, <1>2, EndPut, JobOnly DEF Mounting
<1>3. ASSUME NEW e \in Endpoints, NEW k \in Logical, e = job[p].e, k = Index(job[p]),
             IndexOf(e) = k,
             media' = [media EXCEPT ![e] = None], owner' = [owner EXCEPT ![e] = None],
             \/ Goto(p, "clear") /\ UNCHANGED blurred
             \/ End(p) /\ blurred' = [blurred EXCEPT ![k] = TRUE]
      PROVE  LogicalInv'
  <2>1. /\ media'[e] = None /\ owner'[e] = None
        /\ \A d \in Endpoints \ {e} : media'[d] = media[d] /\ owner'[d] = owner[d]
    BY <1>3 DEF KickInv, TypeInv
  <2>2. /\ \A q \in Tasks \ {p} : job'[q] = job[q]
        /\ \A i \in Logical \ {k} : logical'[i] = logical[i] /\ blurred'[i] = blurred[i]
        /\ \/ job'[p].at = "rest" /\ blurred'[k]
           \/ /\ job'[p].at = "clear" /\ job'[p].e = e /\ job'[p].unit = job[p].unit
              /\ Index(job[p])' = k /\ blurred'[k] = blurred[k]
    <3>1. CASE Goto(p, "clear") /\ UNCHANGED blurred
      BY <1>1, <1>3, <3>1, GotoPut DEF Steps
    <3>2. CASE End(p) /\ blurred' = [blurred EXCEPT ![k] = TRUE]
      BY <1>1, <1>3, <3>2, EndPut DEF KickInv, TypeInv
    <3>3. QED  BY <1>3, <3>1, <3>2
  <2>3. ASSUME Solo(k, p), job'[p].at = "clear", job'[p].e = e, job'[p].unit = job[p].unit
        PROVE  Solo(k, p)'
    <3>1. logical'[k] # None /\ media'[logical'[k]] = None => logical'[k] = e
      BY <1>1, <2>1, <2>3 DEF Solo, KickInv, TypeInv
    <3>2. \A d \in Endpoints : IndexOf(d) = k /\ owner'[d] = k => logical'[k] = d
      <4>1. k # None
        OBVIOUS
      <4>2. QED  BY <1>1, <2>1, <2>3, <4>1 DEF Solo, Mounting
    <3>3. job'[p].unit # None => logical'[k] = e
      BY <1>1, <1>3, <2>3 DEF Solo
    <3>4. QED  BY <2>1, <2>3, <3>1, <3>2, <3>3 DEF Solo, Mounting
  <2>4. job[p].at # "rest"
    BY <1>1
  <2>5. QED  BY <1>3, <2>1, <2>2, <2>3, <2>4, ChosenStep
<1>4. CASE /\ media' = [media EXCEPT ![job[p].e] = None]
           /\ owner' = [owner EXCEPT ![job[p].e] = None]
           /\ \/ Goto(p, "clear") /\ UNCHANGED blurred
              \/ End(p) /\ blurred' = [blurred EXCEPT ![Index(job[p])] = TRUE]
  BY <1>1, <1>3, <1>4, ChosenUnit
<1>5. QED  BY <1>2, <1>4 DEF Eject

(* The marker that is cleared is that of the endpoint that was ejected.    *)
LEMMA ClearUnits ==
  ASSUME KickInv, KickInv', LogicalInv, NEW p \in Tasks, Clear(p)
  PROVE  LogicalInv'
<1>1. job[p].at = "clear" /\ Chosen(job[p]) /\ UNCHANGED <<media, owner>> /\ End(p)
  BY JobOf DEF Clear, JobShape
<1>2. ASSUME NEW e \in Endpoints, NEW k \in Logical, e = job[p].e, k = Index(job[p]),
             IndexOf(e) = k, job[p].unit # None => job[p].unit = k
      PROVE  LogicalInv'
  <2>1. job'[p].at = "rest" /\ \A q \in Tasks \ {p} : job'[q] = job[q]
    BY <1>1, EndPut
  <2>2. \A i \in Logical \ {k} : i \notin Matching(job[p])
    BY <1>2, EndpointParts DEF Matching, KickInv, JobInv, LogicalShape
  <2>3. /\ \A i \in Logical \ {k} : logical'[i] = logical[i] /\ blurred'[i] = blurred[i]
        /\ \/ blurred'[k]
           \/ /\ blurred'[k] = blurred[k]
              /\ logical'[k] = IF k \in Matching(job[p]) THEN None ELSE logical[k]
    BY <1>2, <2>2 DEF Clear, KickInv, TypeInv
  <2>4. owner'[e] # None => owner'[e] = k /\ media'[e] # None
    BY <1>1, <1>2 DEF LogicalInv, OwnerInv
  <2>5. ASSUME Solo(k, p), ~blurred'[k] PROVE Solo(k, p)'
    <3>1. logical[k] # e => k \notin Matching(job[p])
      BY <1>1, <1>2, <2>5 DEF Solo, Matching
    <3>2. logical[k] = e => k \in Matching(job[p])
      BY <1>2 DEF Matching
    <3>3. logical'[k] = IF logical[k] = e THEN None ELSE logical[k]
      BY <2>3, <2>5, <3>1, <3>2
    <3>4. owner'[e] = None
      BY <1>1, <1>2, <2>5 DEF Solo, LogicalInv, OwnerInv
    <3>5. logical'[k] # None => media'[logical'[k]] # None
      BY <1>1, <1>2, <2>5, <3>3 DEF Solo
    <3>6. \A d \in Endpoints : IndexOf(d) = k /\ owner'[d] = k => logical'[k] = d
      <4>1. k # None
        OBVIOUS
      <4>2. QED  BY <1>1, <2>5, <3>3, <3>4, <4>1 DEF Solo, Mounting
    <3>7. QED  BY <2>1, <3>5, <3>6 DEF Solo, Mounting
  <2>6. job[p].at # "rest"
    BY <1>1
  <2>7. QED  BY <1>1, <1>2, <2>1, <2>3, <2>4, <2>5, <2>6, ChosenStep
<1>3. QED  BY <1>1, <1>2, ChosenUnit

(* FBOOT's default disk only goes into an empty unit.                      *)
LEMMA RestoreUnits ==
  ASSUME KickInv, KickInv', LogicalInv, NEW p \in Tasks, Restore(p)
  PROVE  LogicalInv'
<1>1. /\ job[p].at = "restore" /\ job[p].e = DN0 /\ job[p].unit = None
      /\ UNCHANGED <<logical, owner, blurred>>
  BY JobOf DEF Restore, JobShape, markers, history
<1>2. ASSUME NEW e \in Endpoints, NEW k \in Logical, e = DN0, k = Index(job[p]),
             IndexOf(e) = k
      PROVE  LogicalInv'
  <2>1. /\ \A q \in Tasks \ {p} : job'[q] = job[q]
        /\ job'[p].at \in {"rest", "validate"}
        /\ job'[p].at = "rest" \/ Index(job[p])' = k
    <3>1. CASE Goto(p, "validate")
      BY <1>2, <3>1, GotoPut DEF Steps
    <3>2. CASE End(p)
      BY <3>2, EndPut
    <3>3. QED  BY <3>1, <3>2 DEF Restore
  <2>2. /\ \A d \in Endpoints \ {e} : media'[d] = media[d]
        /\ media[e] # None => media'[e] = media[e]
    BY <1>2 DEF Restore, KickInv, TypeInv
  <2>3. owner'[e] # None => owner'[e] = k /\ media'[e] # None
    BY <1>1, <1>2, <2>2 DEF LogicalInv, OwnerInv
  <2>4. ASSUME Solo(k, p) PROVE Solo(k, p)'
    <3>1. logical'[k] # None => media'[logical'[k]] # None
      BY <1>1, <2>2, <2>4 DEF Solo, KickInv, TypeInv
    <3>2. QED  BY <1>1, <2>1, <2>4, <3>1 DEF Solo, Mounting
  <2>5. /\ job[p].at # "rest"
        /\ \A i \in Logical \ {k} : logical'[i] = logical[i] /\ blurred'[i] = blurred[i]
        /\ \A d \in Endpoints \ {e} : owner'[d] = owner[d]
        /\ blurred'[k] \/ ~blurred[k]
    BY <1>1
  <2>6. QED  BY <1>2, <2>1, <2>2, <2>3, <2>4, <2>5, ChosenStep
<1>3. Index(job[p]) = IndexOf(DN0)
  BY <1>1, Dn0IsEndpoint, EndpointParts DEF Index
<1>4. QED  BY <1>2, <1>3, Dn0IsEndpoint, EndpointParts

LEMMA RebootUnits ==
  ASSUME KickInv, Reboot
  PROVE  LogicalInv'
<1>1. \A p \in Tasks : job'[p].at = "rest"
  BY RestShape DEF Reboot
<1>2. OwnerInv'
  BY DEF Reboot, OwnerInv
<1>3. ASSUME NEW i \in Logical PROVE UnitInv(i)'
  <2>1. \A p \in Tasks : ~Busy(p, i)'
    BY <1>1 DEF Busy
  <2>2. Rests(i)'
    BY DEF Reboot, Rests
  <2>3. QED  BY <2>1, <2>2 DEF UnitInv
<1>4. QED  BY <1>2, <1>3 DEF LogicalInv

LEMMA SameUnits ==
  ASSUME LogicalInv, UNCHANGED <<media, logical, job, owner, blurred>>
  PROVE  LogicalInv'
<1>1. OwnerInv'
  BY DEF LogicalInv, OwnerInv
<1>2. ASSUME NEW i \in Logical, UnitInv(i) PROVE UnitInv(i)'
  <2>1. \A p \in Tasks : Busy(p, i)' <=> Busy(p, i)
    BY DEF Busy, Index
  <2>2. \A p \in Tasks : Solo(i, p) => Solo(i, p)'
    BY DEF Solo
  <2>3. Rests(i) => Rests(i)'
    BY DEF Rests
  <2>4. QED  BY <1>2, <2>1, <2>2, <2>3 DEF UnitInv
<1>3. QED  BY <1>1, <1>2 DEF LogicalInv

-----------------------------------------------------------------------------
LEMMA LogicalStep == KickInv /\ KickInv' /\ LogicalInv /\ [Next]_vars => LogicalInv'
<1> SUFFICES ASSUME KickInv, KickInv', LogicalInv, [Next]_vars PROVE LogicalInv'  OBVIOUS
<1>1. CASE ChangeCatalog
  BY <1>1, SameUnits DEF ChangeCatalog, markers, history
<1>2. CASE Reboot  BY <1>2, RebootUnits
<1>3. ASSUME NEW p \in Tasks, Run(p) PROVE LogicalInv'  BY <1>3, RunUnits
<1>4. ASSUME NEW p \in Tasks, Step(p) PROVE LogicalInv'
  <2>1. CASE Inspect(p)  BY <2>1, InspectUnits
  <2>2. CASE Choose(p)  BY <2>2, ChooseUnits
  <2>3. CASE MountMedium(p)  BY <2>3, MountMediumUnits
  <2>4. CASE StartHandler(p)  BY <2>4, StartHandlerUnits
  <2>5. CASE MarkStarted(p)  BY <2>5, MarkStartedUnits
  <2>6. CASE RecordLogical(p)  BY <2>6, RecordLogicalUnits
  <2>7. CASE Find(p)  BY <2>7, FindUnits
  <2>8. CASE Eject(p)  BY <2>8, EjectUnits
  <2>9. CASE Clear(p)  BY <2>9, ClearUnits
  <2>10. CASE Restore(p)  BY <2>10, RestoreUnits
  <2>11. CASE Validate(p)  BY <2>11, ValidateUnits
  <2>12. CASE StartBoot(p)  BY <2>12, StartBootUnits
  <2>13. CASE Finish(p)  BY <2>13, FinishUnits
  <2>14. QED
    BY <1>4, <2>1, <2>2, <2>3, <2>4, <2>5, <2>6, <2>7, <2>8, <2>9, <2>10, <2>11, <2>12, <2>13
    DEF Step
<1>5. CASE UNCHANGED vars
  BY <1>5, SameUnits DEF vars, markers, history
<1>6. QED  BY <1>1, <1>2, <1>3, <1>4, <1>5 DEF Next

(* The marker of a logical unit names the one endpoint the unit is mounted *)
(* on, whatever is mounted, ejected and booted by name or by unit.         *)
THEOREM LogicalUnitsTrue == Spec => []LogicalIsTrue
<1>1. KickInv /\ LogicalInv => LogicalIsTrue
  <2> SUFFICES ASSUME KickInv, LogicalInv, NEW i \in Logical, ~blurred[i],
                      \A p \in Tasks : job[p].at = "rest" \/ Index(job[p]) # i
               PROVE  /\ logical[i] # None => media[logical[i]] # None
                      /\ \A e \in Endpoints : owner[e] = i /\ media[e] # None => logical[i] = e
    BY DEF LogicalIsTrue
  <2>1. Rests(i)
    BY DEF LogicalInv, UnitInv, Busy
  <2>2. \A e \in Endpoints : owner[e] = i => IndexOf(e) = i
    BY DEF LogicalInv, OwnerInv
  <2>3. QED  BY <2>1, <2>2 DEF Rests
<1>2. QED  BY <1>1, LogicalInit, LogicalStep, KickAlways, PTL DEF Spec

=============================================================================

--------------------------- MODULE PagedTransfers ---------------------------
(***************************************************************************)
(* The loops by which the programs move what does not fit one exchange:    *)
(* fnsvc_list_directory (FLS), fdrive.c, and LIST, GET and PUT of fapp.c.  *)
(* Each asks for what comes after the items it has, until the service says *)
(* there is no more, or until nothing is left to send.                     *)
(*                                                                         *)
(* A directory, a mount table, a list of keys and a value are all          *)
(* sequences of items; other programs may change them between two          *)
(* exchanges.                                                              *)
(***************************************************************************)
EXTENDS Naturals, Sequences, SequencesExt, FiniteSets

CONSTANTS
  Items,        \* entries of a listing, bytes of a value
  PageSize,     \* most items in a reply
  ChunkSize,    \* most items in a write (CHUNK_SIZE)
  IndexMod,     \* values of a uint16_t
  MaxChanges    \* bound: changes by other programs

ASSUME TransfersAssumption ==
  /\ IsFiniteSet(Items) /\ PageSize \in Nat \ {0} /\ ChunkSize \in Nat \ {0}
  /\ IndexMod \in Nat /\ Cardinality(Items) < IndexMod /\ MaxChanges \in Nat

VARIABLES
  remote,    \* what the FujiNet has
  kind,      \* the loop that is running, or ran last
  start,     \* start, or offset
  value,     \* PUT: the argument
  left,      \* PUT: left
  given,     \* what was printed
  result,    \* "running", "ok" or "failed"
  changed,   \* history: another program changed `remote` meanwhile
  empty,     \* history: an empty reply was taken for the end
  changes,   \* number of changes so far
  parity     \* of the number of exchanges: one that achieves nothing is a step

vars == <<remote, kind, start, value, left, given, result, changed, empty, changes, parity>>

Listings == {"FLS", "FDRIVE", "FAPP_LIST"}
Readers == Listings \cup {"FAPP_GET"}
Kinds == Readers \cup {"FAPP_PUT"}

Contents == {s \in UNION {[1..n -> Items] : n \in 0..Cardinality(Items)} :
               \A i, j \in DOMAIN s : s[i] = s[j] => i = j}

Init ==
  /\ remote \in Contents
  /\ kind \in Kinds /\ start = 0 /\ value = <<>> /\ left = 0 /\ given = <<>>
  /\ result = "ok" /\ changed = TRUE /\ empty = FALSE /\ changes = 0
  /\ parity = 0

Start(k, v) ==
  /\ result # "running"
  /\ kind' = k /\ start' = 0 /\ given' = <<>> /\ result' = "running"
  /\ value' = v /\ left' = Len(v) % IndexMod
  /\ changed' = FALSE /\ empty' = FALSE
  /\ UNCHANGED <<remote, changes, parity>>

-----------------------------------------------------------------------------
(* Reading: n items from `start` on, and whether there are more.           *)
Reading == result = "running" /\ kind \in Readers
Available == IF start < Len(remote) THEN Len(remote) - start ELSE 0
PageOf(n) == SubSeq(remote, start + 1, start + n)
IsPage(n) == n <= PageSize /\ n <= Available

AdvanceToCount(n) == n
Advance(n) == IF kind = "FAPP_GET" THEN start + n ELSE (start + n) % IndexMod

ResultUnlessMore(n, more) == IF more THEN "running" ELSE "ok"
ResultOfPage(n, more) ==
  CASE ~more -> "ok"
    [] more /\ n > 0 -> "running"
    [] OTHER -> IF kind \in {"FLS", "FAPP_LIST"} THEN "failed" ELSE "ok"

GotPage(n) ==
  LET more == Available > n IN
  /\ Reading /\ IsPage(n)
  /\ given' = given \o PageOf(n)
  /\ start' = Advance(n)
  /\ result' = ResultOfPage(n, more)
  /\ empty' = (more /\ result' = "ok")
  /\ UNCHANGED <<remote, kind, value, left, changed, changes>>

(* A reply whose entries end early: those before are printed already.      *)
TornPage(n) ==
  /\ Reading /\ kind \in {"FLS", "FAPP_LIST"} /\ IsPage(n)
  /\ given' = given \o PageOf(n)
  /\ result' = "failed"
  /\ UNCHANGED <<remote, kind, start, value, left, changed, empty, changes>>

NoPage ==
  /\ Reading
  /\ result' = "failed"
  /\ UNCHANGED <<remote, kind, start, value, left, given, changed, empty, changes>>

-----------------------------------------------------------------------------
(* do_put.  The service takes the first n bytes of a chunk; a write at 0   *)
(* replaces the value.                                                     *)
Writing == result = "running" /\ kind = "FAPP_PUT"
Position == Len(value) - left
Written(n) ==
  LET chunk == SubSeq(value, Position + 1, Position + n)
      tail == IF start = 0 THEN <<>> ELSE SubSeq(remote, start + n + 1, Len(remote))
  IN SubSeq(remote, 1, start) \o chunk \o tail
IsWrite(n) == n <= ChunkSize /\ n <= left /\ start <= Len(remote)

ChunkTaken(n) == IF left < ChunkSize THEN left ELSE ChunkSize
Taken(n) == n

ResultOfWrite(n) ==
  CASE left = 0 -> "ok"
    [] left > 0 /\ n = 0 -> "failed"
    [] OTHER -> IF left = Taken(n) THEN "ok" ELSE "running"

Write(n) ==
  /\ Writing /\ IsWrite(n)
  /\ remote' = Written(n)
  /\ start' = start + Taken(n) /\ left' = left - Taken(n)
  /\ result' = ResultOfWrite(n)
  /\ UNCHANGED <<kind, value, given, changed, empty, changes>>

(* The exchange fails, the write done or not.                              *)
WriteFails(n) ==
  /\ Writing
  /\ \/ IsWrite(n) /\ remote' = Written(n)
     \/ remote' = remote
  /\ result' = "failed"
  /\ UNCHANGED <<kind, start, value, left, given, changed, empty, changes>>

-----------------------------------------------------------------------------
Other(contents) ==
  /\ changes < MaxChanges /\ contents # remote
  /\ remote' = contents /\ changed' = TRUE /\ changes' = changes + 1
  /\ UNCHANGED <<kind, start, value, left, given, result, empty, parity>>

Counts == 0..Cardinality(Items)
LoopStep ==
  /\ parity' = 1 - parity
  /\ \/ NoPage
     \/ \E n \in Counts : GotPage(n) \/ TornPage(n) \/ Write(n) \/ WriteFails(n)

Next ==
  \/ \E k \in Readers : Start(k, <<>>)
  \/ \E v \in Contents : Start("FAPP_PUT", v)
  \/ LoopStep
  \/ \E contents \in Contents : Other(contents)

(* An exchange returns, with a reply or without.                           *)
Spec == Init /\ [][Next]_vars /\ WF_vars(LoopStep)

-----------------------------------------------------------------------------
TypeOK ==
  /\ remote \in Seq(Items) /\ given \in Seq(Items) /\ value \in Contents
  /\ kind \in Kinds /\ start \in 0..Cardinality(Items) /\ left \in 0..Cardinality(Items)
  /\ result \in {"running", "ok", "failed"}
  /\ changed \in BOOLEAN /\ empty \in BOOLEAN /\ changes \in 0..MaxChanges
  /\ parity \in {0, 1}

(* Unless another program interfered, what was printed so far is what the  *)
(* FujiNet has up to there, each item once and in order; and a loop that   *)
(* reports success printed it all.  FDRIVE and FAPP GET also report        *)
(* success when a reply was empty although there was more.                 *)
PrintsAll ==
  kind \in Readers /\ ~changed =>
    /\ IsPrefix(given, remote)
    /\ result = "ok" /\ ~empty => given = remote

(* Unless another program interfered, PUT reports success when the value   *)
(* has been stored, all of it and nothing more, however little each write  *)
(* took.                                                                   *)
StoresAll == kind = "FAPP_PUT" /\ result = "ok" /\ ~changed => remote = value

(* The loops end, also with a service that never makes progress.           *)
LoopsEnd == result = "running" ~> result # "running"

=============================================================================

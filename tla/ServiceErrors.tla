--------------------------- MODULE ServiceErrors ---------------------------
(***************************************************************************)
(* What the service client (fnsvc.c) remembers of its calls for programs   *)
(* that ask afterwards why one failed: last_error, last_status and         *)
(* last_raw_error, and disk_last_error of the disk calls.  A call is one   *)
(* step; of a listing, what its last exchange leaves.                      *)
(***************************************************************************)
EXTENDS Naturals

CONSTANTS Reasons   \* FN_DISK_ERR_* codes a failure is explained with

VARIABLES
  errors,      \* last_error, last_status, last_raw_error
  diskError,   \* disk_last_error
  last,        \* history: the most recent call
  lastDisk     \* history: the most recent fnsvc_disk_*() call

errorVars == <<errors, diskError, last, lastDisk>>

DiskCalls == {"mount", "unmount", "list mounts", "restore boot"}
Catalog == {"get mount", "set mount"}
Others == {"list directory", "resolve path"}

(* Those that look into the reply, and those that keep its status.         *)
Parsing == Others \cup {"list mounts", "restore boot"}

(* How a call can end: refused before anything is sent, for its arguments  *)
(* or its size; no reply; a status, explained or not; a reply that makes   *)
(* no sense; success.                                                      *)
Outcomes(name) ==
  {"ok", "transport"}
    \cup (IF name \in {"unmount", "restore boot", "list mounts", "get mount"}
          THEN {"invalid"} ELSE {"invalid", "too large"})
    \cup (IF name \in Catalog THEN {} ELSE {"status"})
    \cup (IF name \in Parsing THEN {"bad reply"} ELSE {})

Call(name, outcome, reason) == [name |-> name, outcome |-> outcome, reason |-> reason]

ErrorsInit ==
  /\ errors = [error |-> "ok", status |-> 0, raw |-> 0] /\ diskError = "none"
  /\ last = Call("none", "ok", "none") /\ lastDisk = Call("none", "ok", "none")

-----------------------------------------------------------------------------
(* Who forgets the call before, and from which point on.                   *)
ForgetsOnlyInListing(call) ==
  call.name = "list directory" /\ call.outcome # "invalid"
Forgets(call) ==
  \/ call.name = "list directory" /\ call.outcome # "invalid"
  \/ call.name \in {"resolve path", "restore boot"}
     /\ call.outcome \notin {"invalid", "too large"}

Base(call) ==
  IF Forgets(call) THEN [error |-> "ok", status |-> 0, raw |-> 0] ELSE errors

Keeps(call) ==
  \/ call.outcome = "ok" \/ call.name \in {"mount", "unmount"}
  \/ call.outcome = "invalid" /\ call.name \in {"list mounts", "restore boot", "get mount"}

ErrorsAfter(call) ==
  LET base == Base(call)
      sent == call.outcome \notin {"invalid", "too large"}
      answered == sent /\ call.outcome # "transport"
  IN [error |-> IF Keeps(call) THEN base.error ELSE call.outcome,
      status |-> IF answered /\ call.name \in Parsing
                 THEN (IF call.outcome = "status" THEN 5 ELSE 0) ELSE base.status,
      raw |-> IF sent /\ call.name \notin Catalog
              THEN (IF call.outcome = "transport" THEN 7 ELSE 0) ELSE base.raw]

(* disk_result, where it is called.                                        *)
DiskErrorAfter(call) ==
  CASE call.name \notin DiskCalls \/ call.outcome \in {"invalid", "too large"} -> diskError
    [] call.outcome = "transport" -> "unreported"
    [] call.outcome \in {"ok", "bad reply"} -> "none"
    [] call.outcome = "status" -> call.reason

Make(call) ==
  /\ errors' = ErrorsAfter(call)
  /\ diskError' = DiskErrorAfter(call)
  /\ last' = call
  /\ lastDisk' = IF call.name \in DiskCalls THEN call ELSE lastDisk

ErrorsNext == \E name \in DiskCalls \cup Catalog \cup Others : \E outcome \in Outcomes(name) :
  IF outcome = "status" /\ name \in DiskCalls
  THEN \E reason \in Reasons \cup {"unreported"} : Make(Call(name, outcome, reason))
  ELSE Make(Call(name, outcome, "none"))

ErrorsSpec == ErrorsInit /\ [][ErrorsNext]_errorVars

-----------------------------------------------------------------------------
(* FLS and FBOOT print error, raw error and status of a failed call        *)
(* together: they never mix it with an earlier one.                        *)
PrintedTogether ==
  last.name \in {"list directory", "restore boot"} /\ last.outcome \notin {"ok", "invalid"} =>
    /\ errors.error = last.outcome
    /\ errors.status # 0 <=> last.outcome = "status"
    /\ errors.raw # 0 <=> last.outcome = "transport"

(* include/common/fnsvc.h:61-64 says of fnsvc_disk_last_error: it is "for  *)
(* the most recent fnsvc_disk_*() call: FN_DISK_ERR_NONE after success,    *)
(* the exact reason after a failure NIO explained, otherwise               *)
(* FN_DISK_ERR_UNREPORTED".                                                *)
DiskErrorAsDocumented ==
  CASE lastDisk.outcome = "ok" -> diskError = "none"
    [] lastDisk.outcome = "status" -> diskError = lastDisk.reason
    [] OTHER -> diskError = "unreported"

=============================================================================

----------------------------- MODULE ByteStreams -----------------------------
(***************************************************************************)
(* What the N: handler promises a CIO program about its network sessions,  *)
(* with no cache, no requests and no failures in sight: bytes taken from   *)
(* the program reach the body in order, a commit ends a body that is       *)
(* complete, bytes given to the program are those of the response in       *)
(* order, and what the program is told is so.                              *)
(***************************************************************************)
EXTENDS Naturals, Sequences

CONSTANTS
  Sessions,   \* the network sessions
  Bytes,      \* byte values
  Content     \* the response every session returns

VARIABLES taken, body, commits, given, told

vars == <<taken, body, commits, given, told>>

IsPrefix(p, q) == Len(p) <= Len(q) /\ p = SubSeq(q, 1, Len(p))

Init ==
  /\ taken = [h \in Sessions |-> <<>>]
  /\ body = [h \in Sessions |-> <<>>]
  /\ commits = [h \in Sessions |-> 0]
  /\ given = [h \in Sessions |-> <<>>]
  /\ told = [h \in Sessions |-> {}]

Take(h, b) ==
  /\ commits[h] = 0
  /\ taken' = [taken EXCEPT ![h] = Append(@, b)]
  /\ UNCHANGED <<body, commits, given, told>>

(* More of what was taken arrives.                                         *)
Grow(h) ==
  /\ commits[h] = 0
  /\ \E n \in Len(body[h])..Len(taken[h]) :
       body' = [body EXCEPT ![h] = SubSeq(taken[h], 1, n)]
  /\ UNCHANGED <<taken, commits, given, told>>

Commit(h) ==
  /\ commits[h] = 0 /\ body[h] = taken[h]
  /\ commits' = [commits EXCEPT ![h] = 1]
  /\ UNCHANGED <<taken, body, given, told>>

Give(h) ==
  /\ Len(given[h]) < Len(Content)
  /\ given' = [given EXCEPT ![h] = Append(@, Content[Len(@) + 1])]
  /\ UNCHANGED <<taken, body, commits, told>>

(* Doubt may be reported at any time.                                      *)
True(h) ==
  {"failed"} \cup (IF commits[h] = 1 THEN {"committed"} ELSE {})
    \cup (IF given[h] = Content THEN {"eof"} ELSE {})

Tell(h) ==
  /\ \E what \in SUBSET True(h) : told' = [told EXCEPT ![h] = @ \cup what]
  /\ UNCHANGED <<taken, body, commits, given>>

Next == \E h \in Sessions :
  (\E b \in Bytes : Take(h, b)) \/ Grow(h) \/ Commit(h) \/ Give(h) \/ Tell(h)

Spec == Init /\ [][Next]_vars

=============================================================================

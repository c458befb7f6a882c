---------------------------- MODULE HandlerTable ----------------------------
(***************************************************************************)
(* What the o65 installer promises the machine it runs on: seen from       *)
(* outside an installation is one step.  It takes the first empty slot of  *)
(* the handler table and the memory from the old MEMLO, or it changes      *)
(* nothing; it never adds an N: to a table that has one.                   *)
(***************************************************************************)
EXTENDS Naturals, Sequences

CONSTANTS
  BootTable,  \* the table after a reset: a sequence of [name, table]
  BootMemlo,  \* MEMLO after a reset
  Size,       \* memory the handler takes
  Ceiling,    \* end of the memory it may take
  Rom         \* where a handler in ROM has its table

VARIABLES table, memlo

vars == <<table, memlo>>

NoEntry == [name |-> "none", table |-> 0]
Even(a) == a + (a % 2)
IsFirstFree(s) == table[s] = NoEntry /\ \A t \in 1..(s - 1) : table[t] # NoEntry

Init == table = BootTable /\ memlo = BootMemlo

Install(s) ==
  /\ IsFirstFree(s)
  /\ \A t \in 1..s : table[t].name # "N"
  /\ Even(memlo) + Size <= Ceiling
  /\ table' = [table EXCEPT ![s] = [name |-> "N", table |-> Even(memlo) + 1]]
  /\ memlo' = Even(memlo) + Size

(* Any other program may install a handler of its own, in RAM or in ROM.   *)
Other(s) ==
  /\ IsFirstFree(s)
  /\ \E name \in {"N", "P"} :
       \/ /\ table' = [table EXCEPT ![s] = [name |-> name, table |-> memlo]]
          /\ memlo' = memlo + 1
       \/ /\ table' = [table EXCEPT ![s] = [name |-> name, table |-> Rom]]
          /\ memlo' = memlo

Reset == table' = BootTable /\ memlo' = BootMemlo

Next == (\E s \in 1..Len(BootTable) : Install(s) \/ Other(s)) \/ Reset

Spec == Init /\ [][Next]_vars

=============================================================================

------------------------------ MODULE MCNotify ------------------------------
(* Rounds of one, three and two bytes, then one again.           *)
EXTENDS Notify

EchoLengths == <<1, 3, 2>>
=============================================================================

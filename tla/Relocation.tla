----------------------------- MODULE Relocation -----------------------------
(***************************************************************************)
(* How the o65 installer relocates an image in place                       *)
(* (fnresident_o65_loader.s: relocate_segment, target_in_segment,          *)
(* word_in_segment and their calls in load_module): one step per record of *)
(* the TEXT and then the DATA relocation table, in the 8- and 16-bit       *)
(* arithmetic of the 6502, scaled to a byte of ByteSize values.            *)
(* The input is what the linker writes, operand by operand, for an image   *)
(* linked at address 0; the result must be the image it would have linked  *)
(* at `Base`.                                                              *)
(***************************************************************************)
EXTENDS Integers, Sequences

CONSTANTS
  ByteSize,    \* values of a byte (256)
  TextSize, DataSize,
  Base,        \* where the image is loaded (R_START)
  Zp,          \* where its zero page is (CC65_ZP)
  Values,      \* the linked addresses tried
  MaxOperands  \* relocations in one image

(* Addresses are two bytes wide.                                           *)
Word == ByteSize * ByteSize

ASSUME RelocationAssumption ==
  /\ ByteSize \in Nat \ {0, 1, 2} /\ TextSize \in Nat /\ DataSize \in Nat
  /\ Base \in 0..(Word - 1) /\ Zp \in 0..(ByteSize - 1) /\ Values \subseteq 0..(Word - 1)
  /\ Base + TextSize + DataSize < Word
  /\ MaxOperands \in Nat

VARIABLES
  operands,  \* the relocations the linker knows of in each segment, in order
  image,     \* the bytes of TEXT and DATA
  table,     \* the relocation table of each segment
  segment,   \* "linking", then the segment being relocated, "done" or "bad"
  consumed,  \* records read of the segment's table (src_ptr)
  offset     \* reloc_offset

relocationVars == <<operands, image, table, segment, consumed, offset>>

Segments == {"text", "data"}
Lo(w) == w % ByteSize
Hi(w) == w \div ByteSize
Size(s) == IF s = "text" THEN TextSize ELSE DataSize

(* reloc_ptr, as an index of the image: DATA follows TEXT.                 *)
RelocPtr(s) == IF s = "text" THEN 0 ELSE TextSize

-----------------------------------------------------------------------------
(* The linker.  An operand is a whole address, or its low or high byte, at *)
(* a place in a segment; it refers to the module or to the zero page.      *)
Operands == [place : 0..(TextSize + DataSize), kind : {"word", "low", "high"},
             target : {"module", "zp"}, value : Values]
Length(op) == IF op.kind = "word" THEN 2 ELSE 1
EndOf(op) == op.place + Length(op)
EndOfLast(ops) == IF ops = <<>> THEN 0 ELSE EndOf(ops[Len(ops)])

(* Byte k of an operand whose address is w.                                *)
Byte(op, w, k) == IF op.kind = "high" \/ k = 1 THEN Hi(w) ELSE Lo(w)

(* The image linked with the module and its zero page at these addresses.  *)
Resolved(op, module, zeropage) ==
  (op.value + (IF op.target = "module" THEN module ELSE zeropage)) % Word
Linked(ops, module, zeropage) == [a \in 0..(TextSize + DataSize - 1) |->
  LET s == IF a < TextSize THEN "text" ELSE "data"
      place == a - RelocPtr(s)
      Here == {i \in DOMAIN ops[s] : place \in ops[s][i].place..(EndOf(ops[s][i]) - 1)}
      op == ops[s][CHOOSE i \in Here : TRUE]
  IN IF Here = {} THEN a % ByteSize
     ELSE Byte(op, Resolved(op, module, zeropage), place - op.place)]

(* Its tables: distances from the operand before, from -1 at first, with   *)
(* distances too large for a byte reduced by skips.                        *)
Skip == [skip |-> TRUE, delta |-> 0, kind |-> "word", target |-> "module", low |-> 0]
EntryFor(op, distance) == [skip |-> FALSE, delta |-> distance, kind |-> op.kind,
                           target |-> op.target, low |-> Lo(op.value)]
PlaceOfLast(ops) == IF ops = <<>> THEN -1 ELSE ops[Len(ops)].place
Skips(distance) == (distance - 1) \div (ByteSize - 2)
RecordsFor(op, distance) ==
  [k \in 1..Skips(distance) |-> Skip]
    \o <<EntryFor(op, distance - Skips(distance) * (ByteSize - 2))>>

RelocationInit ==
  /\ operands = [s \in Segments |-> <<>>] /\ table = [s \in Segments |-> <<>>]
  /\ image = Linked(operands, 0, 0)
  /\ segment = "linking" /\ consumed = 0 /\ offset = Word - 1

LinkOperand(s, op) ==
  /\ segment = "linking"
  /\ Len(operands["text"]) + Len(operands["data"]) < MaxOperands
  /\ EndOfLast(operands[s]) <= op.place /\ EndOf(op) <= Size(s)
  /\ operands' = [operands EXCEPT ![s] = Append(@, op)]
  /\ table' = [table EXCEPT ![s] = @ \o RecordsFor(op, op.place - PlaceOfLast(operands[s]))]
  /\ image' = Linked(operands', 0, 0)
  /\ UNCHANGED <<segment, consumed, offset>>

-----------------------------------------------------------------------------
(* load_module and relocate_segment.                                       *)
InSegment(at, length) == (at + length - 1) % Word < Size(segment)

Value(target) == IF target = "module" THEN Base ELSE Zp

(* The high byte also gets the carry out of the low one, which is kept in  *)
(* the record.                                                             *)
HighWithoutCarry(byte, low, value) == (byte + Hi(value)) % ByteSize
High(byte, low, value) ==
  LET carry == (low + Lo(value)) \div ByteSize
  IN (byte + Hi(value) + carry) % ByteSize

Patched(record, at) ==
  LET value == Value(record.target)
      low == (image[at] + Lo(value)) % ByteSize
  IN CASE record.kind = "low" -> [image EXCEPT ![at] = low]
       [] record.kind = "high" -> [image EXCEPT ![at] = High(image[at], record.low, value)]
       [] record.kind = "word" ->
            [image EXCEPT ![at] = low, ![at + 1] = High(image[at + 1], image[at], value)]

StartOf(s) ==
  /\ segment' = s /\ consumed' = 0 /\ offset' = Word - 1
  /\ UNCHANGED <<operands, image, table>>

LoadModule == segment = "linking" /\ StartOf("text")

Relocating == segment \in Segments /\ consumed < Len(table[segment])
Record == table[segment][consumed + 1]

(* A skip moves on by one less than its code says.                         *)
SkipBy(at) == (at + ByteSize - 2) % Word

SkipAhead ==
  /\ Relocating /\ Record.skip
  /\ offset' = SkipBy(offset) /\ consumed' = consumed + 1
  /\ UNCHANGED <<operands, image, table, segment>>

Relocate ==
  LET at == (offset + Record.delta) % Word IN
  /\ Relocating /\ ~Record.skip
  /\ IF InSegment(at, Length(Record))
     THEN /\ image' = Patched(Record, RelocPtr(segment) + at)
          /\ segment' = segment
     ELSE image' = image /\ segment' = "bad"
  /\ offset' = at /\ consumed' = consumed + 1
  /\ UNCHANGED <<operands, table>>

EndOfTable ==
  /\ segment \in Segments /\ ~Relocating
  /\ StartOf(IF segment = "text" THEN "data" ELSE "done")

RelocationNext ==
  \/ \E s \in Segments, op \in Operands : LinkOperand(s, op)
  \/ LoadModule \/ SkipAhead \/ Relocate \/ EndOfTable

RelocationSpec == RelocationInit /\ [][RelocationNext]_relocationVars

-----------------------------------------------------------------------------
(* Relocating in place gives exactly what linking for the load address     *)
(* would have given, byte for byte, whatever carries, distances and        *)
(* segment ends are met; and no record of the linker's is refused.         *)
RelocatesAsLinked ==
  /\ segment # "bad"
  /\ segment = "done" => image = Linked(operands, Base, Zp)

=============================================================================

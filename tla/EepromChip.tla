----------------------------- MODULE EepromChip -----------------------------
(***************************************************************************)
(* What the cartridge EEPROM promises on its three wires, with no state    *)
(* machine: bits written to DI accumulate into a frame (a start bit, two   *)
(* opcode bits, the address, and for the write commands a data word); the  *)
(* write that completes a frame carries the command out at once.  A READ   *)
(* queues a zero and then the word, most significant bit first, for DO,    *)
(* and only a clock moves that queue.                                      *)
(***************************************************************************)
EXTENDS Naturals, Sequences

CONSTANTS AddrBits, DataBits

VARIABLES
    ram,      \* the words
    enabled,  \* writes and erases are carried out
    busy,     \* the next sample of DO reads busy
    frame,    \* the bits of the frame being written
    out,      \* what DO has still to present of a READ
    do        \* what the last sample of DO returned

vars == <<ram, enabled, busy, frame, out, do>>

Bit  == {0, 1}
Addr == 0 .. 2^AddrBits - 1
Word == 0 .. 2^DataBits - 1

INSTANCE EepromCommands WITH Blank <- 2^DataBits - 1

\* The low n bits of a number, the most significant first, and the number a
\* sequence of bits stands for.
LowBits(v, n) == [i \in 1 .. n |-> (v \div 2^(n - i)) % 2]
Value(bits) == CHOOSE v \in 0 .. 2^Len(bits) - 1 : LowBits(v, Len(bits)) = bits

\* Any first write is taken as the start bit.
Shifted(f, b) == IF f = <<>> THEN <<1>> ELSE Append(f, b)

Header == 3 + AddrBits
Opcode(f) == Value(SubSeq(f, 2, 3))
Address(f) == Value(SubSeq(f, 4, Header))
Data(f) == Value(SubSeq(f, Header + 1, Header + DataBits))
Special(f) == Value(SubSeq(f, 4, 5))

Decoded(f) ==
    CASE Opcode(f) = 0 /\ Special(f) = 0 -> [op |-> "EWDS"]
      [] Opcode(f) = 0 /\ Special(f) = 1 -> [op |-> "WRAL", d |-> Data(f)]
      [] Opcode(f) = 0 /\ Special(f) = 2 -> [op |-> "ERAL"]
      [] Opcode(f) = 0 /\ Special(f) = 3 -> [op |-> "EWEN"]
      [] Opcode(f) = 1 -> [op |-> "WRITE", a |-> Address(f), d |-> Data(f)]
      [] Opcode(f) = 2 -> [op |-> "READ", a |-> Address(f)]
      [] Opcode(f) = 3 -> [op |-> "ERASE", a |-> Address(f)]

TakesData(f) == Opcode(f) = 1 \/ (Opcode(f) = 0 /\ Special(f) = 1)

Complete(f) ==
    /\ Len(f) >= Header
    /\ TakesData(f) => Len(f) = Header + DataBits

----------------------------------------------------------------------------
Deselected(e) ==
    /\ enabled' = e
    /\ busy' = FALSE
    /\ frame' = <<>>
    /\ out' = <<>>

Init ==
    /\ ram = [a \in Addr |-> 2^DataBits - 1]
    /\ enabled = FALSE
    /\ busy = FALSE
    /\ frame = <<>>
    /\ out = <<>>
    /\ do = 1

Clock ==
    /\ out # <<>>
    /\ out' = Tail(out)
    /\ UNCHANGED <<ram, enabled, busy, frame, do>>

Collect(b) ==
    /\ out = <<>>
    /\ ~Complete(Shifted(frame, b))
    /\ frame' = Shifted(frame, b)
    /\ busy' = FALSE
    /\ UNCHANGED <<ram, enabled, out, do>>

Execute(b) ==
    /\ out = <<>>
    /\ Complete(Shifted(frame, b))
    /\ LET cmd == Decoded(Shifted(frame, b)) IN
         /\ ram' = Programmed(ram, enabled, cmd)
         /\ enabled' = EnabledAfter(enabled, cmd)
         /\ busy' = BusyAfter(cmd)
         /\ out' = IF cmd.op = "READ"
                   THEN <<0>> \o LowBits(ram[cmd.a], DataBits) ELSE <<>>
    /\ frame' = <<>>
    /\ UNCHANGED do

Sample ==
    /\ do' = IF busy THEN 0 ELSE IF out # <<>> THEN Head(out) ELSE 1
    /\ busy' = FALSE
    /\ UNCHANGED <<ram, enabled, frame, out>>

Select == Deselected(TRUE) /\ UNCHANGED <<ram, do>>
Reset  == Deselected(FALSE) /\ UNCHANGED <<ram, do>>

Next ==
    \/ Clock
    \/ \E b \in Bit : Collect(b) \/ Execute(b)
    \/ Sample
    \/ Select
    \/ Reset

Spec == Init /\ [][Next]_vars
=============================================================================

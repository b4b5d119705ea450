------------------------------- MODULE Eeprom -------------------------------
(***************************************************************************)
(* The serial state machine of src/jerry/eeprom.c: one action per          *)
(* access the guest can make to it.  A write of $F14800 is a bit on DI, a  *)
(* read of it a clock, a read of $F14000 a sample of DO, and any access to *)
(* $F15000 selects the chip.  The states the C switch only passes through  *)
(* inside one call (EE_STATE_0, EE_STATE_0_0, ...) are the operators that  *)
(* call enters; jerry_ee_rstate says which one a finished field enters.    *)
(***************************************************************************)
EXTENDS Naturals, Sequences

CONSTANTS AddrBits, DataBits       \* 6 and 16 in the code

\* jerry_ee_address_data and jerry_ee_data are uint16_t.
ASSUME WidthAssumption == AddrBits \in 2 .. 16 /\ DataBits \in 1 .. 16

VARIABLES
    ram,      \* eeprom_ram
    ee,       \* the jerry_ee_* variables and jerry_writes_enabled
    do,       \* what the last read of $F14000 returned
    locked    \* history: the last of EWEN and EWDS carried out was EWDS

eepromVars == <<ram, ee, do, locked>>

Bit  == {0, 1}
Addresses == 0 .. 2^AddrBits - 1
Words == 0 .. 2^DataBits - 1
Erased == 2^DataBits - 1

Idle(enabled, jump) ==
    [state |-> "START", op |-> 0, rstate |-> "none",
     addr |-> 0, addrCnt |-> AddrBits, data |-> 0, dataCnt |-> DataBits,
     enabled |-> enabled, jump |-> jump]

EepromInit ==
    /\ ram = [a \in Addresses |-> Erased]
    /\ ee = Idle(FALSE, FALSE)
    /\ do = 1
    /\ locked = FALSE

----------------------------------------------------------------------------
(* eeprom_set_di on a chip e with memory r: the chip and memory it leaves. *)

Left(e, r) == [ee |-> e, ram |-> r]

\* A write or an erase: carried out if enabled, busy either way.
Program(e, r, to) ==
    Left([e EXCEPT !.state = "BUSY"], IF e.enabled THEN to ELSE r)

\* EE_STATE_1_0 and EE_STATE_0_0_1: a data word follows.
ReadData(e, r, then) ==
    Left([e EXCEPT !.rstate = then, !.state = "READ_DATA",
                   !.dataCnt = DataBits, !.data = 0, !.jump = TRUE], r)

\* EE_STATE_0_0: the top two address bits choose the command.
Extended(e, r) ==
    LET which == (e.addr \div 2^(AddrBits - 2)) % 4 IN
    CASE which = 0 -> Left([e EXCEPT !.enabled = FALSE, !.state = "START"], r)
      [] which = 1 -> ReadData(e, r, "WRAL")
      [] which = 2 -> Program(e, r, [a \in Addresses |-> Erased])
      [] which = 3 -> Left([e EXCEPT !.enabled = TRUE, !.state = "START"], r)

\* The state a finished field enters, entered by the same bit when the
\* direct-jump flag is set.
Enter(e, r) ==
    IF ~e.jump THEN Left([e EXCEPT !.state = e.rstate], r)
    ELSE CASE e.rstate = "EXTENDED" -> Extended(e, r)
           [] e.rstate = "WRITE"    -> ReadData(e, r, "WRITE_DATA")
           [] e.rstate = "ERASE"    -> Program(e, r, [r EXCEPT ![e.addr] = Erased])
           [] e.rstate = "WRITE_DATA" ->
                  Program(e, r, [r EXCEPT ![e.addr] = e.data])
           [] e.rstate = "WRAL"     -> Program(e, r, [a \in Addresses |-> e.data])
           [] e.rstate = "READ_OUT" -> Left([e EXCEPT !.state = "READ_OUT"], r)

\* The second opcode bit: EE_STATE_0 to EE_STATE_3, entered by that bit.
\* EE_STATE_2 (READ) alone leaves the jump flag clear, and readies the data
\* count instead.
Opcode(e, bit) ==
    LET op == e.op + bit IN
    [e EXCEPT !.op = op,
              !.state = "READ_ADDRESS",
              !.rstate = <<"EXTENDED", "WRITE", "READ_OUT", "ERASE">>[op + 1],
              !.addrCnt = AddrBits,
              !.addr = 0,
              !.jump = op # 2,
              !.dataCnt = IF op = 2 THEN DataBits ELSE @,
              !.data = IF op = 2 THEN 0 ELSE @]

Clocked(e) ==
    IF e.state # "READ_OUT" THEN e
    ELSE IF e.dataCnt > 0 THEN [e EXCEPT !.dataCnt = @ - 1]
    ELSE [e EXCEPT !.state = "START"]

AddressBit(e, r, bit) ==
    LET f == [e EXCEPT !.addr = (2 * @ + bit) % 2^16, !.addrCnt = @ - 1] IN
    IF f.addrCnt = 0 THEN Enter(f, r) ELSE Left(f, r)

DataBit(e, r, bit) ==
    LET f == [e EXCEPT !.data = (2 * @ + bit) % 2^16, !.dataCnt = @ - 1] IN
    IF f.dataCnt = 0 THEN Enter(f, r) ELSE Left(f, r)

SetDi(e, r, bit) ==
    CASE e.state \in {"START", "BUSY"} -> Left([e EXCEPT !.state = "OP_A"], r)
      [] e.state = "OP_A" ->
             Left([e EXCEPT !.op = 2 * bit, !.state = "OP_B"], r)
      [] e.state = "OP_B" -> Left(Opcode(e, bit), r)
      [] e.state = "READ_ADDRESS" -> AddressBit(e, r, bit)
      [] e.state = "READ_DATA" -> DataBit(e, r, bit)
      [] e.state = "READ_OUT" -> Left(Clocked(e), r)

GetDo(e, r) ==
    CASE e.state = "BUSY" -> 0
      [] e.state = "READ_OUT" ->
             IF e.dataCnt >= DataBits THEN 0
             ELSE (r[e.addr] \div 2^e.dataCnt) % 2
      [] OTHER -> 1

\* Mutant: a sample of DO shifts a bit out, as the code once did.
SampledShifting(e) ==
    IF e.state = "BUSY" THEN [e EXCEPT !.state = "START"] ELSE Clocked(e)

Sampled(e) == IF e.state = "BUSY" THEN [e EXCEPT !.state = "START"] ELSE e

----------------------------------------------------------------------------
(* The accesses of the guest. *)

\* A write of $F14800, whose low bit is DI.
WriteDi(bit) ==
    LET after == SetDi(ee, ram, bit) IN
    /\ ee' = after.ee
    /\ ram' = after.ram
    /\ locked' = IF ee.state = "READ_ADDRESS" /\ after.ee.state = "START"
                  THEN ~after.ee.enabled ELSE locked
    /\ UNCHANGED do

\* A read of $F14800 clocks the output shifter.
ReadClock ==
    /\ ee' = Clocked(ee)
    /\ UNCHANGED <<ram, do, locked>>

\* A read of $F14000: the same register as the joystick, so a joystick poll
\* samples DO too.
ReadDo ==
    /\ do' = GetDo(ee, ram)
    /\ ee' = Sampled(ee)
    /\ UNCHANGED <<ram, locked>>

\* Any access to $F15000.
SetCs ==
    /\ ee' = Idle(TRUE, ee.jump)
    /\ UNCHANGED <<ram, do, locked>>

EepromReset ==
    /\ ee' = Idle(FALSE, FALSE)
    /\ locked' = FALSE
    /\ UNCHANGED <<ram, do>>

EepromNext ==
    \/ \E bit \in Bit : WriteDi(bit)
    \/ ReadClock
    \/ ReadDo
    \/ SetCs
    \/ EepromReset

EepromSpec == EepromInit /\ [][EepromNext]_eepromVars

----------------------------------------------------------------------------
(* Properties. *)

\* The type of the state: the counters never leave their fields' widths and
\* the address never leaves eeprom_ram (eeprom_set_di indexes the array with
\* jerry_ee_address_data unchecked).
EepromTypeOK ==
    /\ ram \in [Addresses -> Words]
    /\ ee \in [state : {"START", "OP_A", "OP_B", "READ_ADDRESS", "READ_DATA",
                        "READ_OUT", "BUSY"},
               op : 0 .. 3,
               rstate : {"none", "EXTENDED", "WRITE", "WRITE_DATA", "WRAL",
                         "READ_OUT", "ERASE"},
               addr : Addresses, addrCnt : 0 .. AddrBits,
               data : Words, dataCnt : 0 .. DataBits,
               enabled : BOOLEAN, jump : BOOLEAN]
    /\ do \in Bit
    /\ locked \in BOOLEAN

\* The low n bits of a number, the most significant first.
Bits(v, n) == [i \in 1 .. n |-> (v \div 2^(n - i)) % 2]

\* The state machine of eeprom.c implements the chip: however CS, DI, clock
\* and DO accesses interleave, a command is carried out exactly when its
\* frame is complete and with the bits that were written, and the samples of
\* DO give the addressed word however often DO is read in between (a
\* joystick poll in the middle of a READ steals no bit).
FrameOf ==
    CASE ee.state = "OP_A" -> <<1>>
      [] ee.state = "OP_B" -> <<1, ee.op \div 2>>
      [] ee.state = "READ_ADDRESS" ->
             <<1>> \o Bits(ee.op, 2) \o Bits(ee.addr, AddrBits - ee.addrCnt)
      [] ee.state = "READ_DATA" ->
             <<1>> \o Bits(ee.op, 2) \o Bits(ee.addr, AddrBits)
                   \o Bits(ee.data, DataBits - ee.dataCnt)
      [] OTHER -> <<>>

OutOf ==
    IF ee.state # "READ_OUT" THEN <<>>
    ELSE LET left == Bits(ram[ee.addr], DataBits)
         IN IF ee.dataCnt = DataBits THEN <<0>> \o left
            ELSE SubSeq(left, DataBits - ee.dataCnt, DataBits)

Chip == INSTANCE EepromChip WITH
            enabled <- ee.enabled,
            busy <- ee.state = "BUSY",
            frame <- FrameOf,
            out <- OutOf

ImplementsChip == Chip!Spec

\* "writes disable (read only)": from an EWDS to the next EWEN the part takes
\* no write.  eeprom_set_cs sets jerry_writes_enabled, so the chip select
\* that opens the next command undoes the EWDS.
DisabledIsReadOnly == locked => ~ee.enabled
=============================================================================

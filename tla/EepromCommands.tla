--------------------------- MODULE EepromCommands ---------------------------
(***************************************************************************)
(* The seven commands of the cartridge's serial EEPROM (NM93C14) as        *)
(* src/jerry/eeprom.c carries them out: what a complete command does       *)
(* to the words and to the write enable, whether the part reports busy     *)
(* afterwards, and whether the core is told that its save buffer is stale. *)
(***************************************************************************)
CONSTANTS
    Addr,     \* addresses of eeprom_ram
    Word,     \* values of a word
    Blank     \* an erased word: 0xFFFF

Commands ==
    [op : {"WRITE"}, a : Addr, d : Word] \cup [op : {"WRAL"}, d : Word]
        \cup [op : {"READ", "ERASE"}, a : Addr]
        \cup [op : {"ERAL", "EWEN", "EWDS"}]

\* Writing and erasing are silently ignored while writes are disabled.
Programmed(ram, enabled, cmd) ==
    IF ~enabled THEN ram
    ELSE CASE cmd.op = "WRITE" -> [ram EXCEPT ![cmd.a] = cmd.d]
           [] cmd.op = "WRAL"  -> [a \in Addr |-> cmd.d]
           [] cmd.op = "ERASE" -> [ram EXCEPT ![cmd.a] = Blank]
           [] cmd.op = "ERAL"  -> [a \in Addr |-> Blank]
           [] OTHER            -> ram

EnabledAfter(enabled, cmd) ==
    \/ cmd.op = "EWEN"
    \/ cmd.op # "EWDS" /\ enabled

BusyAfter(cmd) == cmd.op \in {"WRITE", "WRAL", "ERASE", "ERAL"}

\* Mutant: WRAL does not call EEPROMSave.
NotifiesWriteOnly(enabled, cmd) == enabled /\ cmd.op = "WRITE"

\* EEPROMSave is called for WRITE and WRAL only: neither erase calls it.
Notifies(enabled, cmd) == enabled /\ cmd.op \in {"WRITE", "WRAL"}
=============================================================================

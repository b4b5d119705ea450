------------------------------ MODULE SaveRam ------------------------------
(***************************************************************************)
(* Persistent memory, from the guest's write to the file the frontend      *)
(* keeps and back: the cartridge EEPROM (src/jerry/eeprom.c, command       *)
(* by command; Eeprom shows that its bits make these commands), the CD     *)
(* unit's EEPROM (src/cd/cdrom.c), the Memory Track flash                  *)
(* (src/core/memtrack.c), and the save buffer, dirty flag and              *)
(* first-frame unpack of libretro.c.                                       *)
(*                                                                         *)
(* A frontend fills the buffer from its file once, right after             *)
(* retro_load_game, and writes the file from the buffer between frames and *)
(* before retro_unload_game.                                               *)
(*                                                                         *)
(* What it is given is decided by the checksum of the last ROM image read, *)
(* which outlives the title it belongs to.                                 *)
(*                                                                         *)
(* SaveInit, SaveNext, SaveSpec and SaveTypeOK carry the component's name: *)
(* SaveMemoryProofs extends this module beside NvmBios.                    *)
(***************************************************************************)
EXTENDS Naturals

CONSTANTS
    Addr,       \* addresses of a bank
    Word,       \* values of a word
    Zero,       \* the word 0x0000
    Blank,      \* the word 0xFFFF
    Factory,    \* contents CDROMReset gives the CD unit's EEPROM
    NoSave,     \* the frontend has no save file
    NoImage,    \* no savestate has been taken
    Contents,   \* kinds of content: "cart", "cd", "mtcart"
    CommandData, \* data of command writes: "AA", "55", "90", "A0", "F0", "other"
    MaxSessions, \* bound: retro_load_game calls
    MaxImages    \* bound: savestates taken

INSTANCE EepromCommands

ASSUME SaveRamAssumption ==
    /\ Contents \subseteq {"cart", "cd", "mtcart"}
    /\ Factory \in [Addr -> Word] /\ {Zero, Blank} \subseteq Word
    /\ LET Bytes == [Addr -> Word] IN
          NoSave \notin [ee : Bytes] \cup [mt : Bytes] \cup [ee : Bytes, cd : Bytes, mt : Bytes]

VARIABLES
    content,    \* "none", "cart", "cd", or "mtcart" (the Memory Track cartridge)
    mtRom,      \* jaguarMainROMCRC32 is that of the Memory Track cartridge
    inFrame,    \* inside retro_run
    eeprom,     \* [ram, enabled]: eeprom_ram, jerry_writes_enabled
    cdRam,      \* cdrom_eeprom_ram
    mt,         \* [mem, state, cmd, override]: memtrack.c
    buf,        \* [ee, cd, mt]: eeprom_save_buf
    mtDirty,    \* mt_save_buf_dirty
    unpack,     \* save_data_needs_unpack
    fresh,      \* [ee, mt]: ~eeprom_initialized, ~mt_initialized
    file,       \* the save file the frontend keeps for each kind of content
    image,      \* the savestate the frontend keeps
    sessions,   \* retro_load_game calls so far
    images,     \* savestates taken so far
    strays,     \* history: what moved a bank and not the buffer since they agreed
    matched     \* history: length of the unlock prefix the last command writes form

machine == <<eeprom, cdRam, mt, matched>>
buffer  == <<buf, mtDirty, unpack>>
session == <<content, mtRom, fresh, sessions>>
outside == <<file, image, images>>
saveVars == <<machine, buffer, session, outside, inFrame, strays>>

Bank == [Addr -> Word]
Filled(w) == [a \in Addr |-> w]
Buffer == [ee : Bank, cd : Bank, mt : Bank]
EmptyBuffer == [ee |-> Filled(Zero), cd |-> Filled(Zero), mt |-> Filled(Zero)]

----------------------------------------------------------------------------
(* The save buffer. *)

\* eeprom_pack_save_buf, behind eeprom_dirty_cb.
Packed(b, e, c, m) ==
    [ee |-> e, cd |-> c, mt |-> IF content = "cd" THEN m ELSE b.mt]

\* mt_flush_save_buf.
Flush(b, dirty) == IF dirty THEN [b EXCEPT !.mt = mt.mem] ELSE b

\* What the frontend reads through retro_get_memory_data/_size: the flash
\* itself if the ROM is the Memory Track cartridge's, otherwise the flushed
\* buffer, of which cartridge content exposes the EEPROM bank alone.
Exposed(b) ==
    CASE mtRom                        -> [mt |-> mt.mem]
      [] ~mtRom /\ content = "cd"     -> b
      [] ~mtRom /\ content = "cart"   -> [ee |-> b.ee]

\* The files as large as the memory the frontend is given for a title.
Given(c, rom) ==
    CASE rom                -> [mt : Bank]
      [] ~rom /\ c = "cd"   -> Buffer
      [] ~rom /\ c # "cd"   -> [ee : Bank]

\* The memory of the machine that a title of this kind saves.
Machine ==
    CASE content = "mtcart" -> [mt |-> mt.mem]
      [] content = "cd"     -> [ee |-> eeprom.ram, cd |-> cdRam, mt |-> mt.mem]
      [] content = "cart"   -> [ee |-> eeprom.ram]

----------------------------------------------------------------------------
(* Sessions. *)

SaveInit ==
    /\ content = "none"
    /\ mtRom = FALSE
    /\ inFrame = FALSE
    /\ eeprom = [ram |-> Filled(Zero), enabled |-> FALSE]
    /\ cdRam = Filled(Zero)
    /\ mt = [mem |-> Filled(Zero), state |-> "IDLE", cmd |-> "NONE", override |-> FALSE]
    /\ buf = EmptyBuffer
    /\ mtDirty = FALSE
    /\ unpack = FALSE
    /\ fresh = [ee |-> TRUE, mt |-> TRUE]
    /\ file = [c \in Contents |-> NoSave]
    /\ image = NoImage
    /\ sessions = 0
    /\ images = 0
    /\ strays = {}
    /\ matched = 0

\* MTReset keeps the flash and forgets the command.
MTReset(m) == [mem |-> m.mem, state |-> "IDLE", cmd |-> "NONE", override |-> FALSE]

\* file.c takes the checksum of every cartridge image; a CD, whichever way it
\* boots, reads none and keeps the last one.
RomAfter(c) == IF c = "cd" THEN mtRom ELSE c = "mtcart"

\* retro_load_game: MTInit, EepromInit (on the paths that read a cartridge
\* image), JaguarReset; then the frontend copies its file, if it has one,
\* into the memory it was given.  Of a file of another size it copies the head,
\* which puts no bank where it was: `misfit` is what it comes to.
LoadGame(c, misfit) ==
    /\ content = "none"
    /\ sessions < MaxSessions
    /\ sessions' = sessions + 1
    /\ content' = c
    /\ mtRom' = RomAfter(c)
    /\ eeprom' = [ram |-> IF fresh.ee /\ c # "cd" THEN Filled(Blank) ELSE eeprom.ram,
                  enabled |-> FALSE]
    /\ cdRam' = Factory
    /\ LET saved == file[c] # NoSave
           read  == IF file[c] \in Given(c, RomAfter(c)) THEN file[c] ELSE misfit
       IN /\ mt' = [MTReset(mt) EXCEPT
                       !.mem = IF saved /\ RomAfter(c) THEN read.mt
                               ELSE IF fresh.mt THEN Filled(Blank) ELSE @]
          /\ buf' = CASE ~saved \/ RomAfter(c)               -> buf
                      [] saved /\ ~RomAfter(c) /\ c = "cd"   -> read
                      [] saved /\ ~RomAfter(c) /\ c # "cd"   -> [buf EXCEPT !.ee = read.ee]
    /\ fresh' = [ee |-> fresh.ee /\ c = "cd", mt |-> FALSE]
    /\ unpack' = TRUE
    /\ matched' = 0
    /\ UNCHANGED <<inFrame, mtDirty, outside, strays>>

\* The frontend writes its file from the memory retro_get_memory_data gives.
FrontendSaves ==
    /\ content # "none" /\ ~inFrame
    /\ buf' = IF mtRom THEN buf ELSE Flush(buf, mtDirty)
    /\ mtDirty' = (mtRom /\ mtDirty)
    /\ file' = [file EXCEPT ![content] = Exposed(buf')]
    /\ UNCHANGED <<machine, unpack, session, image, images, inFrame, strays>>

\* Mutant: the buffer keeps the title's data.
UnloadGameKeepingBuffer ==
    /\ content # "none" /\ ~inFrame
    /\ content' = "none"
    /\ mtDirty' = FALSE
    /\ unpack' = FALSE
    /\ fresh' = [ee |-> TRUE, mt |-> TRUE]
    /\ strays' = {}
    /\ UNCHANGED <<machine, buf, outside, mtRom, sessions, inFrame>>

\* retro_unload_game (JERRYDone, then the buffer is zeroed).  The checksum stays.
UnloadGame ==
    /\ content # "none" /\ ~inFrame
    /\ content' = "none"
    /\ buf' = EmptyBuffer
    /\ mtDirty' = FALSE
    /\ unpack' = FALSE
    /\ fresh' = [ee |-> TRUE, mt |-> TRUE]
    /\ strays' = {}
    /\ UNCHANGED <<machine, outside, mtRom, sessions, inFrame>>

\* Mutant: the unpack forgets the Memory Track.
UnpackedEeproms(b) == [ee |-> b.ee, cd |-> b.cd, mt |-> mt.mem]

\* eeprom_unpack_save_buf: what the three banks become.
Unpacked(b) ==
    [ee |-> b.ee, cd |-> b.cd, mt |-> IF content = "cd" THEN b.mt ELSE mt.mem]

\* retro_run up to the emulation: the first one unpacks the buffer.
BeginFrame ==
    /\ content # "none" /\ ~inFrame
    /\ inFrame' = TRUE
    /\ LET fill == unpack /\ ~mtRom
           banks == IF fill THEN Unpacked(buf)
                    ELSE [ee |-> eeprom.ram, cd |-> cdRam, mt |-> mt.mem]
       IN /\ eeprom' = [eeprom EXCEPT !.ram = banks.ee]
          /\ cdRam' = banks.cd
          /\ mt' = [mt EXCEPT !.mem = banks.mt]
          /\ strays' = IF fill THEN {} ELSE strays
    /\ unpack' = FALSE
    /\ UNCHANGED <<matched, buf, mtDirty, session, outside>>

\* The end of retro_run: at most one copy of the flash per frame.
EndFrame ==
    /\ inFrame
    /\ inFrame' = FALSE
    /\ buf' = Flush(buf, mtDirty)
    /\ mtDirty' = FALSE
    /\ UNCHANGED <<machine, unpack, session, outside, strays>>

\* retro_reset: CDROMReset gives the CD unit's EEPROM its factory contents.
Reset ==
    /\ content # "none" /\ ~inFrame
    /\ eeprom' = [eeprom EXCEPT !.enabled = FALSE]
    /\ mt' = MTReset(mt)
    /\ cdRam' = Factory
    /\ matched' = 0
    /\ strays' = strays \cup {"reset"}
    /\ UNCHANGED <<buffer, session, outside, inFrame>>

\* retro_serialize and retro_unserialize of the current layout, possible from
\* the moment the game is loaded.  The buffer is not part of a state.
Serialize ==
    /\ content # "none" /\ ~inFrame
    /\ images < MaxImages
    /\ images' = images + 1
    /\ image' = [content |-> content, eeprom |-> eeprom, cdRam |-> cdRam,
                 mt |-> mt, matched |-> matched]
    /\ UNCHANGED <<machine, buffer, session, file, inFrame, strays>>

Unserialize ==
    /\ content # "none" /\ ~inFrame
    /\ image # NoImage /\ image.content = content
    /\ eeprom' = image.eeprom
    /\ cdRam' = image.cdRam
    /\ mt' = image.mt
    /\ matched' = image.matched
    /\ strays' = strays \cup {"load"}
    /\ UNCHANGED <<buffer, session, outside, inFrame>>

----------------------------------------------------------------------------
(* The guest, inside a frame. *)

\* The strobe of $F15000 that opens every command.
EepromSelect ==
    /\ inFrame
    /\ eeprom' = [eeprom EXCEPT !.enabled = TRUE]
    /\ UNCHANGED <<cdRam, mt, matched, buffer, session, outside, inFrame, strays>>

\* A complete command; EEPROMSave packs the buffer behind the ones that call it.
EepromCommand(cmd) ==
    /\ inFrame
    /\ LET ram == Programmed(eeprom.ram, eeprom.enabled, cmd)
           packs == Notifies(eeprom.enabled, cmd)
       IN /\ eeprom' = [ram |-> ram, enabled |-> EnabledAfter(eeprom.enabled, cmd)]
          /\ buf' = IF packs THEN Packed(buf, ram, cdRam, mt.mem) ELSE buf
          /\ mtDirty' = (mtDirty /\ ~(packs /\ content = "cd"))
          /\ strays' = CASE packs -> {}
                         [] eeprom.enabled /\ cmd.op \in {"ERASE", "ERAL"} -> strays \cup {"erase"}
                         [] OTHER -> strays
    /\ UNCHANGED <<cdRam, mt, matched, unpack, session, outside, inFrame>>

\* The ninth bit of an ERASE on the CD unit's EEPROM.  Its WRITE collects the
\* data word and stores nothing, so ERASE is the only command that changes it.
CDErase(a) ==
    /\ inFrame /\ content = "cd"
    /\ cdRam' = [cdRam EXCEPT ![a] = Blank]
    /\ strays' = strays \cup {"erase"}
    /\ UNCHANGED <<eeprom, mt, matched, buffer, session, outside, inFrame>>

\* MEMTRACK_PRESENT().
MemTrackPresent == content = "cd" \/ mtRom

Registers == {1, 2}      \* MT_CMD_UNLOCK1 and MT_CMD_UNLOCK2

MTStateMachine(m, reg, data) ==
    CASE m.state = "IDLE" ->
             [m EXCEPT !.state = IF reg = 1 /\ data = "AA" THEN "PHASE1" ELSE "IDLE"]
      [] m.state = "PHASE1" ->
             [m EXCEPT !.state = IF reg = 2 /\ data = "55" THEN "PHASE2" ELSE "IDLE"]
      [] m.state = "PHASE2" ->
             [m EXCEPT !.state = "IDLE",
                       !.cmd = IF reg # 1 THEN @
                               ELSE CASE data = "90" -> "PROD_ID"
                                      [] data = "A0" -> "WRITE_ENABLE"
                                      [] OTHER -> "NONE"]

\* A write, word or byte, to one of the two command addresses.
MTCommandWrite(reg, data) ==
    /\ inFrame /\ MemTrackPresent
    /\ mt' = [MTStateMachine(mt, reg, data) EXCEPT
                 !.override = @ \/ (reg = 2 /\ data = "55")]
    /\ matched' = CASE reg = 1 /\ data = "AA" -> 1
                    [] reg = 2 /\ data = "55" /\ matched = 1 -> 2
                    [] OTHER -> 0
    /\ UNCHANGED <<eeprom, cdRam, buffer, session, outside, inFrame, strays>>

\* A write to the $900000 window lands only in a part that was unlocked.
MTDataWrite(a, w) ==
    /\ inFrame /\ MemTrackPresent
    /\ mt.cmd = "WRITE_ENABLE"
    /\ mt' = [mt EXCEPT !.mem[a] = w]
    /\ mtDirty' = TRUE
    /\ UNCHANGED <<eeprom, cdRam, matched, buf, unpack, session, outside,
                   inFrame, strays>>

\* The NVM BIOS services write the flash directly and mark it dirty.
NVMBiosWrite(a, w) ==
    /\ inFrame /\ content = "cd"
    /\ mt' = [mt EXCEPT !.mem[a] = w]
    /\ mtDirty' = TRUE
    /\ UNCHANGED <<eeprom, cdRam, matched, buf, unpack, session, outside,
                   inFrame, strays>>

SaveNext ==
    \/ \E c \in Contents, misfit \in Buffer : LoadGame(c, misfit)
    \/ FrontendSaves \/ UnloadGame
    \/ BeginFrame \/ EndFrame
    \/ Reset \/ Serialize \/ Unserialize
    \/ EepromSelect
    \/ \E cmd \in Commands : EepromCommand(cmd)
    \/ \E a \in Addr : CDErase(a)
    \/ \E reg \in Registers, data \in CommandData : MTCommandWrite(reg, data)
    \/ \E a \in Addr, w \in Word : MTDataWrite(a, w) \/ NVMBiosWrite(a, w)

SaveSpec == SaveInit /\ [][SaveNext]_saveVars

----------------------------------------------------------------------------
(* Properties. *)

\* The type of the state; each kind of content has a file of its own shape, but that
\* a CD title's may have been written as the Memory Track cartridge's.
SaveTypeOK ==
    /\ content \in Contents \cup {"none"} /\ mtRom \in BOOLEAN
    /\ eeprom \in [ram : Bank, enabled : BOOLEAN]
    /\ cdRam \in Bank
    /\ mt \in [mem : Bank, state : {"IDLE", "PHASE1", "PHASE2"},
               cmd : {"NONE", "PROD_ID", "WRITE_ENABLE"}, override : BOOLEAN]
    /\ buf \in Buffer
    /\ \A c \in Contents :
           file[c] \in {NoSave} \cup CASE c = "cart"   -> [ee : Bank]
                                      [] c = "cd"     -> Buffer \cup [mt : Bank]
                                      [] c = "mtcart" -> [mt : Bank]
    /\ inFrame => content # "none" /\ ~unpack

\* A CD title that the core takes for the Memory Track cartridge: one was open before
\* it in this process, and no cartridge since.
Mistaken == content = "cd" /\ mtRom

\* Between frames, what the frontend would write to its file is what the
\* machine holds, unless an erase, a state load or a reset moved a bank since
\* the buffer was last packed: eeprom_dirty_cb and the once-per-frame flush
\* miss nothing else, whatever the order of EEPROM, flash and NVM writes and
\* whatever titles came before, but for a mistaken one.
BufferAgrees ==
    content # "none" /\ ~inFrame /\ ~unpack /\ strays = {} /\ ~Mistaken => Exposed(buf) = Machine

\* The first retro_run of a session.
FirstFrame == unpack /\ ~inFrame /\ inFrame'

\* The save file reaches the machine: the first frame of a session begins with
\* exactly the contents of the file (save_data_needs_unpack), whatever was
\* reset or loaded before it; only the flash of the Memory Track cartridge,
\* which is not unpacked, may come from a state instead.  A title that is not
\* mistaken is given its file, if no mistaken session wrote it to another size.
FileReachesMachine ==
    [][FirstFrame /\ ~Mistaken /\ file[content] \in Given(content, mtRom)
         => \/ Machine' = file[content]
            \/ content = "mtcart" /\ "load" \in strays]_saveVars

\* Nothing of one title reaches the next: a first frame without a save file
\* finds every bank blank, zero or as from the factory (retro_unload_game and
\* the *_initialized flags, which must stand in for unloading the core).  The
\* ROM's checksum does reach it, and with it a mistaken title the EEPROM of the
\* last one (StartsClean).
NothingLeaks ==
    [][FirstFrame /\ file[content] = NoSave
         => \/ /\ eeprom'.ram \in {Filled(Blank), Filled(Zero)} \/ Mistaken
               /\ cdRam' \in {Factory, Filled(Zero)}
               /\ mt'.mem \in {Filled(Blank), Filled(Zero)}
            \/ mtRom /\ "load" \in strays]_saveVars

\* "Reset all module state so a subsequent retro_load_game in the same process ...
\* starts clean" (libretro.c, retro_unload_game): a title without a save file
\* starts with an EEPROM of its own.
StartsClean ==
    [][FirstFrame /\ file[content] = NoSave /\ strays = {}
         => eeprom'.ram \in {Filled(Blank), Filled(Zero)}]_saveVars

\* The flash takes a command only as the third of three consecutive command
\* writes that spell the unlock sequence.
CommandNeedsUnlock ==
    [][inFrame /\ inFrame' /\ mt'.cmd # mt.cmd => matched = 2]_saveVars

\* "the buffer is always up-to-date for frontends that cache the pointer"
\* (libretro.c, eeprom_pack_save_buf).  ERASE and ERAL change eeprom_ram
\* without EEPROMSave.
SaveBufferInSync == content = "cart" /\ ~unpack => buf.ee = eeprom.ram

\* A consumer that asks for the memory "never reads a stale 128 KB tail"
\* (libretro.c, retro_get_memory_data).  MTStateLoad replaces the flash
\* without marking the buffer dirty.
NeverStaleTail ==
    content = "cd" /\ ~inFrame /\ ~unpack => Flush(buf, mtDirty).mt = mt.mem

\* "On first init (power-on), fill EEPROM with 0xFF (blank state).  The frontend
\* will overwrite this ... if a save file exists" (eeprom.c, EepromInit).
\* The first frame unpacks the buffer whether or not a file filled it.
BlankWithoutFile ==
    [][FirstFrame /\ file[content] = NoSave /\ content = "cart"
         => eeprom'.ram = Filled(Blank)]_saveVars
=============================================================================

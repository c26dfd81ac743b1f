------------------------------ MODULE Bootloader ------------------------------
(***************************************************************************)
(* What happens between a reset and the application: the serial bootloader *)
(* (rp2040-serial-bootloader/main.c), which checks the image and jumps to  *)
(* it or takes commands of the host, and the check for a double tap of the *)
(* reset button at the start of the application (double_tap.cpp).          *)
(*                                                                         *)
(* Sector 0 of the flash holds the image header, each of the others a part *)
(* of the image.  What a header seals, and what a sector holds, is a       *)
(* version; anything that is of no version, a sector interrupted while it  *)
(* was erased or programmed for one, is junk.  A CRC is what it is taken   *)
(* of.                                                                     *)
(***************************************************************************)
EXTENDS Naturals

CONSTANTS
    Versions,   \* of the application
    Sectors     \* of the image, 1..Sectors

ASSUME BootloaderAssumption ==
    /\ Versions # {} /\ Versions \cap {"blank", "junk"} = {}
    /\ Sectors \in Nat \ {0}

Contents == Versions \cup {"blank", "junk"}

VARIABLES
    stage,      \* of the chip
    flash,      \* contents of the header sector and of the image
    toErase,    \* sectors flash_range_erase has still to erase
    sealing,    \* the version whose header handle_seal is about to program
    scratch,    \* the watchdog scratch registers hold BOOTLOADER_ENTRY_MAGIC
    armed       \* RAM holds the magic token of the double tap

loader == <<stage, flash, toErase, sealing, scratch, armed>>

\* The whole image is of version v.
Intact(v) == \A i \in 1..Sectors : flash[i] = v

BInit ==
    /\ stage = "reset"
    /\ \E v \in Versions : flash = [i \in 0..Sectors |-> v]
    /\ toErase = {} /\ sealing = "blank"
    /\ scratch = FALSE /\ armed = FALSE

-----------------------------------------------------------------------------
(* main, up to the command loop.                                           *)

\* Slip: any header is good enough.
HeaderPresent == flash[0] \in Versions

\* image_header_ok of what is in flash.
HeaderOk == flash[0] \in Versions /\ Intact(flash[0])

\* Where what is in flash leads to.
Jump(otherwise) ==
    /\ stage' = IF \E v \in Versions : Intact(v) THEN "application" ELSE otherwise
    /\ UNCHANGED <<flash, toErase, sealing, scratch, armed>>

Boot ==
    /\ stage = "reset"
    /\ ~scratch /\ HeaderOk
    /\ Jump("crashed")

Stay ==
    /\ stage = "reset"
    /\ scratch \/ ~HeaderOk
    /\ stage' = "wait_for_sync"
    /\ UNCHANGED <<flash, toErase, sealing, scratch, armed>>

\* The SERIAL_BOOT pin is held low.
BootHeld ==
    /\ stage = "reset"
    /\ stage' = "wait_for_sync"
    /\ UNCHANGED <<flash, toErase, sealing, scratch, armed>>

-----------------------------------------------------------------------------
(* The commands of the host.  SYNC, READ, CSUM, CRCC and INFO change       *)
(* nothing else.  An error is answered with ERR! and waits for SYNC.       *)

Sync ==
    /\ stage = "wait_for_sync"
    /\ stage' = "read_opcode"
    /\ UNCHANGED <<flash, toErase, sealing, scratch, armed>>

Error ==
    /\ stage = "read_opcode"
    /\ stage' = "wait_for_sync"
    /\ UNCHANGED <<flash, toErase, sealing, scratch, armed>>

\* From the header sector on; the range is erased sector by sector.
Erase(first, last) ==
    /\ stage = "read_opcode"
    /\ toErase' = first..last
    /\ stage' = "erasing"
    /\ UNCHANGED <<flash, sealing, scratch, armed>>

EraseSector ==
    /\ stage = "erasing"
    /\ \E i \in toErase :
          /\ \A j \in toErase : i =< j
          /\ flash' = [flash EXCEPT ![i] = "blank"]
          /\ toErase' = toErase \ {i}
    /\ stage' = IF toErase' = {} THEN "read_opcode" ELSE "erasing"
    /\ UNCHANGED <<sealing, scratch, armed>>

\* Programming clears bits: over something else it leaves neither.
Programmed(old, new) == IF old \in {"blank", new} THEN new ELSE "junk"

\* The header sector cannot be written.  The data may arrive garbled.
Write(i, data) ==
    /\ stage = "read_opcode"
    /\ flash' = [flash EXCEPT ![i] = Programmed(@, data)]
    /\ UNCHANGED <<stage, toErase, sealing, scratch, armed>>

\* handle_seal checks the image against the header it is given, then erases the
\* header sector and programs it.
Seal(v) ==
    /\ stage = "read_opcode"
    /\ IF Intact(v) THEN /\ sealing' = v
                         /\ flash' = [flash EXCEPT ![0] = "blank"]
                         /\ stage' = "programming"
       ELSE stage' = "wait_for_sync" /\ UNCHANGED <<flash, sealing>>
    /\ UNCHANGED <<toErase, scratch, armed>>

ProgramHeader ==
    /\ stage = "programming"
    /\ flash' = [flash EXCEPT ![0] = Programmed(@, sealing)]
    /\ stage' = IF flash'[0] = sealing THEN "read_opcode" ELSE "wait_for_sync"
    /\ sealing' = "blank"
    /\ UNCHANGED <<toErase, scratch, armed>>

\* GOGO jumps without looking at the image.
Go == stage = "read_opcode" /\ Jump("adrift")

\* do_reboot, back to the bootloader or not.
Reboot(toBootloader) ==
    /\ stage = "read_opcode"
    /\ scratch' = toBootloader
    /\ stage' = "reset"
    /\ UNCHANGED <<flash, toErase, sealing, armed>>

-----------------------------------------------------------------------------
(* The application starts.                                                 *)

\* boot_double_tap_check, armed for 500 ms.
Arm ==
    /\ stage = "application"
    /\ stage' = IF armed THEN "usb" ELSE "arming"
    /\ armed' = ~armed
    /\ UNCHANGED <<flash, toErase, sealing, scratch>>

\* Slip: the token is left in place.
LeaveArmed ==
    /\ stage = "arming"
    /\ stage' = "running"
    /\ UNCHANGED <<flash, toErase, sealing, scratch, armed>>

Disarm ==
    /\ stage = "arming"
    /\ stage' = "running"
    /\ armed' = FALSE
    /\ UNCHANGED <<flash, toErase, sealing, scratch>>

\* The sector under work is neither what it was nor what it was to be.
Interrupted ==
    /\ toErase' = {} /\ sealing' = "blank"
    /\ \/ stage = "erasing" /\ \E i \in toErase :
            (\A j \in toErase : i =< j) /\ flash' = [flash EXCEPT ![i] = "junk"]
       \/ stage = "programming" /\ flash' = [flash EXCEPT ![0] = "junk"]
       \/ UNCHANGED flash

\* Power fails: RAM is lost.
LosePower ==
    /\ Interrupted
    /\ stage' = "reset" /\ scratch' = FALSE /\ armed' = FALSE

\* The reset button: RAM stays, except for what the bootloader uses.
PressReset ==
    /\ Interrupted
    /\ stage' = "reset" /\ scratch' = FALSE /\ armed' \in {armed, FALSE}

Host ==
    \/ Sync \/ Error
    \/ \E first, last \in 0..Sectors : first =< last /\ Erase(first, last)
    \/ \E i \in 1..Sectors, data \in Versions \cup {"junk"} : Write(i, data)
    \/ \E v \in Versions : Seal(v)
    \/ Go
    \/ \E b \in BOOLEAN : Reboot(b)

Chip == Boot \/ Stay \/ EraseSector \/ ProgramHeader \/ Arm \/ Disarm

BTypeOK ==
    /\ stage \in {"reset", "wait_for_sync", "read_opcode", "erasing", "programming",
                  "application", "arming", "running", "usb", "crashed", "adrift"}
    /\ flash \in [0..Sectors -> Contents]
    /\ toErase \subseteq 0..Sectors
    /\ sealing \in Versions \cup {"blank"}
    /\ scratch \in BOOLEAN /\ armed \in BOOLEAN

=============================================================================

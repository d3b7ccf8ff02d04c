------------------------------- MODULE AtaBus -------------------------------
(***************************************************************************)
(* A command of the polling ATA driver and the drive that answers it.  The *)
(* bus is locked and interrupts are disabled during a command, so the only *)
(* other actor is the drive.  A loop on the status port is a step that is  *)
(* enabled when the loop ends.  The kernel only uses drive 0 of bus 0.     *)
(***************************************************************************)
EXTENDS Integers, Sequences

CONSTANTS
  BYTE,          \* the number of values of an 8-bit register
  NIBBLE,        \* the number of values of the address bits in the drive register
  WORDS,         \* the number of words in a block (256)
  DRIVE_BLOCKS   \* the number of blocks of the drive

ASSUME AtaAssumption == /\ {BYTE, NIBBLE, WORDS} \subseteq Nat \ {0}
                        /\ DRIVE_BLOCKS \in 1 .. BYTE * BYTE * BYTE * NIBBLE

VARIABLES
  device,        \* what is attached: "None", "Pata" or "Sata"
  status,        \* the status register, a set of flags
  regs,          \* the four address registers
  cmd,           \* the command register
  pc,            \* where the driver is in the command, or "idle"
  words,         \* the words read so far
  block,         \* the address of the block in the buffer
  reply          \* the result of the last command

busVars == <<device, status, regs, cmd, pc, words, block, reply>>

BusInit ==
  /\ device \in {"None", "Pata", "Sata"}
  /\ status = IF device = "None" THEN {} ELSE {"READY"}
  /\ regs = <<0, 0, 0, 0>>
  /\ cmd = "none"
  /\ pc = "idle"
  /\ words = 0
  /\ block = 0
  /\ reply = "none"

(* The address in the registers, as the drive reads them. *)
Address == regs[1] + BYTE * (regs[2] + BYTE * (regs[3] + BYTE * regs[4]))

(* write_command writes the bytes of the address and the command. *)
write_command(lba, c) ==
  /\ regs' = << lba % BYTE, (lba \div BYTE) % BYTE, (lba \div (BYTE * BYTE)) % BYTE,
                (lba \div (BYTE * BYTE * BYTE)) % NIBBLE >>
  /\ cmd' = c
  /\ status' = IF device = "None" THEN {} ELSE {"BUSY"}
  /\ pc' = "sent"
  /\ words' = 0
  /\ reply' = "none"
  /\ UNCHANGED <<device, block>>

Goto(from, to) ==
  /\ pc = from /\ pc' = to
  /\ UNCHANGED <<device, status, regs, cmd, words, block, reply>>

(* The end of a command.  What the registers hold is forgotten: they are   *)
(* written before they are used again.                                     *)
End(from, result) ==
  /\ pc = from /\ pc' = "idle"
  /\ reply' = result
  /\ regs' = <<0, 0, 0, 0>>
  /\ cmd' = "none"
  /\ words' = 0
  /\ UNCHANGED <<device, status>>

Fail(from, error) == End(from, error) /\ UNCHANGED block

(* An empty status means that there is no drive. *)
sent ==
  \/ status = {} /\ Fail("sent", "UnknownDevice")
  \/ status # {} /\ Goto("sent", "busy")

poll_busy == "BUSY" \notin status /\ Goto("busy", "check")

check_skipped == Goto("check", "drq")

check ==
  \/ "ERROR" \in status /\ Fail("check", "InvalidOperation")
  \/ "ERROR" \notin status /\ Goto("check", "drq")

poll_drq == "BUSY" \notin status /\ "DRQ" \in status /\ Goto("drq", "data")

(* identify_drive reads the data of a PATA drive only. *)
not_pata ==
  /\ cmd = "IdentifyDevice" /\ device # "Pata"
  /\ Fail("data", "NotPata")

(* read_data, once for each word.  The drive stops requesting after the    *)
(* last one, and may report an error then.                                 *)
read_data ==
  /\ pc = "data" /\ words < WORDS
  /\ cmd = "IdentifyDevice" => device = "Pata"
  /\ words' = words + 1
  /\ \/ words' < WORDS /\ UNCHANGED <<status, pc>>
     \/ /\ words' = WORDS
        /\ pc' = "after"
        /\ status' \in {{"READY"}, {"READY", "ERROR"}}
  /\ UNCHANGED <<device, regs, cmd, block, reply>>

(* The end of read_pio: an error after the transfer fails the command.     *)
(* identify_drive does not look at the status again.                       *)
after ==
  \/ cmd = "ReadPio" /\ "ERROR" \in status /\ Fail("after", "ReadError")
  \/ /\ cmd = "ReadPio" => "ERROR" \notin status
     /\ End("after", "Ok")
     /\ block' = Address

Driver == sent \/ poll_busy \/ check \/ poll_drq \/ not_pata \/ read_data \/ after

(* The drive ends a command with data or with an error: an error for an    *)
(* address past its end, for data it cannot read, or for a command it does *)
(* not have.                                                               *)
answer ==
  /\ "BUSY" \in status
  /\ \/ Address < DRIVE_BLOCKS /\ status' = {"READY", "DRQ"}
     \/ status' = {"READY", "ERROR"}
  /\ UNCHANGED <<device, regs, cmd, pc, words, block, reply>>
=============================================================================

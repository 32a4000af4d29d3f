------------------------------- MODULE AtaPio -------------------------------
(***************************************************************************)
(* ata_read_sectors of src/drivers/ata.c against an LBA28 drive.  The       *)
(* driver polls: it never looks at the error bits of the status register.  *)
(* A register byte holds 0..Byte - 1, and a transfer of Byte sectors is     *)
(* asked for with a count of 0.  One sector is one value of memory.        *)
(***************************************************************************)
EXTENDS Integers

CONSTANTS
    Byte,           \* 256
    Nibble,         \* 16, the part of HDDEV that carries address bits
    lba,            \* the first sector to read
    sector_count,   \* how many
    Unreliable      \* sectors the drive may be unable to read

DiskSize == Nibble * Byte * Byte * Byte

ASSUME AtaAssumption ==
    /\ Byte \in Nat \ {0} /\ Nibble \in Nat \ {0}
    /\ lba \in Nat /\ sector_count \in Nat
    /\ lba + sector_count <= DiskSize

VARIABLES
    pc,             \* "ready", "busy", "drq" (which loop polls) or "done"
    sectors_read,
    chunk,
    s,              \* sectors of the chunk read so far
    buffer,         \* sectors stored so far
    memory,         \* what they are: [0.. -> the number of a sector of the disk]
    regs,           \* the task file registers
    status,         \* of the drive: "idle", "busy", "drq" or "error"
    next,           \* the drive's: the sector it delivers next
    left,           \* the drive's: how many it has still to deliver
    bad             \* the sectors it cannot read

driverVars == <<pc, sectors_read, chunk, s, buffer, memory>>
driveVars == <<regs, status, next, left, bad>>
vars == <<driverVars, driveVars>>

Init ==
    /\ pc = IF sector_count = 0 THEN "done" ELSE "ready"
    /\ sectors_read = 0
    /\ chunk = 0
    /\ s = 0
    /\ buffer = 0
    /\ memory = [i \in 0..sector_count - 1 |-> -1]
    /\ regs = [hddev |-> 0, lba2 |-> 0, lba1 |-> 0, lba0 |-> 0, seccount |-> 0]
    /\ status = "idle"
    /\ next = 0
    /\ left = 0
    /\ bad \in SUBSET Unreliable

-----------------------------------------------------------------------------
(* The driver.                                                             *)

ChunkSize == IF sector_count - sectors_read > Byte THEN Byte
                                                   ELSE sector_count - sectors_read
CurrentLba == lba + sectors_read

\* The count register wraps.
CountByte(count) == IF count = Byte THEN 0 ELSE count

\* The registers as the driver writes them ...
TaskFile(addr, count) ==
    [hddev    |-> (addr \div (Byte * Byte * Byte)) % Nibble,
     lba2     |-> (addr \div (Byte * Byte)) % Byte,
     lba1     |-> (addr \div Byte) % Byte,
     lba0     |-> addr % Byte,
     seccount |-> CountByte(count)]

\* ... and as the drive reads them.
AddressIn(r) == ((r.hddev * Byte + r.lba2) * Byte + r.lba1) * Byte + r.lba0
CountIn(r) == IF r.seccount = 0 THEN Byte ELSE r.seccount

\* Wait for BSY to clear, then write the registers and READ SECTORS; the drive
\* is busy at once.
SendCommand ==
    /\ pc = "ready"
    /\ status # "busy"
    /\ chunk' = ChunkSize
    /\ s' = 0
    /\ regs' = TaskFile(CurrentLba, ChunkSize)
    /\ next' = AddressIn(regs')
    /\ left' = CountIn(regs')
    /\ status' = "busy"
    /\ pc' = "busy"
    /\ UNCHANGED <<sectors_read, buffer, memory, bad>>

\* Mutant: the driver waits for the drive to be idle.
IdleWait == status = "idle"

BusyCleared == status # "busy"

NotBusy ==
    /\ pc = "busy"
    /\ BusyCleared
    /\ pc' = "drq"
    /\ UNCHANGED <<sectors_read, chunk, s, buffer, memory, driveVars>>

DataReady == status = "drq"

\* Wait for DRQ, then take one sector from the data port; the drive goes on to
\* the next one.  After the last one of the chunk the outer loop turns.
ReadSector ==
    /\ pc = "drq"
    /\ DataReady
    /\ memory' = [memory EXCEPT ![buffer] = next]
    /\ buffer' = buffer + 1
    /\ s' = s + 1
    /\ IF s' < chunk
       THEN /\ pc' = "busy"
            /\ UNCHANGED sectors_read
       ELSE /\ sectors_read' = sectors_read + chunk
            /\ pc' = IF sectors_read' < sector_count THEN "ready" ELSE "done"
    /\ next' = next + 1
    /\ left' = left - 1
    /\ status' = IF left' = 0 THEN "idle" ELSE "busy"
    /\ UNCHANGED <<chunk, regs, bad>>

-----------------------------------------------------------------------------
(* The drive.                                                              *)

DeliverSector ==
    /\ status = "busy"
    /\ next \notin bad
    /\ status' = "drq"
    /\ UNCHANGED <<driverVars, regs, next, left, bad>>

\* ERR or DF: the command is over.
FailSector ==
    /\ status = "busy"
    /\ next \in bad
    /\ status' = "error"
    /\ left' = 0
    /\ UNCHANGED <<driverVars, regs, next, bad>>

Driver == SendCommand \/ NotBusy \/ ReadSector
Drive == DeliverSector \/ FailSector

Next == Driver \/ Drive

Spec == Init /\ [][Next]_vars

=============================================================================

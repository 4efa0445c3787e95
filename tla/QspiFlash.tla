------------------------------ MODULE QspiFlash ------------------------------
(***************************************************************************)
(* QspiFlashDevice of the RP2350: the region for credentials at the end of *)
(* the flash chip, its placement behind the firmware, and erasing and      *)
(* programming through the boot ROM, a page at a time, with the power gone *)
(* inside any of it.                                                       *)
(*                                                                         *)
(* A cell stands for a byte, its value for whether its bits are still set: *)
(* erasing sets a cell and programming can only clear one (NOR).           *)
(***************************************************************************)
EXTENDS Naturals, Sequences, FiniteSetsExt

CONSTANTS SectorSize,   \* 4096 in the code
          PageSize,     \* 256 in the code
          RegionLen,    \* 128 KiB in the code
          Sizes,        \* chip sizes FLASH_DEVINFO may report, 0 for unknown
          Images,       \* sizes of the firmware image
          MaxLen,       \* bound: cells programmed by one call
          None

ConstantsOK ==
    /\ PageSize \in Nat \ {0} /\ SectorSize \in Nat \ {0} /\ SectorSize % PageSize = 0
    /\ RegionLen \in Nat /\ MaxLen \in Nat /\ Sizes \subseteq Nat /\ Images \subseteq Nat

VARIABLES total, fw_end,    \* the chip and the image on it
          rom,              \* whether the ROM table has the flash functions
          region,           \* region_base and capacity of an opened device, or None
          cells,            \* the chip's contents
          op,               \* the call in progress or the last one, or None
          before            \* ghost: the contents when that call began

vars == <<total, fw_end, rom, region, cells, op, before>>

Calls == [kind : {"erase", "program"}, offset : Nat, data : Seq(BOOLEAN), written : Nat,
          status : {"busy", "ok", "refused", "failed", "cut"}]

TypeOK ==
    /\ cells \in [0 .. total - 1 -> BOOLEAN] /\ before \in [0 .. total - 1 -> BOOLEAN]
    /\ region = None \/ region.base + region.capacity = total
    /\ op # None => op \in Calls /\ op.written <= Len(op.data)

Init ==
    /\ total \in Sizes /\ fw_end \in {n \in Images : n <= total} /\ rom \in BOOLEAN
    /\ region = None /\ op = None
    /\ cells = [a \in 0 .. total - 1 |-> a >= fw_end \/ a % 2 = 0] /\ before = cells

----------------------------------------------------------------------------
\* region_for: half the flash at most, in whole sectors, at least two of them.
capacity_for(size) == (Min({RegionLen, size \div 2}) \div SectorSize) * SectorSize
region_for(size) ==
    IF capacity_for(size) < 2 * SectorSize THEN None
    ELSE [base |-> size - capacity_for(size), capacity |-> capacity_for(size)]

\* open: refused for an unknown chip, a small one, or a region the image reaches.
open ==
    /\ region = None
    /\ region_for(total) # None /\ region_for(total).base > fw_end
    /\ region' = region_for(total)
    /\ UNCHANGED <<total, fw_end, rom, cells, op, before>>

Idle == region # None /\ (op # None => op.status # "busy")
Call(kind, offset, data, status) ==
    /\ op' = [kind |-> kind, offset |-> offset, data |-> data, written |-> 0, status |-> status]
    /\ before' = cells
    /\ UNCHANGED <<total, fw_end, rom, region, cells>>

erase_sector(sector) ==
    /\ Idle
    /\ Call("erase", sector * SectorSize, <<>>,
            CASE (sector + 1) * SectorSize > region.capacity -> "refused"
              [] (sector + 1) * SectorSize <= region.capacity /\ ~rom -> "failed"
              [] OTHER -> "busy")

program(offset, data) ==
    /\ Idle
    /\ Call("program", offset, data,
            CASE offset + Len(data) > region.capacity -> "refused"
              [] offset + Len(data) <= region.capacity /\ data = <<>> -> "ok"
              [] offset + Len(data) <= region.capacity /\ data # <<>> /\ ~rom -> "failed"
              [] OTHER -> "busy")

Busy(kind) == op # None /\ op.status = "busy" /\ op.kind = kind

\* The absolute addresses of the sector or of the page the call is at.
Sector == region.base + op.offset .. region.base + op.offset + SectorSize - 1
page_start == ((op.offset + op.written) \div PageSize) * PageSize
Page == region.base + page_start .. region.base + page_start + PageSize - 1

\* How much of the data lies in this page.
take_mutant == Min({PageSize, Len(op.data) - op.written})
take == Min({page_start + PageSize - (op.offset + op.written), Len(op.data) - op.written})

\* page_buf: the page as read through XIP, with the data over it.
page_buf ==
    [a \in Page |->
        LET i == a - region.base - op.offset + 1
        IN  IF i \in op.written + 1 .. op.written + take THEN op.data[i] ELSE cells[a]]

\* window_exec: the ROM clears bits, or sets those of a sector; under a loss of power
\* it has done so in part.
Programmed(done) == [a \in DOMAIN cells |-> IF a \in done THEN cells[a] /\ page_buf[a] ELSE cells[a]]

ProgramPage ==
    /\ Busy("program")
    /\ cells' = Programmed(Page)
    /\ op' = [op EXCEPT !.written = @ + take,
                        !.status = IF op.written + take = Len(op.data) THEN "ok" ELSE "busy"]
    /\ UNCHANGED <<total, fw_end, rom, region, before>>

Erase ==
    /\ Busy("erase")
    /\ cells' = [a \in DOMAIN cells |-> cells[a] \/ a \in Sector]
    /\ op' = [op EXCEPT !.status = "ok"]
    /\ UNCHANGED <<total, fw_end, rom, region, before>>

PowerLoss ==
    /\ \/ Busy("program") /\ \E done \in SUBSET Page : cells' = Programmed(done)
       \/ Busy("erase") /\ \E set \in SUBSET Sector :
             cells' = [a \in DOMAIN cells |-> IF a \in Sector THEN a \in set ELSE cells[a]]
    /\ op' = [op EXCEPT !.status = "cut"]
    /\ region' = None
    /\ UNCHANGED <<total, fw_end, rom, before>>

Next ==
    \/ open
    \/ \E sector \in 0 .. RegionLen \div SectorSize : erase_sector(sector)
    \/ \E offset \in 0 .. RegionLen, n \in 0 .. MaxLen : \E data \in [1 .. n -> BOOLEAN] :
          program(offset, data)
    \/ ProgramPage \/ Erase \/ PowerLoss

Spec == Init /\ [][Next]_vars

----------------------------------------------------------------------------
\* The addresses a call is about.
Reach ==
    LET from == total - capacity_for(total) + op.offset
    IN  IF op.kind = "erase" THEN from .. from + SectorSize - 1
        ELSE from .. from + Len(op.data) - 1

\* However a call crosses pages and wherever the power goes, it changes no cell but the
\* ones it is about, so that the other sector's snapshot and the firmware stand; a
\* refused or failed call changes none; and what was acknowledged is what reading the
\* cells gives: erased, or the data over what was erased (erase_sector, program).
WritesExact ==
    op # None =>
        /\ \A a \in DOMAIN cells : a \notin Reach => cells[a] = before[a]
        /\ op.status \in {"refused", "failed"} => cells = before
        /\ op.status = "ok" => \A a \in Reach :
              cells[a] = IF op.kind = "erase" THEN TRUE
                         ELSE before[a] /\ op.data[a + 1 - (total - capacity_for(total) + op.offset)]

\* The region never reaches into the firmware image (open, region_for).
FirmwareKept ==
    /\ \A a \in DOMAIN cells : a < fw_end => cells[a] = (a % 2 = 0)
    /\ region # None => region.base >= fw_end
=============================================================================

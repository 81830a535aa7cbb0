-------------------------------- MODULE Boot --------------------------------
(***************************************************************************)
(* From the BIOS to the first instruction of the kernel: the boot sector   *)
(* (boot/boot1.asm) finds LOADER.BIN on a FAT12 floppy and runs it, and    *)
(* the loader (boot/loader2.asm) asks the BIOS for the memory, loads       *)
(* KERNEL.BIN with the same code, maps the memory and moves the segments   *)
(* of the kernel to their addresses.                                       *)
(*                                                                         *)
(* Memory below 1M is a row of slots of one sector each; a slot holds the  *)
(* number of the disk sector it is a copy of.  The bytes of the FAT are    *)
(* modelled one by one: the packing of its entries is the hard part.       *)
(***************************************************************************)
EXTENDS Integers, Sequences, FiniteSets, SequencesExt

CONSTANTS
  BytsPerSec,      \* bytes of a sector (512)
  SecPerTrk,       \* sectors of a track (18)
  FATSz,           \* sectors of one FAT (9)
  RootDirSectors,  \* sectors of the root directory (14)
  DirEntries,      \* entries of a sector of the root directory (16)
  NumClusters,     \* clusters of the data area, numbered from 2
  Seg,             \* sectors of a segment of 64K (128)
  ImageSlots,      \* slots between the kernel's address and its file's
  Tbl,             \* pages of a page table (1024)
  AddressSpace,    \* pages that 32 bits can address (2^20)
  MemoryMaps,      \* what the BIOS may report: sequences of ranges
  Programs,        \* the program headers KERNEL.BIN may have
  MaxErrors        \* how often reading a good sector may fail

\* What the BIOS may say of a range, in pages: usable memory ends below 4G, where
\* the low halves of the address and of the length are all there is of them.
Ranges == {r \in [base : Nat, len : Nat, type : {1, 2}] :
             r.type = 1 => r.base + r.len < AddressSpace}

ASSUME BootAssumption ==
  /\ {BytsPerSec, SecPerTrk, FATSz, RootDirSectors, DirEntries, NumClusters,
      Seg, ImageSlots, Tbl, AddressSpace} \subseteq Nat \ {0}
  /\ MaxErrors \in Nat
  /\ FATSz + 2 <= SecPerTrk               \* both FAT sectors are on one track
  /\ 2 * BytsPerSec * FATSz >= 3 * (NumClusters + 2)
  /\ NumClusters + 1 < 4080               \* FAT12: the numbers above are not clusters
  /\ MemoryMaps \subseteq Seq(Ranges) \ {<< >>}

\* The linker gives every segment to load an address of its own, from ENTRYPOINT
\* on (Makefile), and the kernel ends below KERNEL.BIN at 80000h (load.inc).
Loaded(h) == {i \in 1..Len(h) : h[i].type # 0}
ASSUME ProgramAssumption ==
  \A h \in Programs :
    /\ h \in Seq([type : Nat, off : Nat, vaddr : Nat, size : Nat]) \ {<< >>}
    /\ \A i \in Loaded(h) : h[i].vaddr + h[i].size <= ImageSlots + 2
    /\ \A i, j \in Loaded(h) :
         i < j => \/ h[i].vaddr + h[i].size <= h[j].vaddr
                  \/ h[j].vaddr + h[j].size <= h[i].vaddr

VARIABLES
  files,     \* the clusters of each file, in order
  place,     \* the entry of each file in the root directory, or Absent
  stage,     \* whose code runs
  pc,        \* where it is
  left,      \* wRootDirSizeForLoop
  wSectorNo, \* the sector of the root directory to read
  cluster,   \* the cluster being loaded, kept on the stack
  bx,        \* where in the segment it is loaded, in sectors
  mem,       \* the memory: slot -> the sector it is a copy of
  errors,    \* reads that have failed
  ards,      \* MemChkBuf
  mcr,       \* dwMCRNumber
  range,     \* the range DispMemInfo looks at next
  memSize,   \* dwMemSize, in pages
  paging,    \* the page directory and the page tables
  headers,   \* the program headers in KERNEL.BIN
  ph         \* the one InitKernel copies next

disk == <<files, place>>
search == <<left, wSectorNo>>
memory == <<ards, mcr, range, memSize, paging>>
program == <<headers, ph>>
vars == <<files, place, stage, pc, left, wSectorNo, cluster, bx, mem, errors,
          ards, mcr, range, memSize, paging, headers, ph>>
-----------------------------------------------------------------------------
\* The floppy (fat12hdr.inc): boot sector, two FATs, root directory, clusters.
Names == {"loader", "kernel"}
Absent == -1
EOC == 4095

SectorNoOfFAT1 == 1
SectorNoOfRootDirectory == 1 + 2 * FATSz
DeltaSectorNo == SectorNoOfRootDirectory - 2
Clusters == 2..NumClusters + 1
SectorOf(c) == c + RootDirSectors + DeltaSectorNo
Sectors == 0..SectorOf(NumClusters + 1)

\* What mkfs and cp wrote in the FAT: the successor of each cluster.
Fat(c) ==
  IF \E n \in Names : \E i \in 1..Len(files[n]) - 1 : files[n][i] = c
    THEN CHOOSE d \in Clusters :
           \E n \in Names : \E i \in 1..Len(files[n]) - 1 : files[n][i] = c /\ files[n][i+1] = d
    ELSE IF \E n \in Names : Last(files[n]) = c THEN EOC ELSE 0

\* Byte i of the FAT: two entries of 12 bits take three bytes.
FatByte(i) ==
  LET even == Fat(2 * (i \div 3))
      odd  == Fat(2 * (i \div 3) + 1)
  IN  IF i % 3 = 0 THEN even % 256
      ELSE IF i % 3 = 1 THEN even \div 256 + 16 * (odd % 16)
      ELSE odd \div 16

\* Byte k of a slot that holds a sector of the first FAT.
ByteOf(slot, k) == FatByte((mem[slot] - SectorNoOfFAT1) * BytsPerSec + k)

\* The name in entry e of a copy of sector s of the root directory.
EntryNo(s, e) == (s - SectorNoOfRootDirectory) * DirEntries + e
-----------------------------------------------------------------------------
\* Memory, from the lowest slot: the kernel (30400h), the FAT buffer of the
\* loader, KERNEL.BIN (80000h), LOADER.BIN (90000h).  The FAT buffer of the boot
\* sector lies at the end of the room for KERNEL.BIN, which is not loaded yet.
Garbage == -1
KernelFile == ImageSlots + 2
Loader == KernelFile + Seg
Slots == 0..Loader + Seg - 1

Base(st) == IF st = "boot" THEN Loader ELSE KernelFile
Target == IF stage = "boot" THEN "loader" ELSE "kernel"

\* A bug for the runs to detect: the buffer is the segment after the file.
FatBuffer_Above(st) == IF st = "boot" THEN Base(st) - 2 ELSE Base(st) + Seg

\* The two sectors of the FAT go below the file.
FatBuffer(st) == Base(st) - 2

\* Where a sector is on the disk, and which sector the BIOS finds there.
Chs(x) ==
  LET y == x \div SecPerTrk
  IN  [ch |-> y \div 2, dh |-> y % 2, cl |-> (x % SecPerTrk) + 1]
Bios(a) == (a.ch * 2 + a.dh) * SecPerTrk + a.cl - 1

\* The offset in the FAT of the entry of cluster c.
FatOffset(c) == (c * 3) \div 2

\* A bug for the runs to detect: odd entries are not shifted.
GetFATEntry_NoShift(c) ==
  LET at == FatOffset(c) % BytsPerSec
      Byte(k) == ByteOf(FatBuffer(stage) + k \div BytsPerSec, k % BytsPerSec)
  IN  (Byte(at) + 256 * Byte(at + 1)) % 4096

\* The cluster after c, from the two sectors of the FAT in the buffer.
GetFATEntry(c) ==
  LET at == FatOffset(c) % BytsPerSec
      Byte(k) == ByteOf(FatBuffer(stage) + k \div BytsPerSec, k % BytsPerSec)
      word == Byte(at) + 256 * Byte(at + 1)
  IN  (IF c % 2 = 1 THEN word \div 16 ELSE word) % 4096

\* The sectors that hold one entry.
FatSectors == 2

\* The read each place of the code waits for: first sector, how many, and where.
Pending ==
  IF pc = "read_root" THEN [sector |-> wSectorNo, count |-> 1, to |-> Base(stage)]
  ELSE IF pc = "read_file"
    THEN [sector |-> SectorOf(cluster), count |-> 1, to |-> Base(stage) + bx]
  ELSE [sector |-> SectorNoOfFAT1 + FatOffset(cluster) \div BytsPerSec,
        count |-> FatSectors, to |-> FatBuffer(stage)]
-----------------------------------------------------------------------------
Chains ==
  {f \in [Names -> UNION {[1..n -> Clusters] : n \in 1..Seg}] :
     /\ Len(f["loader"]) < Seg
     /\ \A n \in Names : IsInjective(f[n])
     /\ ToSet(f["loader"]) \cap ToSet(f["kernel"]) = {}}

Places ==
  {p \in [Names -> {Absent} \cup 0..RootDirSectors * DirEntries - 1] :
     p["loader"] = p["kernel"] => p["loader"] = Absent}

\* The BIOS has read the boot sector.
Init ==
  /\ files \in Chains /\ place \in Places
  /\ stage = "boot" /\ pc = "root"
  /\ left = RootDirSectors /\ wSectorNo = SectorNoOfRootDirectory
  /\ cluster = 0 /\ bx = 0
  /\ mem = [s \in Slots |-> Garbage] /\ errors = 0
  /\ ards = << >> /\ mcr = 0 /\ range = 1 /\ memSize = 0 /\ paging = [pde |-> << >>, pte |-> << >>]
  /\ headers = << >> /\ ph = 1

\* int 13h succeeds.
ReadSector ==
  /\ pc \in {"read_root", "read_file", "read_fat"}
  /\ LET r == Pending
         first == Bios(Chs(r.sector))
     IN  /\ first \in Sectors
         /\ mem' = [s \in Slots |-> IF s \in r.to..r.to + r.count - 1
                                      THEN first + (s - r.to) ELSE mem[s]]
  /\ pc' = [read_root |-> "scan", read_file |-> "read_fat", read_fat |-> "next"][pc]
  /\ UNCHANGED <<disk, stage, search, cluster, bx, errors, memory, program>>

\* int 13h sets the carry flag, having written anything: the code tries again.
\* A sector that is not on the disk is tried for ever.
ReadFails ==
  /\ pc \in {"read_root", "read_file", "read_fat"}
  /\ LET r == Pending
         onDisk == Bios(Chs(r.sector)) \in Sectors
     IN  /\ onDisk => errors < MaxErrors
         /\ errors' = IF onDisk THEN errors + 1 ELSE errors
         /\ mem' = [s \in Slots |-> IF s \in r.to..r.to + r.count - 1 THEN Garbage ELSE mem[s]]
  /\ UNCHANGED <<disk, stage, pc, search, cluster, bx, memory, program>>

\* A bug for the runs to detect: the last sector of the directory is skipped.
SearchInRootDir_Early ==
  /\ pc = "root"
  /\ IF left = 1 THEN pc' = "missing" /\ UNCHANGED left
                 ELSE pc' = "read_root" /\ left' = left - 1
  /\ UNCHANGED <<disk, stage, wSectorNo, cluster, bx, mem, errors, memory, program>>

\* LABEL_SEARCH_IN_ROOT_DIR_BEGIN: the next sector of the directory, if any.
SearchInRootDir ==
  /\ pc = "root"
  /\ IF left = 0 THEN pc' = "missing" /\ UNCHANGED left
                 ELSE pc' = "read_root" /\ left' = left - 1
  /\ UNCHANGED <<disk, stage, wSectorNo, cluster, bx, mem, errors, memory, program>>

\* A bug for the runs to detect: bx keeps its value from the last file.
ScanEntries_NoReset ==
  /\ pc = "scan"
  /\ IF \E e \in 0..DirEntries - 1 : place[Target] = EntryNo(mem[Base(stage)], e)
       THEN /\ pc' = "read_file" /\ cluster' = Head(files[Target])
            /\ UNCHANGED <<bx, wSectorNo>>
       ELSE /\ pc' = "root" /\ wSectorNo' = wSectorNo + 1
            /\ UNCHANGED <<cluster, bx>>
  /\ UNCHANGED <<disk, stage, left, mem, errors, memory, program>>

\* LABEL_SEARCH_FOR_LOADERBIN: compare the entries of the sector in memory.
ScanEntries ==
  /\ pc = "scan"
  /\ IF \E e \in 0..DirEntries - 1 : place[Target] = EntryNo(mem[Base(stage)], e)
       THEN /\ pc' = "read_file" /\ bx' = 0
            /\ cluster' = Head(files[Target])
            /\ UNCHANGED wSectorNo
       ELSE /\ pc' = "root" /\ wSectorNo' = wSectorNo + 1
            /\ UNCHANGED <<cluster, bx>>
  /\ UNCHANGED <<disk, stage, left, mem, errors, memory, program>>

\* Back from GetFATEntry, there is another cluster to load.
NextCluster ==
  /\ pc = "next" /\ GetFATEntry(cluster) # EOC
  /\ cluster' = GetFATEntry(cluster)
  /\ bx' = (bx + 1) % Seg
  /\ pc' = "read_file"
  /\ UNCHANGED <<disk, stage, search, mem, errors, memory, program>>

\* LABEL_FILE_LOADED in the boot sector: jump to the loader, which begins with
\* E820h: a range of memory at each call, or the carry flag.
RunLoader ==
  /\ pc = "next" /\ GetFATEntry(cluster) = EOC /\ stage = "boot"
  /\ stage' = "loader" /\ pc' = "root"
  /\ left' = RootDirSectors /\ wSectorNo' = SectorNoOfRootDirectory
  /\ \E m \in MemoryMaps :
       \/ ards' = m /\ mcr' = Len(m)
       \/ ards' \in {SubSeq(m, 1, k) : k \in 0..Len(m) - 1} /\ mcr' = 0
  /\ UNCHANGED <<disk, cluster, bx, mem, errors, range, memSize, paging, program>>

\* LABEL_FILE_LOADED in the loader: protected mode.
EnterProtectedMode ==
  /\ pc = "next" /\ GetFATEntry(cluster) = EOC /\ stage = "loader"
  /\ pc' = "meminfo"
  /\ UNCHANGED <<disk, stage, search, cluster, bx, mem, errors, memory, program>>

\* dwBaseAddrLow + dwLengthLow, an addition of 32 bits.
End(r) == (r.base + r.len) % AddressSpace

\* The end of a usable range, if it is the highest so far.
Higher(size, r) == IF r.type = 1 /\ End(r) >= size THEN End(r) ELSE size

\* The body of DispMemInfo's loop, which tests its counter after the body: with
\* no range it leaves the buffer behind, as do the loops of SetupPaging with no
\* memory.
DispMemInfo ==
  /\ pc = "meminfo"
  /\ IF mcr = 0
       THEN pc' = "wild" /\ UNCHANGED <<range, memSize>>
       ELSE /\ memSize' = Higher(memSize, ards[range])
            /\ range' = range + 1
            /\ pc' = IF range = mcr THEN "paging" ELSE pc
  /\ UNCHANGED <<disk, stage, search, cluster, bx, mem, errors, ards, mcr, paging, program>>

\* A bug for the runs to detect: memory beyond the last whole 4M is dropped.
Tables_Whole(size) == size \div Tbl

\* The number of page tables: one for each 4M of memory, or part of it.
Tables(size) == size \div Tbl + (IF size % Tbl = 0 THEN 0 ELSE 1)

\* One table after another, one page after another.
SetupPaging ==
  /\ pc = "paging"
  /\ LET n == Tables(memSize)
     IN  IF n = 0 THEN pc' = "wild" /\ UNCHANGED paging
                  ELSE /\ pc' = "init_kernel"
                       /\ paging' = [pde |-> [i \in 0..n - 1 |-> i],
                                     pte |-> [p \in 0..n * Tbl - 1 |-> p]]
  /\ headers' \in {h \in Programs : \A i \in 1..Len(h) : h[i].off + h[i].size <= Len(files["kernel"])}
  /\ UNCHANGED <<disk, stage, search, cluster, bx, mem, errors, ards, mcr, range, memSize, ph>>

\* MemCpy(dst, src, size).
Copied(dst, src, size) ==
  [s \in Slots |-> IF s \in dst..dst + size - 1 THEN mem[src + (s - dst)] ELSE mem[s]]

\* InitKernel: copy the segment of the next program header.
InitKernel ==
  /\ pc = "init_kernel"
  /\ LET h == headers[ph]
     IN  mem' = IF h.type = 0 THEN mem ELSE Copied(h.vaddr, KernelFile + h.off, h.size)
  /\ ph' = ph + 1
  /\ pc' = IF ph = Len(headers) THEN "kernel" ELSE pc
  /\ UNCHANGED <<disk, stage, search, cluster, bx, errors, memory, headers>>

\* jmp $, and what is not this code any more.
Stops == {"kernel", "missing", "wild"}
Stay == pc \in Stops /\ UNCHANGED vars

Next ==
  \/ ReadSector \/ ReadFails \/ SearchInRootDir \/ ScanEntries \/ NextCluster
  \/ RunLoader \/ EnterProtectedMode \/ DispMemInfo \/ SetupPaging \/ InitKernel
  \/ Stay

\* The processor does not stop.
Spec == Init /\ [][Next]_vars /\ WF_vars(Next)
-----------------------------------------------------------------------------
\* The loader is whole in memory when the boot sector jumps to it, and nothing
\* that is read or copied afterwards touches it: neither the directory, nor the
\* FAT, nor a KERNEL.BIN that fills its segment, nor the kernel's segments
\* (boot1.asm, LABEL_FILE_LOADED; load.inc).
LoaderIntact ==
  stage = "loader" =>
    \A i \in 1..Len(files["loader"]) : mem[Loader + i - 1] = SectorOf(files["loader"][i])

\* The kernel runs with every segment of KERNEL.BIN at the address its program
\* header asks for, however the file is scattered on the disk, whatever the
\* packing of its FAT entries, and with reads that fail on the way
\* (loader2.asm, InitKernel).
KernelInPlace ==
  pc = "kernel" =>
    \A i \in 1..Len(headers) : headers[i].type # 0 =>
      \A k \in 0..headers[i].size - 1 :
        mem[headers[i].vaddr + k] = SectorOf(files["kernel"][headers[i].off + k + 1])

\* "No LOADER" and "No KERNEL" are the truth, and the code runs away only when
\* the BIOS reports no usable memory or sets the carry flag instead of the last
\* range.
StopsForAReason ==
  /\ pc = "missing" => place[Target] = Absent
  /\ pc = "wild" => \A i \in 1..mcr : ards[i].type = 1 => ards[i].len = 0

\* With paging on, every page the BIOS calls usable is mapped to itself, and no
\* two tables or entries map a page to another (loader2.asm, SetupPaging).
Translate(p) == paging.pte[paging.pde[p \div Tbl] * Tbl + (p % Tbl)]
MemoryMapped ==
  pc \in {"init_kernel", "kernel"} =>
    /\ \A i \in 1..Len(ards) : ards[i].type = 1 =>
         ards[i].base + ards[i].len <= Cardinality(DOMAIN paging.pde) * Tbl
    /\ \A p \in DOMAIN paging.pte : Translate(p) = p

\* The search and the walk along the FAT end: the kernel runs, or a file is
\* missing, or the BIOS has reported no memory.
BootEnds == <>(pc \in Stops)
=============================================================================

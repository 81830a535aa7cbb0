----------------------------- MODULE BootProofs -----------------------------
(***************************************************************************)
(* Boot, for every floppy: any geometry, any size of a segment, any chain  *)
(* of clusters and any failures of the reads.                              *)
(*                                                                         *)
(* The inductive invariant follows the code: what the search has already   *)
(* seen, how much of the file is in memory and which two sectors of the    *)
(* FAT lie below it, how far DispMemInfo and InitKernel have come.  The    *)
(* rest is arithmetic: an entry of 12 bits is found where the packing put  *)
(* it, also when its two bytes lie in different sectors.                   *)
(***************************************************************************)
EXTENDS Boot, FiniteSetTheorems, TLAPS

TypeOK ==
  /\ files \in Chains /\ place \in Places
  /\ stage \in {"boot", "loader"}
  /\ pc \in {"root", "read_root", "scan", "read_file", "read_fat", "next",
             "meminfo", "paging", "init_kernel"} \cup Stops
  /\ left \in 0..RootDirSectors /\ wSectorNo \in Nat
  /\ cluster \in Clusters \cup {0} /\ bx \in 0..Seg - 1
  /\ mem \in [Slots -> Nat \cup {Garbage}] /\ errors \in 0..MaxErrors
  /\ ards \in Seq(Ranges) /\ mcr \in {0, Len(ards)}
  /\ range \in Nat /\ memSize \in Nat
  /\ headers \in Programs \cup {<< >>} /\ ph \in Nat

\* The first k sectors of file n are in memory from slot base on.
FileAt(n, base, k) == \A i \in 1..k : mem[base + i - 1] = SectorOf(files[n][i])

\* No entry of the sectors seen so far is the file's, and the sector in memory
\* is the one to compare.
Seen ==
  pc \in {"root", "read_root", "scan", "missing"} =>
    /\ wSectorNo = SectorNoOfRootDirectory + RootDirSectors - left
                     - (IF pc \in {"read_root", "scan"} THEN 1 ELSE 0)
    /\ place[Target] # Absent =>
         place[Target] >= (wSectorNo - SectorNoOfRootDirectory) * DirEntries
    /\ pc = "scan" => mem[Base(stage)] = wSectorNo
    /\ pc = "missing" => left = 0

\* The sectors of the file before bx are in memory, in order, and before
\* GetFATEntry looks for the next one the two sectors of the FAT are there.
Loading ==
  pc \in {"read_file", "read_fat", "next"} =>
    /\ bx + 1 <= Len(files[Target]) /\ cluster = files[Target][bx + 1]
    /\ FileAt(Target, Base(stage), IF pc = "read_file" THEN bx ELSE bx + 1)
    /\ pc = "next" => \A k \in {0, 1} :
         mem[FatBuffer(stage) + k] = SectorNoOfFAT1 + (FatOffset(cluster) \div BytsPerSec) + k

\* KERNEL.BIN is whole until the last of its segments is copied.
KernelLoaded ==
  /\ pc \in {"meminfo", "paging", "init_kernel", "kernel", "wild"} => stage = "loader"
  /\ pc \in {"meminfo", "paging", "init_kernel"} =>
       FileAt("kernel", KernelFile, Len(files["kernel"]))

\* memSize is no less than the end of any usable range looked at.
Measured ==
  /\ pc \notin {"meminfo", "paging", "init_kernel", "kernel", "wild"} => range = 1 /\ memSize = 0
  /\ pc = "meminfo" => range >= 1 /\ (mcr > 0 => range <= mcr) 
  /\ pc \in {"paging", "init_kernel", "kernel"} => mcr > 0 /\ range = mcr + 1
  /\ range > 1 => range <= mcr + 1
  /\ \A i \in 1..range - 1 :
       ards[i].type = 1 => ards[i].base + ards[i].len <= memSize
  /\ pc = "wild" => mcr = 0 \/ (memSize = 0 /\ range = mcr + 1)

\* The tables map every page of memSize to itself.
Mapped ==
  pc \in {"init_kernel", "kernel"} =>
    /\ Tables(memSize) > 0
    /\ paging = [pde |-> [i \in 0..Tables(memSize) - 1 |-> i],
                 pte |-> [p \in 0..Tables(memSize) * Tbl - 1 |-> p]]

\* The first k segments are at their addresses.
Placed(k) ==
  \A i \in 1..k : headers[i].type # 0 =>
    \A j \in 0..headers[i].size - 1 :
      mem[headers[i].vaddr + j] = SectorOf(files["kernel"][headers[i].off + j + 1])

Copying ==
  /\ pc \notin {"init_kernel", "kernel"} => ph = 1
  /\ pc \in {"init_kernel", "kernel"} =>
       /\ headers \in Programs
       /\ \A i \in 1..Len(headers) : headers[i].off + headers[i].size <= Len(files["kernel"])
       /\ ph \in 1..Len(headers) + 1
       /\ pc = "kernel" <=> ph = Len(headers) + 1
       /\ Placed(ph - 1)

BootInv ==
  /\ TypeOK /\ Seen /\ Loading /\ KernelLoaded /\ LoaderIntact
  /\ Measured /\ Mapped /\ Copying
-----------------------------------------------------------------------------
\* Arithmetic.

LEMMA Sizes ==
  /\ BytsPerSec \in Nat \ {0} /\ SecPerTrk \in Nat \ {0} /\ FATSz \in Nat \ {0}
  /\ RootDirSectors \in Nat \ {0} /\ DirEntries \in Nat \ {0} /\ NumClusters \in Nat \ {0}
  /\ Seg \in Nat \ {0} /\ ImageSlots \in Nat \ {0} /\ Tbl \in Nat \ {0}
  /\ MaxErrors \in Nat /\ NumClusters + 1 < 4080
<1>1. {BytsPerSec, SecPerTrk, FATSz, RootDirSectors, DirEntries, NumClusters,
       Seg, ImageSlots, Tbl} \subseteq Nat \ {0}
  BY BootAssumption
<1>2. MaxErrors \in Nat /\ NumClusters + 1 < 4080
  BY BootAssumption
<1> QED
  BY <1>1, <1>2

LEMMA DivMod ==
  ASSUME NEW x \in Nat, NEW n \in Nat \ {0}
  PROVE  x \div n \in Nat /\ x % n \in 0..n - 1 /\ x = (x \div n) * n + (x % n)
  OBVIOUS

LEMMA DivModSmall ==
  ASSUME NEW n \in Nat \ {0}
  PROVE  /\ \A r \in 0..n - 1 : r \div n = 0 /\ r % n = r
         /\ n \div n = 1 /\ n % n = 0
  OBVIOUS

\* The BIOS reads the sector whose cylinder, head and sector were computed.
LEMMA BiosReadsSector ==
  ASSUME NEW x \in Nat
  PROVE  Bios(Chs(x)) = x
<1> DEFINE y == x \div SecPerTrk
<1>1. SecPerTrk \in Nat \ {0}
  BY Sizes
<1>2. y \in Nat /\ x % SecPerTrk \in 0..SecPerTrk - 1 /\ x = y * SecPerTrk + (x % SecPerTrk)
  BY <1>1, DivMod
<1>3. (y \div 2) * 2 + (y % 2) = y
  BY <1>2
<1>4. Bios(Chs(x)) = ((y \div 2) * 2 + (y % 2)) * SecPerTrk + ((x % SecPerTrk) + 1) - 1
  BY DEF Bios, Chs
<1> QED
  BY <1>1, <1>2, <1>3, <1>4

\* Two entries of 12 bits in three bytes: what is packed is what is unpacked.
LEMMA Unpacked ==
  ASSUME NEW even \in Nat, NEW odd \in Nat, even < 4096, odd < 4096
  PROVE  /\ ((even % 256) + 256 * (even \div 256 + 16 * (odd % 16))) % 4096 = even
         /\ ((even \div 256 + 16 * (odd % 16) + 256 * (odd \div 16)) \div 16) % 4096 = odd
  OBVIOUS

\* Where the entry of a cluster begins.
LEMMA Offsets ==
  ASSUME NEW c \in Nat
  PROVE  /\ FatOffset(c) \in Nat
         /\ c % 2 = 0 => FatOffset(c) = 3 * (c \div 2) /\ c = 2 * (c \div 2)
         /\ c % 2 = 1 => FatOffset(c) = 3 * (c \div 2) + 1 /\ c = 2 * (c \div 2) + 1
         /\ c % 2 \in {0, 1}
  BY DEF FatOffset
-----------------------------------------------------------------------------
\* The floppy.

\* Files are sequences of clusters that share none.
LEMMA ChainShape ==
  ASSUME files \in Chains
  PROVE  /\ \A n \in Names : files[n] \in Seq(Clusters) /\ Len(files[n]) \in 1..Seg
         /\ Len(files["loader"]) < Seg
         /\ \A n, m \in Names : \A i \in 1..Len(files[n]), j \in 1..Len(files[m]) :
              files[n][i] = files[m][j] => n = m /\ i = j
<1>1. ASSUME NEW n \in Names
      PROVE  files[n] \in Seq(Clusters) /\ Len(files[n]) \in 1..Seg /\ DOMAIN files[n] = 1..Len(files[n])
  <2>1. PICK k \in 1..Seg : files[n] \in [1..k -> Clusters]
    BY DEF Chains
  <2>2. files[n] \in Seq(Clusters) /\ Len(files[n]) = k
    BY <2>1, Sizes
  <2> QED
    BY <2>1, <2>2
<1>2. ASSUME NEW n \in Names, NEW m \in Names,
             NEW i \in 1..Len(files[n]), NEW j \in 1..Len(files[m]), files[n][i] = files[m][j]
      PROVE  n = m /\ i = j
  <2>1. files[n][i] \in ToSet(files[n]) /\ files[m][j] \in ToSet(files[m])
    BY <1>1 DEF ToSet
  <2>2. n = m
    BY <2>1, <1>2 DEF Chains, Names
  <2>3. IsInjective(files[n])
    BY DEF Chains
  <2> QED
    BY <1>1, <1>2, <2>2, <2>3 DEF IsInjective
<1> QED
  BY <1>1, <1>2 DEF Chains

\* The entry of a cluster of a file is the next one, or the end of the chain.
LEMMA FatIsNext ==
  ASSUME files \in Chains, NEW n \in Names, NEW i \in 1..Len(files[n])
  PROVE  Fat(files[n][i]) = IF i < Len(files[n]) THEN files[n][i + 1] ELSE EOC
<1> DEFINE c == files[n][i]
<1>1. c \in Clusters /\ \A m \in Names : Len(files[m]) \in Nat \ {0} /\ files[m] \in Seq(Clusters)
  BY ChainShape
<1>2. CASE i < Len(files[n])
  <2>1. i \in 1..Len(files[n]) - 1 /\ files[n][i + 1] \in Clusters
    BY <1>1, <1>2
  <2>2. ASSUME NEW m \in Names, NEW j \in 1..Len(files[m]) - 1, files[m][j] = c
        PROVE  files[m][j + 1] = files[n][i + 1]
    <3>1. j \in 1..Len(files[m])
      BY <1>1
    <3> QED
      BY <2>2, <3>1, ChainShape
  <2> QED
    BY <2>1, <2>2, <1>2 DEF Fat
<1>3. CASE i = Len(files[n])
  <2>1. ~ \E m \in Names : \E j \in 1..Len(files[m]) - 1 : files[m][j] = c
    <3>1. SUFFICES ASSUME NEW m \in Names, NEW j \in 1..Len(files[m]) - 1, files[m][j] = c
                   PROVE  FALSE
      OBVIOUS
    <3>2. j \in 1..Len(files[m]) /\ j < Len(files[m])
      BY <1>1
    <3> QED
      BY <3>1, <3>2, <1>3, ChainShape
  <2>2. Last(files[n]) = c
    BY <1>3 DEF Last
  <2> QED
    BY <2>1, <2>2, <1>3 DEF Fat
<1> QED
  BY <1>1, <1>2, <1>3

\* Every entry has 12 bits.
LEMMA FatType ==
  ASSUME files \in Chains, NEW c \in Nat
  PROVE  Fat(c) \in Nat /\ Fat(c) < 4096
<1> DEFINE Succ(d) == \E n \in Names : \E i \in 1..Len(files[n]) - 1 :
                        files[n][i] = c /\ files[n][i + 1] = d
<1>1. CASE \E n \in Names : \E i \in 1..Len(files[n]) - 1 : files[n][i] = c
  <2>1. PICK n \in Names : \E i \in 1..Len(files[n]) - 1 : files[n][i] = c
    BY <1>1
  <2>2. PICK i \in 1..Len(files[n]) - 1 : files[n][i] = c
    BY <2>1
  <2>3. files[n][i + 1] \in Clusters
    BY ChainShape
  <2>4. \E d \in Clusters : Succ(d)
    BY <2>2, <2>3
  <2>5. Fat(c) = CHOOSE d \in Clusters : Succ(d)
    BY <1>1 DEF Fat
  <2>6. \A d \in Clusters : d \in Nat /\ d < 4096
    BY Sizes DEF Clusters
  <2> HIDE DEF Succ
  <2>7. (CHOOSE d \in Clusters : Succ(d)) \in Clusters
    BY <2>4, Zenon
  <2>8. Fat(c) \in Clusters
    BY <2>5, <2>7, Zenon
  <2> QED
    BY <2>6, <2>8
<1>2. CASE ~ \E n \in Names : \E i \in 1..Len(files[n]) - 1 : files[n][i] = c
  BY <1>2 DEF Fat, EOC
<1> QED
  BY <1>1, <1>2

\* With the two sectors of the FAT that hold it in the buffer, GetFATEntry finds
\* the entry of any cluster, also the one whose bytes are in both sectors.
LEMMA EntryFound ==
  ASSUME files \in Chains, NEW c \in Nat, FatBuffer(stage) \in Nat,
         \A k \in {0, 1} : mem[FatBuffer(stage) + k]
                             = SectorNoOfFAT1 + (FatOffset(c) \div BytsPerSec) + k
  PROVE  GetFATEntry(c) = Fat(c)
<1> DEFINE off == FatOffset(c)
           q == off \div BytsPerSec
           at == off % BytsPerSec
           Byte(k) == ByteOf(FatBuffer(stage) + k \div BytsPerSec, k % BytsPerSec)
           h == c \div 2
           even == Fat(2 * h)
           odd == Fat(2 * h + 1)
<1>1. BytsPerSec \in Nat \ {0} /\ off \in Nat
  BY Sizes, Offsets
<1>2. \A k \in {0, 1} : mem[FatBuffer(stage) + k] - SectorNoOfFAT1 = q + k
  <2>1. q \in Nat
    BY <1>1, DivMod
  <2> HIDE DEF off, q
  <2> QED
    BY <2>1 DEF SectorNoOfFAT1, q, off
<1>3. Byte(at) = FatByte(off) /\ Byte(at + 1) = FatByte(off + 1)
  <2> HIDE DEF off
  <2>1. q \in Nat /\ at \in 0..BytsPerSec - 1 /\ off = q * BytsPerSec + at
    BY <1>1, DivMod
  <2> HIDE DEF q, at
  <2>2. \A b \in 0..BytsPerSec - 1 : Byte(b) = FatByte(q * BytsPerSec + b)
    <3>1. TAKE b \in 0..BytsPerSec - 1
    <3>2. b \div BytsPerSec = 0 /\ b % BytsPerSec = b
      BY <1>1, DivModSmall
    <3>3. Byte(b) = ByteOf(FatBuffer(stage) + 0, b)
      BY <3>2
    <3>4. mem[FatBuffer(stage) + 0] - SectorNoOfFAT1 = q
      BY <1>2, <2>1
    <3> QED
      BY <3>3, <3>4 DEF ByteOf
  <2>3. Byte(BytsPerSec) = FatByte((q + 1) * BytsPerSec + 0)
    <3>1. BytsPerSec \div BytsPerSec = 1 /\ BytsPerSec % BytsPerSec = 0
      BY <1>1, DivModSmall
    <3>2. mem[FatBuffer(stage) + 1] - SectorNoOfFAT1 = q + 1
      BY <1>2, <2>1
    <3> QED
      BY <3>1, <3>2 DEF ByteOf
  <2>4. (q + 1) * BytsPerSec = q * BytsPerSec + BytsPerSec
    BY <1>1, <2>1
  <2>5. q * BytsPerSec \in Nat
    BY <1>1, <2>1
  <2> HIDE DEF Byte
  <2>6. CASE at + 1 = BytsPerSec
    BY <1>1, <2>1, <2>2, <2>3, <2>4, <2>5, <2>6
  <2>7. CASE at + 1 # BytsPerSec
    BY <1>1, <2>1, <2>2, <2>5, <2>7
  <2> QED
    BY <2>6, <2>7
<1>4. even \in Nat /\ odd \in Nat /\ even < 4096 /\ odd < 4096 /\ h \in Nat
  <2>1. h \in Nat
    OBVIOUS
  <2> HIDE DEF h
  <2> QED
    BY <2>1, FatType
<1>5. GetFATEntry(c) = (IF c % 2 = 1 THEN (FatByte(off) + 256 * FatByte(off + 1)) \div 16
                                     ELSE FatByte(off) + 256 * FatByte(off + 1)) % 4096
  BY <1>3 DEF GetFATEntry
<1>6. CASE c % 2 = 0
  <2>1. off = 3 * h /\ c = 2 * h
    BY <1>6, Offsets
  <2>2. off % 3 = 0 /\ off \div 3 = h /\ (off + 1) % 3 = 1 /\ (off + 1) \div 3 = h
    BY <2>1, <1>4
  <2>3. FatByte(off) = even % 256 /\ FatByte(off + 1) = even \div 256 + 16 * (odd % 16)
    BY <2>2 DEF FatByte
  <2>4. ((even % 256) + 256 * (even \div 256 + 16 * (odd % 16))) % 4096 = even
    BY <1>4, Unpacked
  <2> QED
    BY <1>5, <1>6, <2>1, <2>3, <2>4
<1>7. CASE c % 2 = 1
  <2>1. off = 3 * h + 1 /\ c = 2 * h + 1
    BY <1>7, Offsets
  <2>2. off % 3 = 1 /\ off \div 3 = h /\ (off + 1) % 3 = 2 /\ (off + 1) \div 3 = h
    BY <2>1, <1>4
  <2>3. FatByte(off) = even \div 256 + 16 * (odd % 16) /\ FatByte(off + 1) = odd \div 16
    BY <2>2 DEF FatByte
  <2>4. ((even \div 256 + 16 * (odd % 16) + 256 * (odd \div 16)) \div 16) % 4096 = odd
    BY <1>4, Unpacked
  <2> QED
    BY <1>5, <1>7, <2>1, <2>3, <2>4
<1> QED
  BY <1>6, <1>7, Offsets
-----------------------------------------------------------------------------
\* Where things are.

LEMMA Layout ==
  ASSUME stage \in {"boot", "loader"}
  PROVE  /\ KernelFile \in Nat /\ KernelFile > 2 /\ Loader = KernelFile + Seg /\ Loader \in Nat
         /\ Slots = 0..Loader + Seg - 1 /\ Seg \in Nat \ {0}
         /\ Base(stage) \in Nat /\ FatBuffer(stage) \in Nat /\ FatBuffer(stage) = Base(stage) - 2
         /\ stage = "boot" => Base(stage) = Loader /\ Target = "loader"
         /\ stage = "loader" => Base(stage) = KernelFile /\ Target = "kernel"
         /\ Target \in Names
  BY Sizes DEF KernelFile, Loader, Slots, Base, FatBuffer, Target, Names

LEMMA SectorType ==
  ASSUME NEW c \in Clusters \cup {0}
  PROVE  c \in Nat /\ SectorOf(c) \in Nat
  BY Sizes DEF Clusters, SectorOf, DeltaSectorNo, SectorNoOfRootDirectory

\* What a read asks for.
LEMMA PendingType ==
  ASSUME TypeOK
  PROVE  /\ Pending.sector \in Nat
         /\ pc = "read_root" => Pending = [sector |-> wSectorNo, count |-> 1, to |-> Base(stage)]
         /\ pc = "read_file" => Pending = [sector |-> SectorOf(cluster), count |-> 1, to |-> Base(stage) + bx]
         /\ pc = "read_fat" => Pending = [sector |-> SectorNoOfFAT1 + (FatOffset(cluster) \div BytsPerSec),
                                          count |-> 2, to |-> FatBuffer(stage)]
<1>1. wSectorNo \in Nat /\ cluster \in Clusters \cup {0}
  BY DEF TypeOK
<1>2. SectorOf(cluster) \in Nat /\ cluster \in Nat
  BY <1>1, SectorType
<1>3. FatOffset(cluster) \div BytsPerSec \in Nat
  BY <1>2, Sizes, Offsets, DivMod
<1>4. SectorNoOfFAT1 + (FatOffset(cluster) \div BytsPerSec) \in Nat
  BY <1>3 DEF SectorNoOfFAT1
<1> QED
  BY <1>1, <1>2, <1>4 DEF Pending, FatSectors

\* A read puts consecutive sectors where it was asked to and nothing elsewhere.
LEMMA ReadEffect ==
  ASSUME TypeOK, ReadSector
  PROVE  /\ mem' \in [Slots -> Nat \cup {Garbage}]
         /\ \A s \in Slots : mem'[s] = IF s \in Pending.to..Pending.to + Pending.count - 1
                                        THEN Pending.sector + (s - Pending.to) ELSE mem[s]
<1>1. Bios(Chs(Pending.sector)) = Pending.sector /\ Pending.sector \in Nat
  BY PendingType, BiosReadsSector
<1>2. mem' = [s \in Slots |-> IF s \in Pending.to..Pending.to + Pending.count - 1
                               THEN Pending.sector + (s - Pending.to) ELSE mem[s]]
  BY <1>1 DEF ReadSector
<1>3. Pending.to \in Nat /\ Pending.count \in Nat
  <2>1. stage \in {"boot", "loader"} /\ bx \in Nat /\ pc \in {"read_root", "read_file", "read_fat"}
    BY Sizes DEF TypeOK, ReadSector
  <2> QED
    BY <2>1, Layout, PendingType
<1>4. ASSUME NEW s \in Slots, s \in Pending.to..Pending.to + Pending.count - 1
      PROVE  Pending.sector + (s - Pending.to) \in Nat
  BY <1>1, <1>3, <1>4
<1>5. \A s \in Slots : mem[s] \in Nat \cup {Garbage}
  BY DEF TypeOK
<1> QED
  BY <1>2, <1>4, <1>5

LEMMA FailEffect ==
  ASSUME TypeOK, ReadFails
  PROVE  /\ mem' \in [Slots -> Nat \cup {Garbage}]
         /\ \A s \in Slots : s \notin Pending.to..Pending.to + Pending.count - 1 => mem'[s] = mem[s]
  BY DEF TypeOK, ReadFails
-----------------------------------------------------------------------------
\* The invariant holds at first, and every action keeps it.

LEMMA BootInit == Init => BootInv
<1> SUFFICES ASSUME Init
             PROVE  BootInv
  OBVIOUS
<1>1. TypeOK
  BY Sizes DEF Init, TypeOK, Slots, SectorNoOfRootDirectory, Stops, Ranges
<1>2. Seen
  <2>1. wSectorNo - SectorNoOfRootDirectory = 0 /\ left = RootDirSectors
    BY Sizes DEF Init, SectorNoOfRootDirectory
  <2>2. place[Target] # Absent => place[Target] >= 0
    BY Sizes DEF Init, Places, Target, Names
  <2> QED
    BY <2>1, <2>2, Sizes DEF Init, Seen, SectorNoOfRootDirectory
<1>3. Loading /\ KernelLoaded /\ LoaderIntact /\ Measured /\ Mapped /\ Copying
  BY DEF Init, Loading, KernelLoaded, LoaderIntact, Measured, Mapped, Copying
<1> QED
  BY <1>1, <1>2, <1>3 DEF BootInv

LEMMA BootStutter ==
  ASSUME BootInv, UNCHANGED vars
  PROVE  BootInv'
<1> USE DEF vars
<1>1. TypeOK'
  BY DEF BootInv, TypeOK
<1>2. Seen' /\ Loading' /\ KernelLoaded' /\ LoaderIntact'
  BY DEF BootInv, Seen, Loading, KernelLoaded, LoaderIntact, FileAt, Target, Base, FatBuffer, FatOffset
<1>3. Measured' /\ Mapped' /\ Copying'
  BY DEF BootInv, Measured, Mapped, Copying, Placed
<1> QED
  BY <1>1, <1>2, <1>3 DEF BootInv

LEMMA SearchStep ==
  ASSUME BootInv, SearchInRootDir
  PROVE  BootInv'
<1> USE DEF SearchInRootDir, disk, memory, program, BootInv
<1>1. TypeOK'
  BY Sizes DEF TypeOK, Stops
<1>2. Seen'
  <2>1. left \in Nat /\ wSectorNo \in Nat
    BY Sizes DEF TypeOK
  <2>2. SectorNoOfRootDirectory \in Nat /\ RootDirSectors \in Nat
    BY Sizes DEF SectorNoOfRootDirectory
  <2>3. Target' = Target
    BY DEF Target
  <2> QED
    BY <2>1, <2>2, <2>3 DEF Seen
<1>3. Loading' /\ KernelLoaded' /\ LoaderIntact' /\ Measured' /\ Mapped' /\ Copying'
  BY DEF Loading, KernelLoaded, LoaderIntact, Measured, Mapped, Copying
<1> QED
  BY <1>1, <1>2, <1>3

LEMMA ScanStep ==
  ASSUME BootInv, ScanEntries
  PROVE  BootInv'
<1> USE DEF ScanEntries, disk, memory, program, BootInv
<1> DEFINE found == \E e \in 0..DirEntries - 1 : place[Target] = EntryNo(mem[Base(stage)], e)
<1>1. stage \in {"boot", "loader"} /\ Target \in Names /\ Target' = Target /\ Base(stage)' = Base(stage)
  BY Layout DEF TypeOK, Target, Base
<1>2. files[Target] \in Seq(Clusters) /\ Len(files[Target]) \in 1..Seg
  BY <1>1, ChainShape DEF TypeOK
<1>3. Head(files[Target]) = files[Target][1] /\ Head(files[Target]) \in Clusters
  BY <1>2
<1>4. TypeOK'
  BY <1>3, Sizes DEF TypeOK, Stops
<1>5. Seen'
  <2>1. CASE found
    BY <2>1 DEF Seen
  <2>2. CASE ~ found
    <3> DEFINE q == wSectorNo - SectorNoOfRootDirectory
    <3>1. /\ left \in 0..RootDirSectors /\ wSectorNo \in Nat /\ SectorNoOfRootDirectory \in Nat
          /\ RootDirSectors \in Nat /\ DirEntries \in Nat \ {0}
      BY Sizes DEF TypeOK, SectorNoOfRootDirectory
    <3>2. /\ wSectorNo = SectorNoOfRootDirectory + RootDirSectors - left - 1
          /\ place[Target] # Absent => place[Target] >= q * DirEntries
          /\ mem[Base(stage)] = wSectorNo
      BY DEF Seen
    <3>3. \A e \in 0..DirEntries - 1 : place[Target] # q * DirEntries + e
      BY <2>2, <3>2 DEF EntryNo
    <3>4. q + 1 = wSectorNo' - SectorNoOfRootDirectory /\ (q + 1) * DirEntries = q * DirEntries + DirEntries
      BY <2>2, <3>1
    <3>5. place[Target] # Absent => place[Target] \in Nat
      BY <1>1 DEF TypeOK, Places
    <3>6. ASSUME place[Target] # Absent
          PROVE  place[Target] >= (q + 1) * DirEntries
      <4>1. q \in Int /\ q * DirEntries \in Int
        BY <3>1
      <4> DEFINE m == place[Target] - q * DirEntries
      <4>2. place[Target] = q * DirEntries + m /\ m \in Int
        BY <3>5, <3>6, <4>1
      <4> HIDE DEF m, q
      <4>3. m \notin 0..DirEntries - 1
        BY <4>2, <3>3
      <4> QED
        BY <4>1, <4>2, <4>3, <3>1, <3>2, <3>4, <3>5, <3>6
    <3>7. pc' = "root" /\ wSectorNo' = wSectorNo + 1 /\ left' = left /\ place' = place
      BY <2>2
    <3> QED
      BY <1>1, <3>1, <3>2, <3>4, <3>6, <3>7 DEF Seen
  <2> QED
    BY <2>1, <2>2
<1>6. Loading'
  <2>1. CASE found
    <3>1. pc' = "read_file" /\ bx' = 0 /\ cluster' = files[Target][1] /\ files' = files /\ mem' = mem
      BY <2>1, <1>3
    <3> QED
      BY <1>1, <1>2, <3>1 DEF Loading, FileAt
  <2>2. CASE ~ found
    BY <2>2 DEF Loading
  <2> QED
    BY <2>1, <2>2
<1>7. KernelLoaded' /\ LoaderIntact' /\ Measured' /\ Mapped' /\ Copying'
  BY DEF KernelLoaded, LoaderIntact, Measured, Mapped, Copying
<1> QED
  BY <1>4, <1>5, <1>6, <1>7

LEMMA FailStep ==
  ASSUME BootInv, ReadFails
  PROVE  BootInv'
<1> USE DEF ReadFails, disk, search, memory, program, BootInv
<1>1. /\ stage \in {"boot", "loader"} /\ bx \in 0..Seg - 1 /\ mem \in [Slots -> Nat \cup {Garbage}]
      /\ files \in Chains
  BY DEF TypeOK
<1>2. TypeOK'
  BY FailEffect, Sizes DEF TypeOK, Stops
<1>3. Target' = Target /\ Base(stage') = Base(stage) /\ FatBuffer(stage') = FatBuffer(stage)
  BY DEF Target
<1>4. Seen' /\ KernelLoaded' /\ Measured' /\ Mapped' /\ Copying'
  BY <1>3 DEF Seen, KernelLoaded, Measured, Mapped, Copying
<1>5. Loading'
  <2>1. ASSUME pc \in {"read_file", "read_fat"}
        PROVE  \A i \in 1..(IF pc = "read_file" THEN bx ELSE bx + 1) :
                 mem'[Base(stage) + i - 1] = mem[Base(stage) + i - 1]
    <3> TAKE i \in 1..(IF pc = "read_file" THEN bx ELSE bx + 1)
    <3>1. Base(stage) + i - 1 \in Slots
      BY <1>1, Layout
    <3>2. Base(stage) + i - 1 \notin Pending.to..Pending.to + Pending.count - 1
      BY <1>1, <2>1, Layout, PendingType
    <3> QED
      BY <3>1, <3>2, FailEffect
  <2> QED
    BY <1>3, <2>1 DEF Loading, FileAt
<1>6. LoaderIntact'
  <2>1. ASSUME stage = "loader", NEW i \in 1..Len(files["loader"])
        PROVE  mem'[Loader + i - 1] = mem[Loader + i - 1]
    <3>1. Loader + i - 1 \in Slots
      BY <1>1, Layout, ChainShape
    <3>2. Loader + i - 1 \notin Pending.to..Pending.to + Pending.count - 1
      BY <1>1, <2>1, Layout, PendingType
    <3> QED
      BY <3>1, <3>2, FailEffect
  <2> QED
    BY <2>1 DEF LoaderIntact
<1> QED
  BY <1>2, <1>4, <1>5, <1>6

LEMMA ReadStep ==
  ASSUME BootInv, ReadSector
  PROVE  BootInv'
<1> USE DEF disk, search, memory, program, BootInv
<1>0. /\ pc \in {"read_root", "read_file", "read_fat"}
      /\ pc = "read_root" => pc' = "scan"
      /\ pc = "read_file" => pc' = "read_fat"
      /\ pc = "read_fat" => pc' = "next"
      /\ UNCHANGED <<disk, stage, search, cluster, bx, errors, memory, program>>
  BY DEF ReadSector
<1>1. /\ stage \in {"boot", "loader"} /\ bx \in 0..Seg - 1 /\ mem \in [Slots -> Nat \cup {Garbage}]
      /\ files \in Chains /\ wSectorNo \in Nat /\ TypeOK
  BY DEF TypeOK
<1>2. TypeOK'
  BY <1>0, ReadEffect, Sizes DEF TypeOK, Stops
<1>3. Target' = Target /\ Base(stage') = Base(stage) /\ FatBuffer(stage') = FatBuffer(stage)
  BY <1>0 DEF Target
<1>4. Base(stage) \in Slots
  BY <1>1, Layout
<1>5. Seen'
  <2>1. CASE pc = "read_root"
    <3>1. mem'[Base(stage)] = wSectorNo
      <4>1. Pending.to = Base(stage) /\ Pending.count = 1 /\ Pending.sector = wSectorNo
        BY <1>1, <2>1, PendingType
      <4>2. Base(stage) \in Nat
        BY <1>1, Layout
      <4> QED
        BY <1>1, <1>4, <4>1, <4>2, ReadEffect
    <3> QED
      BY <1>0, <1>3, <2>1, <3>1 DEF Seen
  <2> QED
    BY <1>0, <2>1 DEF Seen
<1>6. KernelLoaded' /\ Measured' /\ Mapped' /\ Copying'
  BY <1>0 DEF KernelLoaded, Measured, Mapped, Copying
<1>7. Loading'
  <2> DEFINE k == IF pc = "read_file" THEN bx ELSE bx + 1
  <2>1. ASSUME pc \in {"read_file", "read_fat"}, NEW i \in 1..k
        PROVE  mem'[Base(stage) + i - 1] = mem[Base(stage) + i - 1]
    <3>1. Base(stage) + i - 1 \in Slots
      BY <1>1, Layout
    <3>2. Base(stage) + i - 1 \notin Pending.to..Pending.to + Pending.count - 1
      BY <1>1, <2>1, Layout, PendingType
    <3> QED
      BY <3>1, <3>2, <1>1, ReadEffect
  <2>2. ASSUME pc \in {"read_file", "read_fat"}
        PROVE  /\ bx + 1 <= Len(files[Target]) /\ cluster = files[Target][bx + 1]
               /\ \A i \in 1..k : mem'[Base(stage) + i - 1] = SectorOf(files[Target][i])
    BY <2>1, <2>2 DEF Loading, FileAt
  <2>3. CASE pc = "read_file"
    <3>1. Base(stage) + bx \in Slots
      BY <1>1, Layout
    <3>2. mem'[Base(stage) + bx] = SectorOf(cluster)
      <4>1. Pending.to = Base(stage) + bx /\ Pending.count = 1 /\ Pending.sector = SectorOf(cluster)
        BY <1>1, <2>3, PendingType
      <4>2. Base(stage) + bx \in Nat
        BY <1>1, Layout
      <4>3. Pending.sector \in Nat
        BY <1>1, PendingType
      <4> QED
        BY <1>1, <3>1, <4>1, <4>2, <4>3, ReadEffect
    <3>3. ASSUME NEW i \in 1..bx + 1
          PROVE  mem'[Base(stage) + i - 1] = SectorOf(files[Target][i])
      <4>1. CASE i = bx + 1
        <5>1. Base(stage) + i - 1 = Base(stage) + bx
          BY <1>1, <4>1, Layout
        <5> QED
          BY <2>2, <2>3, <3>2, <4>1, <5>1
      <4>2. CASE i # bx + 1
        <5>1. i \in 1..bx
          BY <1>1, <4>2
        <5> QED
          BY <2>2, <2>3, <5>1
      <4> QED
        BY <4>1, <4>2
    <3> QED
      BY <1>0, <1>3, <2>2, <2>3, <3>3 DEF Loading, FileAt
  <2>4. CASE pc = "read_fat"
    <3>1. FatBuffer(stage) + 0 \in Slots /\ FatBuffer(stage) + 1 \in Slots /\ FatBuffer(stage) \in Nat
      BY <1>1, Layout
    <3>2. SectorNoOfFAT1 + (FatOffset(cluster) \div BytsPerSec) \in Nat
      BY <1>1, <2>4, PendingType
    <3>3. \A j \in {0, 1} : mem'[FatBuffer(stage) + j]
                             = SectorNoOfFAT1 + (FatOffset(cluster) \div BytsPerSec) + j
      BY <1>1, <2>4, <3>1, <3>2, PendingType, ReadEffect
    <3> QED
      BY <1>0, <1>3, <2>2, <2>4, <3>3 DEF Loading, FileAt
  <2> QED
    BY <1>0, <2>3, <2>4 DEF Loading
<1>8. LoaderIntact'
  <2>1. ASSUME stage = "loader", NEW i \in 1..Len(files["loader"])
        PROVE  mem'[Loader + i - 1] = mem[Loader + i - 1]
    <3>1. Loader + i - 1 \in Slots
      BY <1>1, Layout, ChainShape
    <3>2. Loader + i - 1 \notin Pending.to..Pending.to + Pending.count - 1
      BY <1>0, <1>1, <2>1, Layout, PendingType
    <3> QED
      BY <3>1, <3>2, <1>1, ReadEffect
  <2> QED
    BY <1>0, <2>1 DEF LoaderIntact
<1> QED
  BY <1>2, <1>5, <1>6, <1>7, <1>8

LEMMA NextClusterStep ==
  ASSUME BootInv, NextCluster
  PROVE  BootInv'
<1> USE DEF disk, search, memory, program, BootInv
<1>1. /\ stage \in {"boot", "loader"} /\ bx \in 0..Seg - 1 /\ files \in Chains
      /\ Target \in Names /\ FatBuffer(stage) \in Nat
  BY Layout DEF TypeOK
<1>2. /\ bx + 1 \in 1..Len(files[Target]) /\ cluster = files[Target][bx + 1]
      /\ Len(files[Target]) \in 1..Seg /\ cluster \in Clusters
  BY <1>1, ChainShape DEF Loading, NextCluster
<1>3. GetFATEntry(cluster) = Fat(cluster)
  <2>1. cluster \in Nat
    BY <1>2, SectorType
  <2>2. \A k \in {0, 1} : mem[FatBuffer(stage) + k]
                           = SectorNoOfFAT1 + (FatOffset(cluster) \div BytsPerSec) + k
    BY DEF Loading, NextCluster
  <2> QED
    BY <1>1, <2>1, <2>2, EntryFound
<1>4. Fat(cluster) = IF bx + 1 < Len(files[Target]) THEN files[Target][bx + 2] ELSE EOC
  <2>1. Fat(files[Target][bx + 1]) = IF bx + 1 < Len(files[Target]) THEN files[Target][bx + 1 + 1] ELSE EOC
    BY <1>1, <1>2, FatIsNext
  <2> QED
    BY <1>1, <1>2, <2>1
<1>5. /\ bx + 1 < Len(files[Target]) /\ cluster' = files[Target][bx + 2] /\ bx' = bx + 1
      /\ pc' = "read_file" /\ pc = "next"
      /\ UNCHANGED <<disk, stage, search, mem, errors, memory, program>>
  <2>1. bx + 1 < Len(files[Target]) /\ cluster' = files[Target][bx + 2]
    BY <1>3, <1>4 DEF NextCluster
  <2>2. (bx + 1) % Seg = bx + 1
    BY <1>1, <1>2, <2>1, Sizes, DivModSmall
  <2> QED
    BY <2>1, <2>2 DEF NextCluster
<1>6. bx' \in 0..Seg - 1 /\ cluster' \in Clusters
  <2>1. files[Target] \in Seq(Clusters) /\ bx + 2 \in 1..Len(files[Target])
    BY <1>1, <1>2, <1>5, ChainShape
  <2> QED
    BY <1>1, <1>2, <1>5, <2>1, Sizes
<1>7. TypeOK'
  BY <1>5, <1>6 DEF TypeOK
<1>8. Loading'
  <2>1. Target' = Target
    BY <1>5 DEF Target
  <2>2. FileAt(Target, Base(stage), bx + 1)
    BY <1>5 DEF Loading
  <2>3. bx' + 1 = bx + 2 /\ bx + 2 <= Len(files[Target])
    BY <1>1, <1>2, <1>5
  <2> QED
    BY <1>5, <2>1, <2>2, <2>3 DEF Loading, FileAt
<1>9. Seen' /\ KernelLoaded' /\ LoaderIntact' /\ Measured' /\ Mapped' /\ Copying'
  BY <1>5 DEF Seen, KernelLoaded, LoaderIntact, Measured, Mapped, Copying
<1> QED
  BY <1>7, <1>8, <1>9

\* With the end of the chain found, the whole file is in memory.
LEMMA FileLoaded ==
  ASSUME BootInv, pc = "next", GetFATEntry(cluster) = EOC
  PROVE  FileAt(Target, Base(stage), Len(files[Target]))
<1>1. /\ stage \in {"boot", "loader"} /\ bx \in 0..Seg - 1 /\ files \in Chains
      /\ Target \in Names /\ FatBuffer(stage) \in Nat
  BY Layout DEF BootInv, TypeOK
<1>2. /\ bx + 1 \in 1..Len(files[Target]) /\ cluster = files[Target][bx + 1]
      /\ Len(files[Target]) \in 1..Seg /\ files[Target] \in Seq(Clusters)
      /\ FileAt(Target, Base(stage), bx + 1)
  BY <1>1, ChainShape DEF BootInv, Loading
<1>3. cluster \in Nat
  BY <1>2, SectorType
<1>4. GetFATEntry(cluster) = Fat(cluster)
  <2>1. \A k \in {0, 1} : mem[FatBuffer(stage) + k]
                           = SectorNoOfFAT1 + (FatOffset(cluster) \div BytsPerSec) + k
    BY DEF BootInv, Loading
  <2> QED
    BY <1>1, <1>3, <2>1, EntryFound
<1>5. CASE bx + 1 < Len(files[Target])
  <2>1. Fat(cluster) = files[Target][bx + 1 + 1]
    BY <1>1, <1>2, <1>5, FatIsNext
  <2>2. Fat(cluster) \in Clusters
    BY <1>1, <1>2, <1>5, <2>1
  <2> QED
    BY <1>4, <2>2, Sizes DEF Clusters, EOC
<1>6. CASE bx + 1 = Len(files[Target])
  BY <1>2, <1>6
<1> QED
  BY <1>1, <1>2, <1>5, <1>6

LEMMA RunLoaderStep ==
  ASSUME BootInv, RunLoader
  PROVE  BootInv'
<1> USE DEF RunLoader, disk, program, BootInv
<1>1. FileAt("loader", Loader, Len(files["loader"]))
  BY FileLoaded, Layout DEF TypeOK
<1>2. ards' \in Seq(Ranges) /\ mcr' \in {0, Len(ards')}
  <2>1. PICK m \in MemoryMaps : \/ ards' = m /\ mcr' = Len(m)
                                \/ ards' \in {SubSeq(m, 1, k) : k \in 0..Len(m) - 1} /\ mcr' = 0
    OBVIOUS
  <2>2. m \in Seq(Ranges)
    BY BootAssumption DEF Ranges
  <2>3. CASE ards' = m /\ mcr' = Len(m)
    BY <2>2, <2>3
  <2>4. CASE ards' \in {SubSeq(m, 1, k) : k \in 0..Len(m) - 1} /\ mcr' = 0
    <3>1. PICK k \in 0..Len(m) - 1 : ards' = SubSeq(m, 1, k)
      BY <2>4
    <3>2. k \in Nat /\ k <= Len(m)
      BY <2>2
    <3>3. SubSeq(m, 1, k) \in Seq(Ranges)
      BY <2>2, <3>2
    <3> QED
      BY <2>4, <3>1, <3>3
  <2> QED
    BY <2>1, <2>3, <2>4
<1>3. TypeOK'
  BY <1>2, Sizes DEF TypeOK, SectorNoOfRootDirectory
<1>4. Seen'
  <2>1. Target' = "kernel" /\ "kernel" \in Names
    BY DEF Target, Names
  <2>2. place["kernel"] \in {Absent} \cup 0..RootDirSectors * DirEntries - 1
    BY <2>1 DEF TypeOK, Places
  <2>3. SectorNoOfRootDirectory \in Nat /\ RootDirSectors \in Nat /\ DirEntries \in Nat
    BY Sizes DEF SectorNoOfRootDirectory
  <2>4. wSectorNo' = SectorNoOfRootDirectory + RootDirSectors - left' /\ wSectorNo' - SectorNoOfRootDirectory = 0
    BY <2>3
  <2>5. place["kernel"] # Absent => place["kernel"] >= 0
    BY <2>2, <2>3
  <2> QED
    BY <2>1, <2>3, <2>4, <2>5 DEF Seen
<1>5. LoaderIntact'
  BY <1>1 DEF LoaderIntact, FileAt
<1>6. Loading' /\ KernelLoaded' /\ Measured' /\ Mapped' /\ Copying'
  BY DEF Loading, KernelLoaded, Measured, Mapped, Copying
<1> QED
  BY <1>3, <1>4, <1>5, <1>6

LEMMA EnterStep ==
  ASSUME BootInv, EnterProtectedMode
  PROVE  BootInv'
<1> USE DEF EnterProtectedMode, disk, search, memory, program, BootInv
<1>1. FileAt("kernel", KernelFile, Len(files["kernel"]))
  BY FileLoaded, Layout DEF TypeOK
<1>2. TypeOK'
  BY DEF TypeOK
<1>3. KernelLoaded'
  BY <1>1 DEF KernelLoaded, FileAt
<1>4. range = 1 /\ memSize = 0
  BY DEF Measured
<1>5. Measured'
  <2>1. mcr \in Nat
    BY DEF TypeOK
  <2> QED
    BY <1>4, <2>1 DEF Measured
<1>6. Seen' /\ Loading' /\ LoaderIntact' /\ Mapped' /\ Copying'
  BY DEF Seen, Loading, LoaderIntact, Mapped, Copying
<1> QED
  BY <1>2, <1>3, <1>5, <1>6

\* Below 4G the addition of 32 bits is the sum.
LEMMA EndOfRange ==
  ASSUME NEW r \in Ranges
  PROVE  /\ r.base \in Nat /\ r.len \in Nat
         /\ r.type = 1 => End(r) = r.base + r.len
<1>1. AddressSpace \in Nat \ {0}
  BY BootAssumption
<1>2. r \in [base : Nat, len : Nat, type : {1, 2}] /\ (r.type = 1 => r.base + r.len < AddressSpace)
  BY DEF Ranges
<1>3. \A n \in Nat : n < AddressSpace => n % AddressSpace = n
  BY <1>1
<1> QED
  BY <1>2, <1>3 DEF End

LEMMA DispMemInfoStep ==
  ASSUME BootInv, DispMemInfo
  PROVE  BootInv'
<1> USE DEF DispMemInfo, disk, search, program, BootInv
<1>1. /\ ards \in Seq(Ranges) /\ mcr \in {0, Len(ards)} /\ range \in Nat /\ memSize \in Nat
      /\ stage = "loader" /\ range >= 1 /\ pc = "meminfo"
  BY DEF TypeOK, KernelLoaded, Measured
<1>2. CASE mcr = 0
  <2>1. TypeOK'
    BY <1>2 DEF TypeOK, Stops
  <2>2. range' = 1 /\ memSize' = memSize /\ ards' = ards /\ mcr' = 0 /\ pc' = "wild"
    BY <1>1, <1>2 DEF Measured
  <2>3. Measured'
    BY <2>2, <1>2 DEF Measured
  <2>4. Seen' /\ Loading' /\ KernelLoaded' /\ LoaderIntact' /\ Mapped' /\ Copying'
    BY <1>1, <1>2 DEF Seen, Loading, KernelLoaded, LoaderIntact, Mapped, Copying
  <2> QED
    BY <2>1, <2>3, <2>4
<1>3. CASE mcr # 0
  <2>1. mcr = Len(ards) /\ mcr \in Nat \ {0} /\ range \in 1..Len(ards)
    BY <1>1, <1>3 DEF Measured
  <2>2. ards[range] \in Ranges
    BY <1>1, <2>1
  <2>3. /\ memSize' \in Nat /\ memSize' >= memSize
        /\ ards[range].type = 1 => ards[range].base + ards[range].len <= memSize'
    BY <1>1, <1>3, <2>2, EndOfRange DEF Higher
  <2>4. /\ range' = range + 1 /\ pc' = (IF range = mcr THEN "paging" ELSE "meminfo")
        /\ UNCHANGED <<disk, stage, search, cluster, bx, mem, errors, ards, mcr, paging, program>>
    BY <1>1, <1>3
  <2>5. TypeOK'
    BY <1>1, <2>3, <2>4 DEF TypeOK
  <2>6. \A i \in 1..range' - 1 : ards[i].type = 1 => ards[i].base + ards[i].len <= memSize'
    <3> TAKE i \in 1..range' - 1
    <3>1. i \in 1..range - 1 \/ i = range
      BY <1>1, <2>4
    <3>2. CASE i \in 1..range - 1
      <4>1. ards[i] \in Ranges
        BY <1>1, <2>1, <3>2
      <4>2. ards[i].type = 1 => ards[i].base + ards[i].len <= memSize
        BY <3>2 DEF Measured
      <4> QED
        BY <1>1, <2>3, <4>1, <4>2 DEF Ranges
    <3> QED
      BY <2>3, <3>1, <3>2
  <2>7. Measured'
    BY <1>1, <2>1, <2>4, <2>6 DEF Measured
  <2>8. Seen' /\ Loading' /\ KernelLoaded' /\ LoaderIntact' /\ Mapped' /\ Copying'
    BY <1>1, <2>4 DEF Seen, Loading, KernelLoaded, LoaderIntact, Mapped, Copying, FileAt
  <2> QED
    BY <2>5, <2>7, <2>8
<1> QED
  BY <1>2, <1>3

\* The tables are enough for the memory, and there is none only for no memory.
LEMMA TablesEnough ==
  ASSUME NEW size \in Nat
  PROVE  /\ Tables(size) \in Nat /\ size <= Tables(size) * Tbl
         /\ Tables(size) = 0 => size = 0
<1>0. Tbl \in Nat \ {0}
  BY Sizes
<1>1. /\ size \div Tbl \in Nat /\ size % Tbl \in 0..Tbl - 1 /\ Tbl \in Nat \ {0}
      /\ size = (size \div Tbl) * Tbl + (size % Tbl)
  BY <1>0, DivMod
<1> DEFINE q == size \div Tbl
           m == size % Tbl
<1>2. Tables(size) = q + (IF m = 0 THEN 0 ELSE 1)
  BY DEF Tables
<1> HIDE DEF q, m
<1>3. q \in Nat /\ m \in 0..Tbl - 1 /\ size = q * Tbl + m
  BY <1>1 DEF q, m
<1>4. (q + 1) * Tbl = q * Tbl + Tbl
  BY <1>1, <1>3
<1>5. CASE m = 0
  BY <1>1, <1>2, <1>3, <1>5
<1>6. CASE m # 0
  BY <1>1, <1>2, <1>3, <1>4, <1>6
<1> QED
  BY <1>5, <1>6

LEMMA SetupPagingStep ==
  ASSUME BootInv, SetupPaging
  PROVE  BootInv'
<1> USE DEF SetupPaging, disk, search, BootInv
<1>1. /\ memSize \in Nat /\ stage = "loader" /\ pc = "paging" /\ mcr > 0 /\ range = mcr + 1
  BY DEF TypeOK, KernelLoaded, Measured
<1>2. Tables(memSize) \in Nat /\ (Tables(memSize) = 0 => memSize = 0)
  BY <1>1, TablesEnough
<1>3. /\ headers' \in Programs /\ pc' \in {"wild", "init_kernel"}
      /\ \A i \in 1..Len(headers') : headers'[i].off + headers'[i].size <= Len(files["kernel"])
      /\ UNCHANGED <<disk, stage, search, cluster, bx, mem, errors, ards, mcr, range, memSize, ph>>
  OBVIOUS
<1>4. TypeOK'
  BY <1>3 DEF TypeOK, Stops
<1>5. Measured'
  BY <1>1, <1>2, <1>3 DEF Measured
<1>6. Mapped'
  BY <1>2 DEF Mapped
<1>7. Copying'
  <2>1. ph = 1 /\ ph' = 1
    BY <1>1, <1>3 DEF Copying
  <2>2. Len(headers') \in Nat \ {0}
    BY <1>3, ProgramAssumption
  <2>3. Placed(ph - 1)'
    BY <2>1 DEF Placed
  <2> QED
    BY <1>3, <2>1, <2>2, <2>3 DEF Copying
<1>8. Seen' /\ Loading' /\ KernelLoaded' /\ LoaderIntact'
  BY <1>1, <1>3 DEF Seen, Loading, KernelLoaded, LoaderIntact, FileAt
<1> QED
  BY <1>4, <1>5, <1>6, <1>7, <1>8

\* Copying a part of KERNEL.BIN to an address below it moves that part, and
\* leaves alone what is not at the address.
LEMMA CopiedSegment ==
  ASSUME NEW dst \in Nat, NEW off \in Nat, NEW size \in Nat,
         off + size <= Seg, dst + size <= KernelFile,
         mem \in [Slots -> Nat \cup {Garbage}],
         NEW copy, copy = Copied(dst, KernelFile + off, size)
  PROVE  /\ copy \in [Slots -> Nat \cup {Garbage}]
         /\ \A s \in Slots : s \notin dst..dst + size - 1 => copy[s] = mem[s]
         /\ \A j \in 0..size - 1 : dst + j \in Slots /\ copy[dst + j] = mem[KernelFile + off + j]
<1>1. Slots = 0..KernelFile + Seg + Seg - 1 /\ KernelFile \in Nat /\ Seg \in Nat
  BY Sizes DEF Slots, Loader, KernelFile
<1>2. copy = [s \in Slots |-> IF s \in dst..dst + size - 1
                              THEN mem[(KernelFile + off) + (s - dst)] ELSE mem[s]]
  BY DEF Copied
<1>3. ASSUME NEW s \in Slots, s \in dst..dst + size - 1
      PROVE  (KernelFile + off) + (s - dst) \in Slots
  BY <1>1, <1>3
<1>4. ASSUME NEW j \in 0..size - 1
      PROVE  dst + j \in Slots /\ copy[dst + j] = mem[KernelFile + off + j]
  <2>1. dst + j \in Slots /\ dst + j \in dst..dst + size - 1
    BY <1>1
  <2>2. (KernelFile + off) + ((dst + j) - dst) = KernelFile + off + j
    BY <1>1
  <2> QED
    BY <1>2, <2>1, <2>2
<1>5. copy \in [Slots -> Nat \cup {Garbage}]
  BY <1>2, <1>3
<1>6. \A s \in Slots : s \notin dst..dst + size - 1 => copy[s] = mem[s]
  BY <1>2
<1> QED
  BY <1>4, <1>5, <1>6

LEMMA InitKernelStep ==
  ASSUME BootInv, InitKernel
  PROVE  BootInv'
<1> USE DEF BootInv, disk, search, memory
<1>1. /\ files \in Chains /\ mem \in [Slots -> Nat \cup {Garbage}] /\ stage = "loader"
      /\ pc = "init_kernel" /\ headers \in Programs /\ ph \in 1..Len(headers)
      /\ Len(headers) \in Nat \ {0} /\ Placed(ph - 1)
      /\ FileAt("kernel", KernelFile, Len(files["kernel"]))
      /\ \A i \in 1..Len(headers) : headers[i].off + headers[i].size <= Len(files["kernel"])
  <2>1. headers \in Programs
    BY DEF InitKernel, Copying
  <2>2. Len(headers) \in Nat \ {0}
    BY <2>1, ProgramAssumption
  <2> QED
    BY <2>1, <2>2 DEF InitKernel, TypeOK, Copying, KernelLoaded
<1>2. /\ ph' = ph + 1 /\ pc' = (IF ph = Len(headers) THEN "kernel" ELSE "init_kernel")
      /\ UNCHANGED <<disk, stage, search, cluster, bx, errors, memory, headers>>
  BY <1>1 DEF InitKernel
<1>3. /\ Loader = KernelFile + Seg /\ KernelFile \in Nat /\ Seg \in Nat /\ Loader \in Nat
      /\ KernelFile = ImageSlots + 2 /\ Slots = 0..Loader + Seg - 1
      /\ Len(files["kernel"]) \in 1..Seg /\ Len(files["loader"]) \in 1..Seg
  BY <1>1, Layout, ChainShape DEF Names, KernelFile
<1> DEFINE h == headers[ph]
<1>4. \A i \in 1..Len(headers) :
        headers[i].off \in Nat /\ headers[i].vaddr \in Nat /\ headers[i].size \in Nat
  <2> DEFINE Header == [type : Nat, off : Nat, vaddr : Nat, size : Nat]
  <2>1. headers \in Seq(Header)
    BY <1>1, ProgramAssumption
  <2>2. \A x \in Header : x.off \in Nat /\ x.vaddr \in Nat /\ x.size \in Nat
    OBVIOUS
  <2> HIDE DEF Header
  <2>3. \A i \in 1..Len(headers) : headers[i] \in Header
    BY <2>1
  <2> QED
    BY <2>2, <2>3
<1>5. /\ \A i \in 1..Len(headers) : headers[i].type # 0 => headers[i].vaddr + headers[i].size <= KernelFile
      /\ \A i, j \in 1..Len(headers) : i < j /\ headers[i].type # 0 /\ headers[j].type # 0 =>
           \/ headers[i].vaddr + headers[i].size <= headers[j].vaddr
           \/ headers[j].vaddr + headers[j].size <= headers[i].vaddr
  BY <1>1, <1>3, ProgramAssumption DEF Loaded
<1>6. CASE h.type = 0
  <2>1. mem' = mem
    BY <1>6 DEF InitKernel
  <2>2. Placed(ph)
    <3>1. SUFFICES ASSUME NEW i \in 1..ph, headers[i].type # 0
                   PROVE  \A j \in 0..headers[i].size - 1 :
                            mem[headers[i].vaddr + j] = SectorOf(files["kernel"][headers[i].off + j + 1])
      BY DEF Placed
    <3>2. i \in 1..ph - 1
      BY <1>1, <1>6, <3>1
    <3> QED
      BY <1>1, <3>1, <3>2 DEF Placed
  <2>3. TypeOK' /\ LoaderIntact'
    BY <1>1, <1>2, <2>1 DEF TypeOK, Stops, LoaderIntact
  <2>4. Copying'
    BY <1>1, <1>2, <2>1, <2>2 DEF Copying, Placed
  <2>5. KernelLoaded'
    BY <1>1, <1>2, <2>1 DEF KernelLoaded, FileAt
  <2>6. Seen' /\ Loading' /\ Measured' /\ Mapped'
    BY <1>1, <1>2 DEF Seen, Loading, Measured, Mapped
  <2> QED
    BY <2>3, <2>4, <2>5, <2>6
<1>7. CASE h.type # 0
  <2> DEFINE dst == h.vaddr
             off == h.off
             size == h.size
  <2>1. mem' = Copied(dst, KernelFile + off, size)
    BY <1>7 DEF InitKernel
  <2>2. /\ off \in Nat /\ dst \in Nat /\ size \in Nat
        /\ dst + size <= KernelFile /\ off + size <= Len(files["kernel"])
    BY <1>1, <1>4, <1>5, <1>7
  <2> HIDE DEF dst, off, size
  <2>3. off + size <= Seg
    BY <1>3, <2>2
  <2>4. /\ mem' \in [Slots -> Nat \cup {Garbage}]
        /\ \A s \in Slots : s \notin dst..dst + size - 1 => mem'[s] = mem[s]
        /\ \A j \in 0..size - 1 : dst + j \in Slots /\ mem'[dst + j] = mem[KernelFile + off + j]
    <3> DEFINE copy == Copied(dst, KernelFile + off, size)
    <3>1. copy = Copied(dst, KernelFile + off, size)
      OBVIOUS
    <3> HIDE DEF copy
    <3>2. /\ copy \in [Slots -> Nat \cup {Garbage}]
          /\ \A s \in Slots : s \notin dst..dst + size - 1 => copy[s] = mem[s]
          /\ \A j \in 0..size - 1 : dst + j \in Slots /\ copy[dst + j] = mem[KernelFile + off + j]
      BY <1>1, <2>2, <2>3, <3>1, CopiedSegment
    <3> QED
      BY <2>1, <3>1, <3>2
  <2>5. ASSUME NEW s \in Nat, s >= KernelFile, s < KernelFile + Seg + Seg
        PROVE  mem'[s] = mem[s]
    <3>1. s \in Slots
      BY <1>3, <2>5
    <3>2. s \notin dst..dst + size - 1
      BY <1>3, <2>2, <2>5
    <3> QED
      BY <2>4, <3>1, <3>2
  <2>6. TypeOK'
    BY <1>1, <1>2, <2>4 DEF TypeOK, Stops
  <2>7. LoaderIntact'
    <3>1. ASSUME NEW i \in 1..Len(files["loader"])
          PROVE  mem'[Loader + i - 1] = mem[Loader + i - 1]
      <4>1. i \in Nat /\ 1 <= i /\ i <= Seg
        BY <1>3
      <4>2. KernelFile \in Nat /\ Seg \in Nat /\ Loader = KernelFile + Seg
        BY <1>3
      <4>3. Loader + i - 1 \in Nat /\ Loader + i - 1 >= KernelFile /\ Loader + i - 1 < KernelFile + Seg + Seg
        BY <4>1, <4>2
      <4> QED
        BY <2>5, <4>3
    <3> QED
      BY <1>1, <1>2, <3>1 DEF LoaderIntact
  <2>8. KernelLoaded'
    <3>1. ASSUME NEW i \in 1..Len(files["kernel"])
          PROVE  mem'[KernelFile + i - 1] = mem[KernelFile + i - 1]
      <4>1. i \in Nat /\ 1 <= i /\ i <= Seg
        BY <1>3
      <4>2. KernelFile \in Nat /\ Seg \in Nat
        BY <1>3
      <4>3. KernelFile + i - 1 \in Nat /\ KernelFile + i - 1 >= KernelFile /\ KernelFile + i - 1 < KernelFile + Seg + Seg
        BY <4>1, <4>2
      <4> QED
        BY <2>5, <4>3
    <3> QED
      BY <1>1, <1>2, <3>1 DEF KernelLoaded, FileAt
  <2>9. ASSUME NEW i \in 1..ph - 1, headers[i].type # 0, NEW j \in 0..headers[i].size - 1
        PROVE  mem'[headers[i].vaddr + j] = SectorOf(files["kernel"][headers[i].off + j + 1])
    <3> DEFINE v == headers[i].vaddr
               n == headers[i].size
    <3>1. i \in 1..Len(headers) /\ i < ph
      BY <1>1
    <3>2. v \in Nat /\ n \in Nat /\ v + n <= KernelFile /\ (v + n <= dst \/ dst + size <= v)
      BY <1>1, <1>4, <1>5, <1>7, <2>9, <3>1 DEF dst, size
    <3>3. mem[v + j] = SectorOf(files["kernel"][headers[i].off + j + 1])
      BY <1>1, <2>9 DEF Placed
    <3>4. j \in 0..n - 1
      OBVIOUS
    <3> HIDE DEF v, n
    <3>5. v + j \in Slots /\ v + j \notin dst..dst + size - 1
      <4>1. j \in Nat /\ v + j < v + n /\ v + j \in Nat /\ v + j < KernelFile
        BY <1>3, <3>2, <3>4
      <4>2. v + j \in Slots
        BY <1>3, <4>1
      <4>3. v + j < dst \/ v + j > dst + size - 1
        BY <2>2, <3>2, <4>1
      <4> QED
        BY <2>2, <4>1, <4>2, <4>3
    <3>6. mem'[v + j] = SectorOf(files["kernel"][headers[i].off + j + 1])
      BY <2>4, <3>3, <3>5
    <3> QED
      BY <3>6 DEF v
  <2>10. Copying'
    <3>1. ASSUME NEW j \in 0..size - 1
          PROVE  mem'[dst + j] = SectorOf(files["kernel"][off + j + 1])
      <4>1. off + j + 1 \in 1..Len(files["kernel"])
        BY <1>3, <2>2
      <4>2. KernelFile + (off + j + 1) - 1 = KernelFile + off + j
        BY <1>3, <2>2
      <4> QED
        BY <1>1, <2>4, <4>1, <4>2 DEF FileAt
    <3>2. ASSUME NEW i \in 1..ph, headers[i].type # 0, NEW j \in 0..headers[i].size - 1
          PROVE  mem'[headers[i].vaddr + j] = SectorOf(files["kernel"][headers[i].off + j + 1])
      <4>1. CASE i = ph
        BY <3>1, <4>1 DEF dst, off, size
      <4>2. CASE i # ph
        BY <1>1, <2>9, <3>2, <4>2
      <4> QED
        BY <4>1, <4>2
    <3>3. Placed(ph - 1)'
      BY <1>1, <1>2, <3>2 DEF Placed
    <3> QED
      BY <1>1, <1>2, <3>3 DEF Copying
  <2>11. Seen' /\ Loading' /\ Measured' /\ Mapped'
    BY <1>1, <1>2 DEF Seen, Loading, Measured, Mapped
  <2> QED
    BY <2>6, <2>7, <2>8, <2>10, <2>11
<1> QED
  BY <1>6, <1>7

LEMMA BootNext ==
  ASSUME BootInv, [Next]_vars
  PROVE  BootInv'
<1>1. CASE ReadSector
  BY <1>1, ReadStep
<1>2. CASE ReadFails
  BY <1>2, FailStep
<1>3. CASE SearchInRootDir
  BY <1>3, SearchStep
<1>4. CASE ScanEntries
  BY <1>4, ScanStep
<1>5. CASE NextCluster
  BY <1>5, NextClusterStep
<1>6. CASE RunLoader
  BY <1>6, RunLoaderStep
<1>7. CASE EnterProtectedMode
  BY <1>7, EnterStep
<1>8. CASE DispMemInfo
  BY <1>8, DispMemInfoStep
<1>9. CASE SetupPaging
  BY <1>9, SetupPagingStep
<1>10. CASE InitKernel
  BY <1>10, InitKernelStep
<1>11. CASE Stay \/ UNCHANGED vars
  BY <1>11, BootStutter DEF Stay
<1> QED
  BY <1>1, <1>2, <1>3, <1>4, <1>5, <1>6, <1>7, <1>8, <1>9, <1>10, <1>11 DEF Next
-----------------------------------------------------------------------------
\* The search, the load, the FAT, the memory map and the copying, at any step
\* (boot1.asm, loader2.asm).
THEOREM BootInvariant == Spec => []BootInv
<1>1. Init => BootInv
  BY BootInit
<1>2. BootInv /\ [Next]_vars => BootInv'
  BY BootNext
<1> QED
  BY <1>1, <1>2, PTL DEF Spec

\* From the boot sector's jump on, the loader is whole and in order in memory,
\* however its clusters are scattered and whichever reads fail
\* (boot1.asm, LABEL_FILE_LOADED).
THEOREM LoaderRunsWhole == Spec => []LoaderIntact
<1>1. BootInv => LoaderIntact
  BY DEF BootInv
<1> QED
  BY <1>1, BootInvariant, PTL

\* When the loader jumps to the kernel, every segment of KERNEL.BIN is where its
\* program header wants it (loader2.asm, InitKernel).
THEOREM KernelRunsInPlace == Spec => []KernelInPlace
<1>1. ASSUME BootInv
      PROVE  KernelInPlace
  <2>1. SUFFICES ASSUME pc = "kernel"
                 PROVE  \A i \in 1..Len(headers) : headers[i].type # 0 =>
                          \A k \in 0..headers[i].size - 1 :
                            mem[headers[i].vaddr + k]
                              = SectorOf(files["kernel"][headers[i].off + k + 1])
    BY DEF KernelInPlace
  <2>2. ph = Len(headers) + 1 /\ Placed(ph - 1) /\ headers \in Programs
    BY <1>1, <2>1 DEF BootInv, Copying
  <2>3. Len(headers) \in Nat
    BY <2>2, ProgramAssumption
  <2>4. Placed(Len(headers))
    BY <2>2, <2>3
  <2> QED
    BY <2>4 DEF Placed
<1> QED
  BY <1>1, BootInvariant, PTL

\* "No LOADER" and "No KERNEL" are said of a directory searched to its last
\* entry, and the code runs away only with no usable memory
\* (boot1.asm, LABEL_NO_LOADERBIN; loader2.asm, DispMemInfo).
THEOREM BootStopsForAReason == Spec => []StopsForAReason
<1>1. ASSUME BootInv
      PROVE  StopsForAReason
  <2>1. ASSUME pc = "missing"
        PROVE  place[Target] = Absent
    <3> DEFINE all == RootDirSectors * DirEntries
    <3>1. wSectorNo = SectorNoOfRootDirectory + RootDirSectors - left - 0 /\ left = 0
      <4>1. ~ (pc \in {"read_root", "scan"})
        BY <2>1
      <4> QED
        BY <1>1, <2>1, <4>1 DEF BootInv, Seen
    <3>2. place[Target] # Absent => place[Target] >= (wSectorNo - SectorNoOfRootDirectory) * DirEntries
      BY <1>1, <2>1 DEF BootInv, Seen
    <3>3. wSectorNo - SectorNoOfRootDirectory = RootDirSectors
      BY <3>1, Sizes DEF SectorNoOfRootDirectory
    <3>4. all \in Nat
      BY Sizes
    <3>5. place[Target] # Absent => place[Target] >= all
      BY <3>2, <3>3
    <3>6. place[Target] \in {Absent} \cup 0..all - 1
      BY <1>1, Layout DEF BootInv, TypeOK, Places
    <3> HIDE DEF all
    <3> QED
      BY <3>4, <3>5, <3>6
  <2>2. ASSUME pc = "wild", NEW i \in 1..mcr, ards[i].type = 1
        PROVE  ards[i].len = 0
    <3>1. mcr \in {0, Len(ards)} /\ ards \in Seq(Ranges)
      BY <1>1 DEF BootInv, TypeOK
    <3>2. mcr = Len(ards) /\ mcr # 0
      BY <3>1, <2>2
    <3>3. memSize = 0 /\ range = mcr + 1
      BY <1>1, <2>2, <3>2 DEF BootInv, Measured
    <3>4. i \in 1..range - 1 /\ ards[i] \in Ranges
      BY <3>1, <3>2, <3>3
    <3>5. ards[i].base + ards[i].len <= 0
      BY <1>1, <2>2, <3>3, <3>4 DEF BootInv, Measured
    <3> QED
      BY <3>4, <3>5 DEF Ranges
  <2> QED
    BY <2>1, <2>2 DEF StopsForAReason
<1> QED
  BY <1>1, BootInvariant, PTL

\* With paging on, all the memory the BIOS calls usable is mapped, each page to
\* itself, for every size of memory (loader2.asm, SetupPaging).
THEOREM MemoryIsMapped == Spec => []MemoryMapped
<1>1. ASSUME BootInv
      PROVE  MemoryMapped
  <2>1. SUFFICES ASSUME pc \in {"init_kernel", "kernel"}
                 PROVE  /\ \A i \in 1..Len(ards) : ards[i].type = 1 =>
                             ards[i].base + ards[i].len <= Cardinality(DOMAIN paging.pde) * Tbl
                        /\ \A p \in DOMAIN paging.pte : Translate(p) = p
    BY DEF MemoryMapped
  <2> DEFINE n == Tables(memSize)
  <2>2. memSize \in Nat /\ n \in Nat /\ memSize <= n * Tbl /\ Tbl \in Nat \ {0}
    <3>1. memSize \in Nat
      BY <1>1 DEF BootInv, TypeOK
    <3> QED
      BY <3>1, TablesEnough, Sizes
  <2>3. n > 0 /\ paging = [pde |-> [i \in 0..n - 1 |-> i], pte |-> [p \in 0..n * Tbl - 1 |-> p]]
    BY <1>1, <2>1 DEF BootInv, Mapped
  <2> HIDE DEF n
  <2>4. ASSUME NEW i \in 1..Len(ards), ards[i].type = 1
        PROVE  ards[i].base + ards[i].len <= Cardinality(DOMAIN paging.pde) * Tbl
    <3>1. /\ ards \in Seq(Ranges) /\ mcr \in {0, Len(ards)} /\ mcr > 0 /\ range = mcr + 1
      BY <1>1, <2>1 DEF BootInv, TypeOK, Measured
    <3>2. i \in 1..range - 1 /\ ards[i] \in Ranges
      BY <3>1
    <3>3. ards[i].base + ards[i].len <= memSize
      BY <1>1, <2>4, <3>2 DEF BootInv, Measured
    <3>4. Cardinality(DOMAIN paging.pde) = n
      <4>1. DOMAIN paging.pde = 0..n - 1
        BY <2>3
      <4>2. Cardinality(0..n - 1) = n
        BY <2>2, <2>3, FS_Interval
      <4> QED
        BY <4>1, <4>2
    <3>5. n * Tbl \in Nat /\ ards[i].base + ards[i].len \in Nat
      BY <2>2, <3>2 DEF Ranges
    <3> QED
      BY <2>2, <3>3, <3>4, <3>5
  <2>5. ASSUME NEW p \in DOMAIN paging.pte
        PROVE  Translate(p) = p
    <3>1. p \in 0..n * Tbl - 1
      BY <2>3, <2>5
    <3>2. p \in Nat /\ p < n * Tbl
      BY <2>2, <3>1
    <3> DEFINE q == p \div Tbl
               m == p % Tbl
    <3>3. q \in Nat /\ m \in 0..Tbl - 1 /\ p = q * Tbl + m
      BY <2>2, <3>2, DivMod
    <3>4. q \in 0..n - 1
      <4>1. CASE q >= n
        <5>1. q * Tbl >= n * Tbl
          BY <2>2, <3>3, <4>1
        <5>2. q * Tbl \in Nat /\ n * Tbl \in Nat
          BY <2>2, <3>3
        <5> HIDE DEF q, m
        <5> QED
          BY <2>2, <3>2, <3>3, <5>1, <5>2
      <4> QED
        BY <2>2, <3>3, <4>1
    <3>5. paging.pde[q] = q
      BY <2>3, <3>4
    <3>6. Translate(p) = paging.pte[q * Tbl + m]
      BY <3>5 DEF Translate
    <3> QED
      BY <2>3, <3>1, <3>3, <3>6
  <2> QED
    BY <2>4, <2>5
<1> QED
  BY <1>1, BootInvariant, PTL
=============================================================================

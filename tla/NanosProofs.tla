---------------------------- MODULE NanosProofs ----------------------------
(***************************************************************************)
(* Proofs about Nanos-lite and what programs see of it: files (Fs), system *)
(* calls and the loader (Trap), the way of a key to an application (Input) *)
(* and of a picture to the screen (Video, on Fs).  Trap and Input share no *)
(* state with the others; they are in one module for the facts about       *)
(* numbers and sequences at its beginning.                                 *)
(***************************************************************************)
EXTENDS Video, Trap, Input, TLAPS, WellFoundedInduction, NaturalsInduction, SequenceTheorems

-----------------------------------------------------------------------------
(* Numbers                                                                 *)

\* Every nonempty set of numbers has a least one.
LEMMA LeastNumber ==
    ASSUME NEW S \in SUBSET Nat, S # {}
    PROVE  \E m \in S : \A k \in S : m <= k
  <1> DEFINE R == {ss \in Nat \X Nat : ss[1] < ss[2]}
  <1>1. IsWellFoundedOn(R, Nat)
    BY NatLessThanWellFounded, Zenon DEF OpToRel
  <1>2. PICK m \in S : \A k \in S : ~(<<k, m>> \in R)
    <2> HIDE DEF R
    <2> QED
      BY <1>1, WFMin, Zenon
  <1>3. ASSUME NEW k \in S PROVE m <= k
    <2>1. k < m => <<k, m>> \in R
      <3> DEFINE pair == <<k, m>>
      <3>1. pair \in Nat \X Nat /\ pair[1] = k /\ pair[2] = m
        OBVIOUS
      <3> HIDE DEF pair
      <3>2. k < m => pair \in R
        BY <3>1
      <3> QED
        BY <3>2 DEF pair
    <2> QED
      BY <1>2, <2>1
  <1> QED
    BY <1>3

\* Quotient and remainder make the number.
LEMMA DivMod ==
    ASSUME NEW n \in Int, NEW d \in Nat \ {0}
    PROVE  /\ n \div d \in Int
           /\ n % d \in 0 .. d - 1
           /\ n = d * (n \div d) + (n % d)
  <1>1. n \div d \in Int
    OBVIOUS
  <1>2. n % d \in 0 .. d - 1
    OBVIOUS
  <1>3. n = d * (n \div d) + (n % d)
    OBVIOUS
  <1> QED
    BY <1>1, <1>2, <1>3

\* They are the only numbers that do.
LEMMA DivModIs ==
    ASSUME NEW n \in Int, NEW d \in Nat \ {0}, NEW q \in Int, NEW r \in 0 .. d - 1, n = d * q + r
    PROVE  n \div d = q /\ n % d = r
  <1>1. n \div d \in Int /\ n % d \in 0 .. d - 1 /\ n = d * (n \div d) + (n % d)
    BY DivMod
  <1>2. ASSUME NEW p \in Int, NEW s \in 0 .. d - 1, d * p + s = d * q + r PROVE p = q
    <2>1. CASE p < q
      <3>1. d * (p + 1) <= d * q
        BY <2>1
      <3> QED
        BY <1>2, <3>1
    <2>2. CASE q < p
      <3>1. d * (q + 1) <= d * p
        BY <2>2
      <3> QED
        BY <1>2, <3>1
    <2> QED
      BY <2>1, <2>2
  <1>3. n \div d = q
    BY <1>1, <1>2
  <1> QED
    BY <1>1, <1>3

\* A number of two digits is less than the product of their bases.
LEMMA Below ==
    ASSUME NEW A \in Nat \ {0}, NEW B \in Nat \ {0}, NEW l \in 0 .. A - 1, NEW n \in 0 .. B - 1
    PROVE  l * B + n \in 0 .. A * B - 1
  <1>1. l * B <= (A - 1) * B
    OBVIOUS
  <1>2. l * B >= 0 /\ l * B \in Int
    OBVIOUS
  <1> QED
    BY <1>1, <1>2

\* Remainders go round.
LEMMA Remainder ==
    ASSUME NEW d \in Nat \ {0}, NEW i \in Nat
    PROVE  /\ i % d \in 0 .. d - 1
           /\ i < d => i % d = i
           /\ i >= d => i % d = (i - d) % d
  <1>1. i \div d \in Int /\ i % d \in 0 .. d - 1 /\ i = d * (i \div d) + (i % d)
    BY DivMod
  <1>2. i < d => i % d = i
    OBVIOUS
  <1>3. ASSUME NEW q \in Int, NEW r \in 0 .. d - 1, i = d * q + r
        PROVE  (i - d) % d = r
    <2>1. i - d = d * (q - 1) + r /\ i - d \in Int /\ q - 1 \in Int
      BY <1>3
    <2> QED
      BY <2>1, DivModIs
  <1> QED
    BY <1>1, <1>2, <1>3

-----------------------------------------------------------------------------
(* Fs: for every set of files, every ramdisk and every sequence of calls   *)

Entries == {FB_DEV} \union Files

Inv == TypeOK /\ RamdiskInBounds

-----------------------------------------------------------------------------
(* Sizes and transfers.                                                    *)

\* The size of the frame buffer.
LEMMA FbSizeNat == FbSize \in Nat
BY ScreenAssumption DEF FbSize

\* The entries with an offset are those from FB_DEV on.
LEMMA EntriesFrom ==
    ASSUME NEW fd \in Table
    PROVE  /\ fd >= FB_DEV <=> fd \in Entries
           /\ fd < FB_DEV <=> fd \notin Entries
           /\ fd \in Int
           /\ fd \in Files => fd # FB_DEV
BY FsAssumption DEF Table, Entries, FB_DEV, FD_STDIN

\* The size of an entry leaves room for a buffer in size_t.
LEMMA SizeRange ==
    ASSUME NEW fd \in Entries
    PROVE  SizeOf(fd) \in Nat /\ SizeOf(fd) + MaxLen < M /\ M \in Nat /\ MaxLen \in Nat
<1>1. CASE fd = FB_DEV
  BY <1>1, FbSizeNat, FsAssumption DEF SizeOf
<1>2. CASE fd # FB_DEV
  BY <1>2, FsAssumption DEF SizeOf, Entries
<1>3. QED
  BY <1>1, <1>2

\* Clipping: a transfer from within an entry ends in it.
LEMMA ClipRange ==
    ASSUME TypeOK, NEW fd \in Entries, NEW len \in 0 .. MaxLen,
           open_offset[fd] <= SizeOf(fd)
    PROVE  /\ open_offset[fd] \in Nat
           /\ Clip(fd, len) \in 0 .. len
           /\ open_offset[fd] + Clip(fd, len) <= SizeOf(fd)
           /\ open_offset[fd] + Clip(fd, len) \in 0 .. M - 1
           /\ Clip(fd, len) \in 0 .. M - 1
<1>1. open_offset[fd] \in 0 .. M - 1
  BY DEF TypeOK, Entries
<1>2. QED
  BY <1>1, SizeRange DEF Clip

\* A transfer that is clipped to a file lies in the ramdisk.
LEMMA TransferInRamdisk ==
    ASSUME TypeOK, NEW f \in Files, NEW len \in 0 .. MaxLen, open_offset[f] <= Size[f]
    PROVE  /\ InRamdisk(DiskOffset[f] + open_offset[f], Clip(f, len))
           /\ DiskOffset[f] + open_offset[f] \in Nat
<1>1. f \in Entries /\ SizeOf(f) = Size[f]
  BY FsAssumption DEF Entries, SizeOf, FB_DEV
<1>2. open_offset[f] \in Nat /\ Clip(f, len) \in 0 .. len
      /\ open_offset[f] + Clip(f, len) <= Size[f]
  BY <1>1, ClipRange
<1>3. DiskOffset[f] \in Nat /\ Size[f] \in Nat /\ RamdiskSize \in Nat
      /\ DiskOffset[f] + Size[f] <= RamdiskSize
  BY FsAssumption
<1>4. QED
  BY <1>2, <1>3 DEF InRamdisk

\* Moving an offset keeps the offsets in range.
LEMMA OffsetType ==
    ASSUME TypeOK, NEW fd \in Entries, NEW n \in 0 .. M - 1, SetOffset(fd, n)
    PROVE  open_offset' \in [Entries -> 0 .. M - 1]
BY DEF TypeOK, SetOffset, Entries

\* Drawing a row of pixels keeps the frame buffer one.
LEMMA FbType ==
    ASSUME TypeOK, NEW len \in Nat, NEW n \in 0 .. len, NEW offset \in Nat,
           NEW buf \in [0 .. len - 1 -> Byte], fb_write(buf, offset, n)
    PROVE  fb' \in [Pixels -> Byte]
<1> DEFINE w == n \div 4
           x == (offset \div 4) % Width
           y == (offset \div 4) \div Width
           pix == [i \in 0 .. w - 1 |-> buf[4 * i]]
<1>1. w \in Nat /\ x \in Nat /\ y \in Int /\ Width \in Nat \ {0}
  BY ScreenAssumption
<1>2. \A i \in 0 .. w - 1 : pix[i] \in Byte
  <2>1. \A i \in 0 .. w - 1 : 4 * i \in 0 .. len - 1
    OBVIOUS
  <2>2. QED
    BY <2>1
<1>3. fb' = fbdraw(fb, x, y, w, 1, pix)
  BY DEF fb_write
<1> HIDE DEF w, x, y, pix
<1>4. ASSUME NEW p \in Pixels, NEW k \in Int, k >= 0, k \div Width < 1, k % Width < Line(x, w)
      PROVE  pix[(k \div Width) * w + (k % Width)] \in Byte
  <2>1. k \div Width = 0
    BY <1>1, <1>4
  <2>2. k % Width \in Nat /\ k % Width < w
    BY <1>1, <1>4 DEF Line
  <2>3. (k \div Width) * w + (k % Width) = k % Width
    BY <1>1, <2>1, <2>2
  <2>4. QED
    BY <1>1, <1>2, <2>2, <2>3
<1>5. \A p \in Pixels : p - (y * Width + x) \in Int
  BY <1>1 DEF Pixels
<1>6. \A p \in Pixels : fb[p] \in Byte
  BY DEF TypeOK
<1>7. QED
  BY <1>3, <1>4, <1>5, <1>6 DEF fbdraw

-----------------------------------------------------------------------------
(* One call after the other.                                               *)

\* What the numbers that calls return have in common.
LEMMA Returned ==
    ASSUME NEW len \in 0 .. MaxLen
    PROVE  M \in Nat /\ 0 \in 0 .. M - 1 /\ M - 1 \in 0 .. M - 1 /\ len \in 0 .. M - 1
           /\ MaxLen \in 0 .. M - 1
BY FbSizeNat, FsAssumption

\* An operation that stops the machine for another reason than the ramdisk.
LEMMA PanicKeeps ==
    ASSUME Inv, NEW why \in Reasons \ {"ramdisk"}, Panic(why)
    PROVE  Inv'
<1>1. 0 \in 0 .. M - 1
  BY FbSizeNat, FsAssumption
<1>2. QED
  BY <1>1 DEF Inv, TypeOK, RamdiskInBounds, Panic

\* An operation that moves at most one offset and returns.
LEMMA ReturnKeeps ==
    ASSUME Inv, NEW n \in 0 .. M - 1, Return(n), UNCHANGED <<disk, fb>>,
           \/ UNCHANGED open_offset
           \/ \E fd \in Entries, k \in 0 .. M - 1 : SetOffset(fd, k)
    PROVE  Inv'
<1>1. open_offset' \in [Entries -> 0 .. M - 1]
  BY OffsetType DEF Inv, TypeOK, Entries
<1>2. QED
  BY <1>1 DEF Inv, TypeOK, RamdiskInBounds, Return, Entries

\* fs_open
LEMMA OpenKeeps ==
    ASSUME Inv, NEW path \in Table \union {NoFile}, fs_open(path)
    PROVE  Inv'
<1>1. CASE path \notin Table /\ Panic("not found")
  BY <1>1, PanicKeeps DEF Reasons
<1>2. CASE path \in Table /\ Return(path) /\ UNCHANGED <<disk, fb>>
           /\ (UNCHANGED open_offset \/ (path >= FB_DEV /\ SetOffset(path, 0)))
  <2>1. path \in 0 .. M - 1 /\ 0 \in 0 .. M - 1
    BY <1>2, FsAssumption DEF Table, FB_DEV, FD_STDIN
  <2>2. path >= FB_DEV => path \in Entries
    BY <1>2, EntriesFrom
  <2>3. QED
    BY <1>2, <2>1, <2>2, ReturnKeeps
<1>3. QED
  BY <1>1, <1>2 DEF fs_open

\* fs_lseek
LEMMA SeekKeeps ==
    ASSUME Inv, NEW fd \in Used, NEW offset \in SeekOffsets, NEW whence \in Whence,
           fs_lseek(fd, offset, whence)
    PROVE  Inv'
<1>1. M \in Nat /\ M - 1 \in 0 .. M - 1 /\ 0 \in 0 .. M - 1 /\ fd \in Table /\ offset \in 0 .. M - 1
  BY FsAssumption DEF FB_DEV
<1>2. CASE UNCHANGED open_offset /\ UNCHANGED <<disk, fb>> /\ (Return(0) \/ Return(M - 1))
  BY <1>1, <1>2, ReturnKeeps
<1>3. CASE /\ fd >= FB_DEV /\ whence # "other"
           /\ SetOffset(fd, SeekTo(fd, offset, whence))
           /\ Return(SeekTo(fd, offset, whence))
           /\ UNCHANGED <<disk, fb>>
  <2>1. fd \in Entries
    BY <1>1, <1>3, EntriesFrom
  <2>2. open_offset[fd] \in Nat /\ SizeOf(fd) \in Nat /\ offset \in Nat
    BY <1>1, <2>1, SizeRange DEF Inv, TypeOK, Entries
  <2>3. ASSUME NEW k \in Nat PROVE k % M \in 0 .. M - 1
    BY <1>1
  <2>4. SeekTo(fd, offset, whence) \in 0 .. M - 1
    <3>1. offset + open_offset[fd] \in Nat /\ offset + SizeOf(fd) \in Nat
      BY <2>2
    <3>2. whence \in {"SEEK_SET", "SEEK_CUR", "SEEK_END"}
      BY <1>3 DEF Whence
    <3>3. QED
      BY <1>1, <2>3, <3>1, <3>2 DEF SeekTo
  <2>5. QED
    BY <1>3, <2>1, <2>4, ReturnKeeps
<1>4. QED
  BY <1>2, <1>3 DEF fs_lseek

\* fs_read
LEMMA ReadKeeps ==
    ASSUME Inv, NEW fd \in Used, NEW len \in 0 .. MaxLen, fs_read(fd, len)
    PROVE  Inv'
<1>1. CASE fd \notin Files /\ ReadDevice(fd, len)
  <2>1. CASE Panic("invalid_read")
    BY <2>1, PanicKeeps DEF Reasons
  <2>2. CASE (\E n \in DeviceTexts : Return(n)) /\ UNCHANGED <<open_offset, disk, fb>>
    BY <2>2, Returned, ReturnKeeps DEF DeviceTexts
  <2>3. QED
    BY <1>1, <2>1, <2>2 DEF ReadDevice
<1>2. CASE fd \in Files /\ ReadFile(fd, len)
  <2>1. CASE Return(0) /\ UNCHANGED <<open_offset, disk, fb>>
    BY <2>1, Returned, ReturnKeeps
  <2>2. CASE /\ open_offset[fd] <= Size[fd]
             /\ ramdisk_read(fd, DiskOffset[fd] + open_offset[fd], Clip(fd, len))
             /\ UNCHANGED <<disk, fb>>
    <3>1. fd \in Entries /\ SizeOf(fd) = Size[fd]
      BY <1>2, FsAssumption DEF Entries, SizeOf, FB_DEV
    <3>2. open_offset[fd] + Clip(fd, len) \in 0 .. M - 1 /\ Clip(fd, len) \in 0 .. M - 1
      BY <2>2, <3>1, ClipRange DEF Inv
    <3>3. open_offset' \in [Entries -> 0 .. M - 1]
      BY <2>2, <3>1, <3>2, OffsetType DEF Inv, ramdisk_read
    <3>4. QED
      BY <2>2, <3>2, <3>3 DEF Inv, TypeOK, RamdiskInBounds, ramdisk_read, Entries
  <2>3. QED
    BY <1>2, <2>1, <2>2, TransferInRamdisk DEF ReadFile, Inv
<1>3. QED
  BY <1>1, <1>2 DEF fs_read

\* fs_write
LEMMA WriteKeeps ==
    ASSUME Inv, NEW fd \in Used, NEW len \in 0 .. MaxLen, NEW buf \in [0 .. len - 1 -> Byte],
           fs_write(fd, buf, len)
    PROVE  Inv'
<1>1. fd \in Table
  BY FsAssumption
<1>2. CASE fd < FB_DEV /\ WriteDevice(fd, len)
  <2>1. CASE Panic("invalid_write")
    BY <2>1, PanicKeeps DEF Reasons
  <2>2. CASE Return(len) /\ UNCHANGED <<open_offset, disk, fb>>
    BY <2>2, Returned, ReturnKeeps
  <2>3. QED
    BY <1>2, <2>1, <2>2 DEF WriteDevice
<1>3. CASE Return(M - 1) /\ UNCHANGED <<open_offset, disk, fb>>
  BY <1>3, Returned, ReturnKeeps
<1>4. CASE /\ fd >= FB_DEV /\ open_offset[fd] <= SizeOf(fd)
           /\ SetOffset(fd, Clip(fd, len)) /\ Return(Clip(fd, len))
           /\ \/ fb_write(buf, open_offset[fd], Clip(fd, len)) /\ UNCHANGED disk
              \/ /\ fd # FB_DEV
                 /\ ramdisk_write(buf, DiskOffset[fd] + open_offset[fd], Clip(fd, len))
                 /\ UNCHANGED fb
  <2>1. fd \in Entries
    BY <1>1, <1>4, EntriesFrom
  <2>2. /\ Clip(fd, len) \in 0 .. M - 1 /\ Clip(fd, len) \in 0 .. len
        /\ open_offset[fd] \in Nat /\ len \in Nat
    BY <1>4, <2>1, ClipRange DEF Inv
  <2>3. open_offset' \in [Entries -> 0 .. M - 1]
    BY <1>4, <2>1, <2>2, OffsetType DEF Inv
  <2>4. fb' \in [Pixels -> Byte]
    BY <1>4, <2>2, FbType DEF Inv, TypeOK
  <2>5. disk' \in [Disk -> Byte]
    <3>1. CASE UNCHANGED disk
      BY <3>1 DEF Inv, TypeOK
    <3>2. CASE fd # FB_DEV
               /\ ramdisk_write(buf, DiskOffset[fd] + open_offset[fd], Clip(fd, len))
      <4> DEFINE offset == DiskOffset[fd] + open_offset[fd]
                 n == Clip(fd, len)
      <4>1. offset \in Nat /\ n \in 0 .. len
        <5>1. fd \in Files
          BY <2>1, <3>2 DEF Entries
        <5>2. DiskOffset[fd] \in Nat
          BY <5>1, FsAssumption
        <5>3. QED
          BY <2>2, <5>2
      <4>2. \A d \in Disk : d \in offset .. offset + n - 1 => d - offset \in 0 .. len - 1
        BY <4>1, <2>2 DEF Disk
      <4>3. disk' = [d \in Disk |-> IF d \in offset .. offset + n - 1
                                    THEN buf[d - offset] ELSE disk[d]]
        BY <3>2 DEF ramdisk_write
      <4> HIDE DEF offset, n
      <4>4. QED
        BY <4>2, <4>3 DEF Inv, TypeOK
    <3>3. QED
      BY <1>4, <3>1, <3>2
  <2>6. QED
    BY <1>4, <2>2, <2>3, <2>4, <2>5 DEF Inv, TypeOK, RamdiskInBounds, Return, Entries
<1>5. CASE fd # FB_DEV /\ fd >= FB_DEV /\ open_offset[fd] <= SizeOf(fd)
           /\ ~InRamdisk(DiskOffset[fd] + open_offset[fd], Clip(fd, len))
  <2>1. fd \in Files /\ SizeOf(fd) = Size[fd]
    BY <1>1, <1>5, EntriesFrom DEF Entries, SizeOf
  <2>2. QED
    BY <1>5, <2>1, TransferInRamdisk DEF Inv
<1>6. QED
  BY <1>2, <1>3, <1>4, <1>5 DEF fs_write, OffsetAfterWrite

\* The calls keep offsets, return values, disk and screen in their ranges, and
\* no assertion of the ramdisk fails.
THEOREM Invariance == Spec => []Inv
<1>1. Init => Inv
  BY FsAssumption DEF Init, Inv, TypeOK, RamdiskInBounds, Reasons, FB_DEV
<1>2. Inv /\ [Next]_vars => Inv'
  <2>1. SUFFICES ASSUME Inv, [Next]_vars PROVE Inv'
    OBVIOUS
  <2>2. ASSUME NEW path \in Table \union {NoFile}, fs_open(path) PROVE Inv'
    BY <2>1, <2>2, OpenKeeps
  <2>3. ASSUME NEW fd \in Used, fs_close(fd) PROVE Inv'
    <3>1. 0 \in 0 .. M - 1
      BY FsAssumption DEF FB_DEV
    <3>2. QED
      BY <2>1, <2>3, <3>1, ReturnKeeps DEF fs_close
  <2>4. ASSUME NEW fd \in Used, NEW offset \in SeekOffsets, NEW whence \in Whence,
               fs_lseek(fd, offset, whence)
        PROVE  Inv'
    BY <2>1, <2>4, SeekKeeps
  <2>5. ASSUME NEW fd \in Used, NEW len \in Lens, fs_read(fd, len) PROVE Inv'
    BY <2>1, <2>5, ReadKeeps, FsAssumption
  <2>6. ASSUME NEW fd \in Used, NEW len \in Lens, NEW buf \in [0 .. len - 1 -> Byte],
               fs_write(fd, buf, len)
        PROVE  Inv'
    BY <2>1, <2>6, WriteKeeps, FsAssumption
  <2>7. CASE UNCHANGED vars
    BY <2>1, <2>7 DEF vars, Inv, TypeOK, RamdiskInBounds
  <2>8. QED
    BY <2>1, <2>2, <2>3, <2>4, <2>5, <2>6, <2>7 DEF Next
<1>3. QED
  BY <1>1, <1>2, PTL DEF Spec

\* Offsets stay in the range of size_t, also when a seek wraps, and disk and
\* screen keep their sizes.
THEOREM TypeCorrect == Spec => []TypeOK
BY Invariance, PTL DEF Inv

\* The assertions of ramdisk_read and ramdisk_write never fail.
THEOREM RamdiskSafe == Spec => []RamdiskInBounds
BY Invariance, PTL DEF Inv

-----------------------------------------------------------------------------
(* The files a program sees.                                               *)

Content == [f \in Files |-> [i \in 0 .. Size[f] - 1 |-> disk[DiskOffset[f] + i]]]
Pos == [f \in Files |-> open_offset[f]]

\* A call that leaves the ramdisk and the offsets of the files alone.
LEMMA OtherStep ==
    ASSUME data' = << >>, UNCHANGED disk, \A f \in Files : open_offset'[f] = open_offset[f]
    PROVE  Abstract!Other
BY DEF Abstract!Other

\* A call that moves the offset of the frame buffer.
LEMMA ScreenStep ==
    ASSUME TypeOK, NEW n \in 0 .. M - 1, SetOffset(FB_DEV, n), data' = << >>, UNCHANGED disk
    PROVE  Abstract!Next
<1>1. FB_DEV \notin Files
  BY FsAssumption DEF FB_DEV
<1>2. \A f \in Files : open_offset'[f] = open_offset[f]
  BY <1>1 DEF SetOffset, TypeOK
<1>3. QED
  BY <1>2, OtherStep DEF Abstract!Next

\* An open or a seek moves the offset of its entry to a place it names.
LEMMA MoveStep ==
    ASSUME TypeOK, NEW fd \in Entries, NEW n \in 0 .. M - 1, SetOffset(fd, n),
           data' = << >>, UNCHANGED disk,
           n # 0 => \E offset \in SeekOffsets, whence \in Whence :
                       whence # "other" /\ n = SeekTo(fd, offset, whence)
    PROVE  Abstract!Next
<1>1. CASE fd = FB_DEV
  BY <1>1, ScreenStep
<1>2. CASE fd \in Files
  <2>1. open_offset' = [open_offset EXCEPT ![fd] = n] /\ open_offset \in [Entries -> 0 .. M - 1]
    BY DEF SetOffset, TypeOK, Entries
  <2>2. Pos' = [Pos EXCEPT ![fd] = n]
    BY <1>2, <2>1 DEF Pos, Entries
  <2>3. fd # FB_DEV /\ SizeOf(fd) = Size[fd] /\ Pos[fd] = open_offset[fd]
    BY <1>2, FsAssumption DEF FB_DEV, SizeOf, Pos
  <2>4. ASSUME NEW offset \in SeekOffsets, NEW whence \in Whence,
               whence # "other", n = SeekTo(fd, offset, whence)
        PROVE  n \in Abstract!Targets(fd, offset)
    BY <2>3, <2>4 DEF Whence, SeekTo, Abstract!Targets, Pos
  <2>5. n \in {0} \union UNION {Abstract!Targets(fd, o) : o \in SeekOffsets}
    BY <2>4
  <2>6. Abstract!Move(fd)
    BY <2>2, <2>5 DEF Abstract!Move, Pos
  <2>7. QED
    BY <1>2, <2>6 DEF Abstract!Next
<1>3. QED
  BY <1>1, <1>2 DEF Entries

\* How much a transfer moves, in both specifications.
LEMMA AvailIsClip ==
    ASSUME NEW f \in Files, NEW len \in 0 .. MaxLen, TypeOK, open_offset[f] <= Size[f]
    PROVE  /\ Abstract!Avail(f, len) = Clip(f, len)
           /\ open_offset[f] \in Nat /\ Size[f] \in Nat
           /\ Clip(f, len) \in Nat
           /\ open_offset[f] + Clip(f, len) <= Size[f]
<1>1. f \in Entries /\ SizeOf(f) = Size[f] /\ Size[f] \in Nat
  BY FsAssumption DEF Entries, SizeOf, FB_DEV
<1>2. open_offset[f] \in Nat /\ Clip(f, len) \in Nat
      /\ open_offset[f] + Clip(f, len) <= Size[f]
  BY <1>1, ClipRange
<1>3. QED
  BY <1>1, <1>2 DEF Abstract!Avail, Clip

\* ramdisk_read and the step of the offset are Read.
LEMMA ReadStep ==
    ASSUME TypeOK, NEW f \in Files, NEW len \in 0 .. MaxLen, open_offset[f] <= Size[f],
           ramdisk_read(f, DiskOffset[f] + open_offset[f], Clip(f, len)), UNCHANGED disk
    PROVE  Abstract!Read(f, len)
<1>1. /\ Abstract!Avail(f, len) = Clip(f, len)
      /\ open_offset[f] \in Nat /\ Size[f] \in Nat /\ Clip(f, len) \in Nat
      /\ open_offset[f] + Clip(f, len) <= Size[f]
  BY AvailIsClip
<1>2. DiskOffset[f] \in Nat
  BY FsAssumption
<1>3. data' = [i \in 0 .. Clip(f, len) - 1 |-> Content[f][Pos[f] + i]]
  <2>1. ASSUME NEW i \in 0 .. Clip(f, len) - 1
        PROVE  Content[f][Pos[f] + i] = disk[DiskOffset[f] + open_offset[f] + i]
    <3>1. Pos[f] + i = open_offset[f] + i /\ open_offset[f] + i \in 0 .. Size[f] - 1
      BY <1>1 DEF Pos
    <3>2. DiskOffset[f] + (open_offset[f] + i) = DiskOffset[f] + open_offset[f] + i
      BY <1>1, <1>2
    <3>3. QED
      BY <3>1, <3>2 DEF Content
  <2>2. QED
    BY <2>1 DEF ramdisk_read
<1>4. Pos' = [Pos EXCEPT ![f] = @ + Clip(f, len)]
  <2>1. open_offset' = [open_offset EXCEPT ![f] = open_offset[f] + Clip(f, len)]
    BY DEF ramdisk_read, SetOffset
  <2>2. open_offset \in [Entries -> 0 .. M - 1] /\ Files \subseteq Entries
    BY DEF TypeOK, Entries
  <2>3. QED
    BY <2>1, <2>2 DEF Pos
<1>5. QED
  BY <1>1, <1>3, <1>4 DEF Abstract!Read, Content, Pos

\* Transfers in one file are not in another, and a place in a file is one in
\* the ramdisk.
LEMMA Apart ==
    ASSUME NEW df \in Nat, NEW sf \in Nat, NEW dg \in Nat, NEW sg \in Nat, NEW o \in Nat,
           NEW n \in Nat, o + n <= sf, NEW i \in 0 .. sg - 1, dg + sg <= RamdiskSize
    PROVE  /\ dg + i \in Disk
           /\ df + sf <= dg \/ dg + sg <= df => dg + i \notin df + o .. df + o + n - 1
           /\ df = dg => (dg + i \in df + o .. df + o + n - 1 <=> i \in o .. o + n - 1)
           /\ df = dg => (dg + i) - (df + o) = i - o
BY FsAssumption DEF Disk

\* ramdisk_write is Write: it changes the bytes at the offset and no other byte
\* of any file.
LEMMA WriteStep ==
    ASSUME TypeOK, NEW f \in Files, NEW len \in 0 .. MaxLen, open_offset[f] <= Size[f],
           NEW buf \in [0 .. len - 1 -> Byte],
           ramdisk_write(buf, DiskOffset[f] + open_offset[f], Clip(f, len)),
           SetOffset(f, Clip(f, len)), data' = << >>
    PROVE  Abstract!Write(f, len, buf)
<1> DEFINE n == Clip(f, len)
           first == DiskOffset[f] + open_offset[f]
<1>1. /\ Abstract!Avail(f, len) = n
      /\ open_offset[f] \in Nat /\ Size[f] \in Nat /\ n \in Nat
      /\ open_offset[f] + n <= Size[f]
  BY AvailIsClip
<1>2. DiskOffset[f] \in Nat /\ RamdiskSize \in Nat /\ DiskOffset[f] + Size[f] <= RamdiskSize
  BY FsAssumption
<1>3. disk' = [d \in Disk |-> IF d \in first .. first + n - 1 THEN buf[d - first] ELSE disk[d]]
  BY DEF ramdisk_write
<1> HIDE DEF n
<1>4. ASSUME NEW g \in Files, g # f PROVE Content'[g] = Content[g]
  <2>1. /\ DiskOffset[g] \in Nat /\ Size[g] \in Nat /\ DiskOffset[g] + Size[g] <= RamdiskSize
        /\ \/ DiskOffset[f] + Size[f] <= DiskOffset[g]
           \/ DiskOffset[g] + Size[g] <= DiskOffset[f]
    BY <1>4, FsAssumption
  <2>2. ASSUME NEW i \in 0 .. Size[g] - 1
        PROVE  /\ DiskOffset[g] + i \in Disk
               /\ DiskOffset[g] + i \notin first .. first + n - 1
    <3>1. PICK df \in Nat, sf \in Nat, dg \in Nat, sg \in Nat, o \in Nat :
              /\ df = DiskOffset[f] /\ sf = Size[f] /\ dg = DiskOffset[g] /\ sg = Size[g]
              /\ o = open_offset[f]
      BY <1>1, <1>2, <2>1
    <3>2. o + n <= sf /\ dg + sg <= RamdiskSize /\ i \in 0 .. sg - 1 /\ n \in Nat
      BY <1>1, <2>1, <3>1
    <3>3. dg + i \in Disk /\ (df + sf <= dg \/ dg + sg <= df => dg + i \notin df + o .. df + o + n - 1)
      BY <3>2, Apart
    <3>4. QED
      BY <2>1, <3>1, <3>3
  <2>3. \A i \in 0 .. Size[g] - 1 : disk'[DiskOffset[g] + i] = disk[DiskOffset[g] + i]
    BY <1>3, <2>2
  <2>4. QED
    BY <2>3 DEF Content
<1>5. Content'[f] = [i \in 0 .. Size[f] - 1 |->
                        IF i \in Pos[f] .. Pos[f] + n - 1 THEN buf[i - Pos[f]] ELSE Content[f][i]]
  <2>1. ASSUME NEW i \in 0 .. Size[f] - 1
        PROVE  disk'[DiskOffset[f] + i] =
                  IF i \in open_offset[f] .. open_offset[f] + n - 1 THEN buf[i - open_offset[f]]
                  ELSE disk[DiskOffset[f] + i]
    <3>1. DiskOffset[f] + i \in Disk
      BY <1>1, <1>2, Apart
    <3>2. DiskOffset[f] + i \in first .. first + n - 1
             <=> i \in open_offset[f] .. open_offset[f] + n - 1
      <4>1. ASSUME NEW d \in Nat, NEW o \in Nat, NEW k \in Nat, NEW j \in Nat
            PROVE  d + j \in d + o .. d + o + k - 1 <=> j \in o .. o + k - 1
        OBVIOUS
      <4>2. PICK d \in Nat, o \in Nat, j \in Nat : d = DiskOffset[f] /\ o = open_offset[f] /\ j = i
        BY <1>1, <1>2
      <4>3. d + j \in d + o .. d + o + n - 1 <=> j \in o .. o + n - 1
        BY <1>1, <4>1
      <4>4. QED
        BY <4>2, <4>3
    <3>3. (DiskOffset[f] + i) - first = i - open_offset[f]
      BY <1>1, <1>2, Apart
    <3> HIDE DEF first
    <3>4. disk'[DiskOffset[f] + i] =
             IF DiskOffset[f] + i \in first .. first + n - 1
             THEN buf[(DiskOffset[f] + i) - first] ELSE disk[DiskOffset[f] + i]
      BY <1>3, <3>1
    <3>5. QED
      BY <3>2, <3>3, <3>4, Zenon
  <2>3. Pos[f] = open_offset[f]
    BY DEF Pos
  <2>4. QED
    BY <2>1, <2>3 DEF Content
<1>6. Content' = [Content EXCEPT ![f] =
                    [i \in 0 .. Size[f] - 1 |->
                       IF i \in Pos[f] .. Pos[f] + n - 1 THEN buf[i - Pos[f]] ELSE @[i]]]
  BY <1>4, <1>5 DEF Content
<1>7. Pos' = [Pos EXCEPT ![f] = n]
  <2>1. open_offset' = [open_offset EXCEPT ![f] = n]
    BY DEF SetOffset, n
  <2>2. open_offset \in [Entries -> 0 .. M - 1] /\ Files \subseteq Entries
    BY DEF TypeOK, Entries
  <2>3. QED
    BY <1>1, <2>1, <2>2 DEF Pos
<1>8. QED
  BY <1>1, <1>6, <1>7 DEF Abstract!Write, Content, Pos

\* Every call is a step of the files that programs see, or changes nothing of
\* them.
LEMMA CallIsStep ==
    ASSUME Inv, Next
    PROVE  Abstract!Next
<1>1. M \in Nat /\ 0 \in 0 .. M - 1 /\ Lens \subseteq 0 .. MaxLen /\ Used \subseteq Table
  BY FsAssumption DEF FB_DEV
<1>2. ASSUME data' = << >>, UNCHANGED disk, UNCHANGED open_offset PROVE Abstract!Next
  BY <1>2, OtherStep DEF Abstract!Next
<1>3. ASSUME NEW why, Panic(why) PROVE Abstract!Next
  BY <1>2, <1>3 DEF Panic
<1>4. ASSUME NEW path \in Table \union {NoFile}, fs_open(path) PROVE Abstract!Next
  <2>1. CASE path \in Table /\ path >= FB_DEV /\ SetOffset(path, 0) /\ Return(path) /\ UNCHANGED disk
    <3>1. path \in Entries
      BY <2>1, EntriesFrom
    <3>2. QED
      BY <1>1, <2>1, <3>1, MoveStep DEF Inv, Return
  <2>2. QED
    BY <1>2, <1>3, <1>4, <2>1 DEF fs_open, Return
<1>5. ASSUME NEW fd \in Used, fs_close(fd) PROVE Abstract!Next
  BY <1>2, <1>5 DEF fs_close, Return
<1>6. ASSUME NEW fd \in Used, NEW offset \in SeekOffsets, NEW whence \in Whence,
             fs_lseek(fd, offset, whence)
      PROVE  Abstract!Next
  <2>1. CASE /\ fd >= FB_DEV /\ whence # "other"
             /\ SetOffset(fd, SeekTo(fd, offset, whence))
             /\ Return(SeekTo(fd, offset, whence))
             /\ UNCHANGED <<disk, fb>>
    <3>1. fd \in Entries
      BY <1>1, <2>1, EntriesFrom
    <3>2. ret' \in 0 .. M - 1
      BY <1>6, SeekKeeps DEF Inv, TypeOK
    <3>3. ret' = SeekTo(fd, offset, whence) /\ data' = << >>
      BY <2>1 DEF Return
    <3>4. QED
      BY <1>6, <2>1, <3>1, <3>2, <3>3, MoveStep DEF Inv
  <2>2. QED
    BY <1>2, <1>6, <2>1 DEF fs_lseek, Return
<1>7. ASSUME NEW fd \in Used, NEW len \in Lens, fs_read(fd, len) PROVE Abstract!Next
  <2>1. CASE ReadDevice(fd, len)
    BY <1>2, <1>3, <2>1 DEF ReadDevice, Return
  <2>2. CASE fd \in Files /\ ReadFile(fd, len)
    <3>1. CASE /\ open_offset[fd] <= Size[fd]
               /\ ramdisk_read(fd, DiskOffset[fd] + open_offset[fd], Clip(fd, len))
               /\ UNCHANGED disk
      <4>1. len \in 0 .. MaxLen
        BY <1>1
      <4>2. Abstract!Read(fd, len)
        BY <2>2, <3>1, <4>1, ReadStep DEF Inv
      <4>3. QED
        BY <2>2, <4>1, <4>2 DEF Abstract!Next
    <3>2. QED
      BY <1>2, <1>3, <2>2, <3>1 DEF ReadFile, Return
  <2>3. QED
    BY <1>7, <2>1, <2>2 DEF fs_read
<1>8. ASSUME NEW fd \in Used, NEW len \in Lens, NEW buf \in [0 .. len - 1 -> Byte],
             fs_write(fd, buf, len)
      PROVE  Abstract!Next
  <2>1. fd \in Table /\ len \in 0 .. MaxLen
    BY <1>1
  <2>2. CASE WriteDevice(fd, len)
    BY <1>2, <1>3, <2>2 DEF WriteDevice, Return
  <2>3. CASE /\ fd = FB_DEV /\ open_offset[fd] <= SizeOf(fd)
             /\ SetOffset(fd, Clip(fd, len)) /\ Return(Clip(fd, len)) /\ UNCHANGED disk
    <3>1. fd \in Entries
      BY <2>3 DEF Entries
    <3>2. Clip(fd, len) \in 0 .. M - 1
      BY <2>1, <2>3, <3>1, ClipRange DEF Inv
    <3>3. QED
      BY <2>3, <3>2, ScreenStep DEF Inv, Return
  <2>4. CASE /\ fd # FB_DEV /\ fd >= FB_DEV /\ open_offset[fd] <= SizeOf(fd)
             /\ ramdisk_write(buf, DiskOffset[fd] + open_offset[fd], Clip(fd, len))
             /\ SetOffset(fd, Clip(fd, len)) /\ Return(Clip(fd, len))
    <3>1. fd \in Files /\ SizeOf(fd) = Size[fd]
      BY <2>1, <2>4, EntriesFrom DEF Entries, SizeOf
    <3>2. Abstract!Write(fd, len, buf)
      BY <2>1, <2>4, <3>1, WriteStep DEF Inv, Return
    <3>3. QED
      BY <2>1, <3>1, <3>2 DEF Abstract!Next
  <2>5. QED
    BY <1>2, <1>3, <1>8, <2>2, <2>3, <2>4 DEF fs_write, OffsetAfterWrite, Return
<1>9. QED
  BY <1>4, <1>5, <1>6, <1>7, <1>8 DEF Next

\* The file system implements Files: whatever programs do, every file is an
\* array of bytes of its own that only writes to it change, and reads return, and
\* the position is where the last call on that file put it.
THEOREM FilesImplemented == Spec => IsFiles
<1>1. Init => Abstract!Init
  <2>1. SUFFICES ASSUME Init PROVE Abstract!Init
    OBVIOUS
  <2>2. ASSUME NEW f \in Files PROVE Content[f] \in [0 .. Size[f] - 1 -> Byte]
    <3>1. /\ DiskOffset[f] \in Nat /\ Size[f] \in Nat /\ RamdiskSize \in Nat
          /\ DiskOffset[f] + Size[f] <= RamdiskSize
      BY FsAssumption
    <3>2. \A i \in 0 .. Size[f] - 1 : DiskOffset[f] + i \in Disk
      BY <3>1 DEF Disk
    <3>3. disk \in [Disk -> Byte]
      BY <2>1 DEF Init
    <3>4. QED
      BY <3>2, <3>3 DEF Content
  <2>3. Pos = [f \in Files |-> 0]
    BY <2>1 DEF Init, Pos
  <2>4. QED
    BY <2>1, <2>2, <2>3 DEF Init, Abstract!Init, Content, Pos
<1>2. Inv /\ [Next]_vars => [Abstract!Next]_(Abstract!fvars)
  <2>1. UNCHANGED vars => UNCHANGED Abstract!fvars
    BY DEF vars, Abstract!fvars
  <2>2. QED
    BY <2>1, CallIsStep
<1>3. QED
  BY <1>1, <1>2, Invariance, PTL DEF Spec, IsFiles, Abstract!Spec

-----------------------------------------------------------------------------
(* Trap: the stack of contexts                                             *)

CallRecord == [pc : Nat, regs : Regs, mstatus : Status]

\* Stacks as functions: what Append and Front do to a sequence and its last
\* element.
LEMMA StackUp ==
    ASSUME NEW S, NEW s \in Seq(S), NEW x \in S
    PROVE  /\ Append(s, x) \in Seq(S) /\ Len(Append(s, x)) = Len(s) + 1
           /\ \A k \in 1 .. Len(s) : Append(s, x)[k] = s[k]
           /\ Append(s, x)[Len(s) + 1] = x /\ Last(Append(s, x)) = x
  <1>1. /\ Append(s, x) \in Seq(S) /\ Len(Append(s, x)) = Len(s) + 1
        /\ \A k \in 1 .. Len(s) : Append(s, x)[k] = s[k]
        /\ Append(s, x)[Len(s) + 1] = x
    OBVIOUS
  <1> QED
    BY <1>1 DEF Last

LEMMA StackDown ==
    ASSUME NEW S, NEW s \in Seq(S), Len(s) > 0
    PROVE  /\ Front(s) \in Seq(S) /\ Len(Front(s)) = Len(s) - 1
           /\ \A k \in 1 .. Len(s) - 1 : Front(s)[k] = s[k]
           /\ Last(s) \in S /\ Last(s) = s[Len(s)]
  <1>1. Len(s) \in Nat /\ Len(s) \in 1 .. Len(s) /\ s \in [1 .. Len(s) -> S]
    OBVIOUS
  <1>2. Last(s) = s[Len(s)]
    BY DEF Last
  <1>3. Front(s) = SubSeq(s, 1, Len(s) - 1)
    BY DEF Front
  <1>4. /\ SubSeq(s, 1, Len(s) - 1) \in Seq(S) /\ Len(SubSeq(s, 1, Len(s) - 1)) = Len(s) - 1
        /\ \A k \in 1 .. Len(s) - 1 : SubSeq(s, 1, Len(s) - 1)[k] = s[k]
    BY <1>1
  <1> QED
    BY <1>1, <1>2, <1>3, <1>4

\* Programs and the kernel make their ecalls in different places.
LEMMA PcsApart == UserPcs \subseteq Nat /\ KYield \in Nat /\ KYield \notin UserPcs
  <1>1. PICK k \in Nat : k = KYield
    BY DEF KYield
  <1>2. UserPcs \subseteq 0 .. k - 1
    BY <1>1, TrapAssumption
  <1> QED
    BY <1>1, <1>2

\* What an ecall does to the frames.
LEMMA EcallStep ==
    ASSUME TrapIInv, NEW from, NEW r, Ecall(from, r),
           \/ at = "run" /\ from \in UserPcs /\ r \in Regs /\ Len(stack) < MaxFrames
           \/ Handling("yield") /\ from = KYield /\ r = [regs EXCEPT !.a7 = Yield]
    PROVE  /\ from \in Nat /\ r \in Regs /\ pc' \in Nat /\ mepc' \in Nat /\ mcause' \in {0, 11}
           /\ mstatus' \in Status /\ calls' \in Seq(CallRecord)
           /\ Frames' /\ Nested' /\ at' = "push" /\ regs' = r /\ stack' = stack
  <1>1. /\ regs \in Regs /\ mstatus \in Status /\ mcause \in {0, 11} /\ calls \in Seq(CallRecord)
        /\ stack \in Seq(Context) /\ Len(calls) \in Nat /\ Len(stack) \in Nat
        /\ MaxFrames \in Nat
    BY TrapAssumption DEF TrapIInv, TrapTypeOK, CallRecord
  <1>2. from \in UserPcs \union {KYield} /\ from \in Nat /\ r \in Regs
    <2>1. [regs EXCEPT !.a7 = Yield] \in Regs
      BY <1>1 DEF Regs
    <2>2. from \in UserPcs \union {KYield} /\ r \in Regs
      BY <2>1
    <2>3. UserPcs \union {KYield} \subseteq Nat
      BY PcsApart
    <2> QED
      BY <2>2, <2>3
  <1>3. PICK call \in CallRecord : call = [pc |-> from, regs |-> r, mstatus |-> mstatus]
    BY <1>1, <1>2 DEF CallRecord
  <1>4. calls' = Append(calls, call) /\ stack' = stack /\ at' = "push" /\ regs' = r /\ mepc' = from
    BY <1>3 DEF Ecall
  <1>5. /\ calls' \in Seq(CallRecord) /\ Len(calls') = Len(calls) + 1
        /\ \A k \in 1 .. Len(calls) : calls'[k] = calls[k]
        /\ calls'[Len(calls) + 1] = call /\ Last(calls') = call
    BY <1>1, <1>3, <1>4, StackUp
  <1>6. mstatus' = [mstatus EXCEPT !.mpie = mstatus.mie, !.mie = FALSE]
    BY DEF Ecall
  <1>7. /\ mstatus' \in Status /\ mstatus'.mpie = mstatus.mie /\ mstatus'.mprv = mstatus.mprv
    BY <1>1, <1>6 DEF Status
  <1>8. mcause' \in {0, 11}
    BY <1>1 DEF Ecall, Cause
  <1>9. at \in {"run", "handle"} /\ Len(calls) = Len(stack)
    BY DEF TrapIInv, Frames, Handling
  <1>10. Frames'
    BY <1>1, <1>2, <1>3, <1>4, <1>5, <1>7, <1>9 DEF TrapIInv, Frames, Saves
  <1>11. ASSUME NEW k \in 1 .. Len(calls')
         PROVE  /\ k <= MaxFrames \/ (k = MaxFrames + 1 /\ calls'[k].pc = KYield)
                /\ calls'[k].pc \in UserPcs \union {KYield}
                /\ calls'[k].pc = KYield =>
                      k > 1 /\ calls'[k].regs.a7 = Yield /\ calls'[k - 1].regs.a7 = "yield"
    <2>1. CASE k \in 1 .. Len(calls)
      <3>1. /\ k <= MaxFrames \/ (k = MaxFrames + 1 /\ calls[k].pc = KYield)
            /\ calls[k].pc \in UserPcs \union {KYield}
            /\ calls[k].pc = KYield =>
                  k > 1 /\ calls[k].regs.a7 = Yield /\ calls[k - 1].regs.a7 = "yield"
        BY <2>1 DEF TrapIInv, Nested
      <3> QED
        BY <1>1, <1>5, <2>1, <3>1
    <2>2. CASE k = Len(calls) + 1 /\ at = "run"
      <3>0. ~Handling("yield")
        BY <2>2 DEF Handling
      <3>1. from \in UserPcs /\ from # KYield
        BY <3>0, PcsApart
      <3>2. k <= MaxFrames
        BY <1>1, <1>9, <2>2, <3>0
      <3> QED
        BY <1>3, <1>5, <2>2, <3>1, <3>2
    <2>3. CASE k = Len(calls) + 1 /\ at = "handle"
      <3>1. /\ from = KYield /\ r.a7 = Yield /\ Len(stack) > 0
            /\ Last(stack).regs.a7 = "yield"
        BY <1>1, <2>3 DEF Handling, TrapIInv, Frames, Regs
      <3>2. Last(stack) = stack[Len(stack)]
        BY <1>1, <3>1, StackDown
      <3>3. calls[Len(calls)].regs.a7 = "yield"
        BY <1>1, <1>9, <3>1, <3>2 DEF TrapIInv, Frames, Saves
      <3>4. Len(calls) <= MaxFrames
        BY <1>1, <1>9, <3>1, <3>3 DEF TrapIInv, Nested, Yield
      <3> QED
        BY <1>1, <1>3, <1>5, <1>9, <2>3, <3>1, <3>3, <3>4
    <2> QED
      BY <1>1, <1>5, <1>9, <2>1, <2>2, <2>3
  <1>12. Nested'
    BY <1>11 DEF Nested
  <1>13. pc' \in Nat /\ mepc' \in Nat
    BY <1>2 DEF Ecall
  <1> QED
    BY <1>2, <1>4, <1>5, <1>7, <1>8, <1>10, <1>12, <1>13

\* Entry and exit code.
LEMMA PushStep ==
    ASSUME TrapIInv, Push
    PROVE  /\ stack' \in Seq(Context) /\ Len(stack') <= MaxFrames + 1
           /\ mstatus' \in Status /\ regs' \in Regs /\ Frames' /\ Nested'
  <1>1. /\ regs \in Regs /\ mstatus \in Status /\ mcause \in {0, 11} /\ calls \in Seq(CallRecord)
        /\ stack \in Seq(Context) /\ Len(calls) \in Nat /\ Len(stack) \in Nat
        /\ MaxFrames \in Nat /\ mepc \in Nat /\ calls' = calls
    BY TrapAssumption DEF TrapIInv, TrapTypeOK, CallRecord, Push
  <1>2. PICK c \in Context : c = [regs |-> regs, mcause |-> mcause, mstatus |-> mstatus, mepc |-> mepc]
    BY <1>1 DEF Context
  <1>3. stack' = Append(stack, c)
    BY <1>2 DEF Push
  <1>4. /\ stack' \in Seq(Context) /\ Len(stack') = Len(stack) + 1
        /\ \A k \in 1 .. Len(stack) : stack'[k] = stack[k]
        /\ stack'[Len(stack) + 1] = c /\ Last(stack') = c
    BY <1>1, <1>2, <1>3, StackUp
  <1>5. /\ mstatus' \in Status /\ regs' \in Regs
    BY <1>1, TrapAssumption DEF Push, Status, Regs
  <1>6. /\ Len(calls) = Len(stack) + 1 /\ at = "push" /\ at' = "handle"
        /\ Saves([mepc |-> mepc, regs |-> regs, mstatus |-> mstatus], Last(calls))
        /\ regs.a0 = Last(calls).regs.a0 /\ \A k \in 1 .. Len(stack) : Saves(stack[k], calls[k])
    BY DEF TrapIInv, Frames, Push
  <1>7. Last(calls) = calls[Len(stack) + 1]
    BY <1>6 DEF Last
  <1>8. Frames'
    BY <1>1, <1>2, <1>4, <1>6, <1>7 DEF Frames, Saves
  <1>9. Nested'
    BY <1>1 DEF TrapIInv, Nested
  <1>10. Len(stack) + 1 <= MaxFrames + 1
    <2>1. Len(stack) + 1 \in 1 .. Len(calls)
      BY <1>1, <1>6
    <2> QED
      BY <1>1, <2>1 DEF TrapIInv, Nested
  <1> QED
    BY <1>4, <1>5, <1>8, <1>9, <1>10

LEMMA PopStep ==
    ASSUME TrapIInv, Pop
    PROVE  /\ stack' \in Seq(Context) /\ Len(stack') <= MaxFrames + 1
           /\ mstatus' \in Status /\ regs' \in Regs /\ mepc' \in Nat
           /\ Frames' /\ Nested' /\ ContextRestored'
  <1>1. /\ calls \in Seq(CallRecord) /\ stack \in Seq(Context) /\ Len(calls) \in Nat /\ Len(stack) \in Nat
        /\ MaxFrames \in Nat /\ calls' = calls /\ Len(stack) <= MaxFrames + 1
    BY TrapAssumption DEF TrapIInv, TrapTypeOK, CallRecord, Pop
  <1>2. /\ at = "pop" /\ at' = "mret" /\ Len(stack) > 0 /\ Len(calls) = Len(stack)
        /\ Result(Last(calls), Last(stack).regs.a0)
        /\ \A k \in 1 .. Len(stack) : Saves(stack[k], calls[k])
    BY DEF TrapIInv, Frames, Pop
  <1>3. /\ stack' \in Seq(Context) /\ Len(stack') = Len(stack) - 1
        /\ \A k \in 1 .. Len(stack) - 1 : stack'[k] = stack[k]
        /\ Last(stack) \in Context /\ Last(stack) = stack[Len(stack)]
    BY <1>1, <1>2, StackDown DEF Pop
  <1>4. Last(calls) \in CallRecord /\ Last(calls) = calls[Len(calls)]
    BY <1>1, <1>2, StackDown
  <1>5. /\ mstatus' = Last(stack).mstatus /\ mepc' = Last(stack).mepc + 4 /\ regs' = Last(stack).regs
    BY DEF Pop
  <1>6. mstatus' \in Status /\ regs' \in Regs /\ mepc' \in Nat
    BY <1>3, <1>5 DEF Context
  <1>7. Frames'
    BY <1>1, <1>2, <1>3 DEF Frames
  <1>8. Nested'
    BY <1>1 DEF TrapIInv, Nested
  <1>9. Saves(Last(stack), Last(calls))
    BY <1>1, <1>2, <1>3, <1>4
  <1>10. ContextRestored'
    BY <1>1, <1>2, <1>4, <1>5, <1>9 DEF ContextRestored, Saves, Result
  <1> QED
    BY <1>1, <1>3, <1>6, <1>7, <1>8, <1>10

\* The handler's result goes into the context on top of the stack.
LEMMA ResultStep ==
    ASSUME stack \in Seq(Context), Len(stack) > 0, NEW result \in Val \union Results, SetResult(result)
    PROVE  /\ stack' \in Seq(Context) /\ Len(stack') = Len(stack)
           /\ \A k \in 1 .. Len(stack) - 1 : stack'[k] = stack[k]
           /\ Last(stack').regs.a0 = result
           /\ \A call : Saves(stack[Len(stack)], call) => Saves(stack'[Len(stack)], call)
  <1>1. PICK c \in Context : c = stack[Len(stack)]
    OBVIOUS
  <1>2. PICK c0 \in Context : c0 = [c EXCEPT !.regs.a0 = result]
    BY DEF Context, Regs
  <1>3. /\ c0.regs.a0 = result /\ c0.regs.s = c.regs.s /\ c0.regs.a7 = c.regs.a7
        /\ c0.mepc = c.mepc /\ c0.mstatus = c.mstatus
    BY <1>2 DEF Context, Regs
  <1>4. stack' = [stack EXCEPT ![Len(stack)] = c0]
    BY <1>1, <1>2 DEF SetResult
  <1>5. /\ stack' \in Seq(Context) /\ Len(stack') = Len(stack)
        /\ stack'[Len(stack)] = c0 /\ \A k \in 1 .. Len(stack) - 1 : stack'[k] = stack[k]
    BY <1>4
  <1>6. Last(stack') = c0
    BY <1>5 DEF Last
  <1>7. \A call : Saves(stack[Len(stack)], call) => Saves(stack'[Len(stack)], call)
    BY <1>1, <1>3, <1>5 DEF Saves
  <1> QED
    BY <1>3, <1>5, <1>6, <1>7

\* mret, back in a program or in the handler of SYS_yield.
LEMMA MretStep ==
    ASSUME TrapIInv, ReturnToProgram \/ ReturnToHandler
    PROVE  /\ stack' \in Seq(Context) /\ Len(stack') <= MaxFrames + 1 /\ calls' \in Seq(CallRecord)
           /\ mstatus' \in Status /\ Frames' /\ Nested'
  <1>1. /\ calls \in Seq(CallRecord) /\ stack \in Seq(Context) /\ Len(calls) \in Nat /\ Len(stack) \in Nat
        /\ MaxFrames \in Nat /\ Len(stack) <= MaxFrames + 1 /\ mstatus \in Status
    BY TrapAssumption DEF TrapIInv, TrapTypeOK, CallRecord
  <1>2. /\ at = "mret" /\ Len(calls) = Len(stack) + 1
        /\ \A k \in 1 .. Len(stack) : Saves(stack[k], calls[k])
        /\ mepc = Last(calls).pc + 4
    BY DEF TrapIInv, Frames, ContextRestored, ReturnToProgram, ReturnToHandler
  <1>0. /\ calls' = Front(calls)
        /\ mstatus' = [mstatus EXCEPT !.mie = mstatus.mpie, !.mpie = TRUE]
    BY DEF ReturnToProgram, ReturnToHandler, Mret
  <1>3. /\ calls' \in Seq(CallRecord) /\ Len(calls') = Len(stack)
        /\ \A k \in 1 .. Len(stack) : calls'[k] = calls[k]
        /\ Last(calls) = calls[Len(calls)] /\ calls[Len(calls)] \in CallRecord
    <2>1. /\ Front(calls) \in Seq(CallRecord) /\ Len(Front(calls)) = Len(calls) - 1
          /\ \A k \in 1 .. Len(calls) - 1 : Front(calls)[k] = calls[k]
          /\ Last(calls) = calls[Len(calls)] /\ Last(calls) \in CallRecord
      <3>1. Len(calls) > 0
        BY <1>1, <1>2
      <3> QED
        BY <1>1, <3>1, StackDown
    <2> QED
      BY <1>0, <1>1, <1>2, <2>1
  <1>4. mstatus' \in Status
    BY <1>0, <1>1 DEF Status
  <1>5. Nested'
    <2>1. SUFFICES ASSUME NEW k \in 1 .. Len(stack)
                   PROVE  /\ k <= MaxFrames \/ (k = MaxFrames + 1 /\ calls'[k].pc = KYield)
                          /\ calls'[k].pc \in UserPcs \union {KYield}
                          /\ calls'[k].pc = KYield =>
                                k > 1 /\ calls'[k].regs.a7 = Yield /\ calls'[k - 1].regs.a7 = "yield"
      BY <1>3 DEF Nested
    <2>2. /\ k <= MaxFrames \/ (k = MaxFrames + 1 /\ calls[k].pc = KYield)
          /\ calls[k].pc \in UserPcs \union {KYield}
          /\ calls[k].pc = KYield =>
                k > 1 /\ calls[k].regs.a7 = Yield /\ calls[k - 1].regs.a7 = "yield"
      BY <1>1, <1>2 DEF TrapIInv, Nested
    <2>3. calls'[k] = calls[k] /\ (k > 1 => calls'[k - 1] = calls[k - 1])
      <3>1. k > 1 => k - 1 \in 1 .. Len(stack)
        BY <1>1
      <3>2. \A i \in 1 .. Len(stack) : calls'[i] = calls[i]
        BY <1>3
      <3> QED
        BY <3>1, <3>2
    <2> QED
      BY <2>2, <2>3
  <1>6. CASE ReturnToProgram
    <2>1. stack' = stack /\ at' = "run"
      BY <1>6 DEF ReturnToProgram
    <2>2. Frames'
      BY <1>1, <1>2, <1>3, <2>1 DEF Frames
    <2> QED
      BY <1>1, <1>3, <1>4, <1>5, <2>1, <2>2
  <1>7. CASE ReturnToHandler
    <2>1. mepc = KYield + 4 /\ at' = "pop" /\ stack' = [stack EXCEPT ![Len(stack)].regs.a0 = 0]
      BY <1>7 DEF ReturnToHandler, SetResult
    <2>2. calls[Len(calls)].pc \in Nat
      BY <1>3 DEF CallRecord
    <2>3. calls[Len(calls)].pc = KYield
      BY <1>2, <1>3, <2>1, <2>2, PcsApart
    <2>4. Len(stack) > 0 /\ calls[Len(stack)].regs.a7 = "yield"
      BY <1>1, <1>2, <2>3 DEF TrapIInv, Nested
    <2>5. SetResult(0) /\ 0 \in Val \union Results
      BY <1>7, TrapAssumption DEF ReturnToHandler
    <2>9. /\ stack' \in Seq(Context) /\ Len(stack') = Len(stack)
          /\ \A k \in 1 .. Len(stack) - 1 : stack'[k] = stack[k]
          /\ Last(stack').regs.a0 = 0
          /\ \A call : Saves(stack[Len(stack)], call) => Saves(stack'[Len(stack)], call)
      BY <1>1, <2>4, <2>5, ResultStep
    <2>10. Last(calls') = calls[Len(stack)]
      BY <1>1, <1>3, <2>4 DEF Last
    <2>11. \A k \in 1 .. Len(stack) : Saves(stack'[k], calls'[k])
      BY <1>1, <1>2, <1>3, <2>9
    <2>12. Result(Last(calls'), Last(stack').regs.a0)
      BY <2>4, <2>9, <2>10 DEF Result, Yield
    <2>13. Frames'
      <3>1. at' = "pop" /\ Len(calls') = Len(stack') /\ Len(stack') > 0
        BY <1>3, <2>1, <2>4, <2>9
      <3>2. \A k \in 1 .. Len(stack') : Saves(stack'[k], calls'[k])
        BY <2>9, <2>11
      <3> QED
        BY <1>1, <2>4, <2>9, <2>12, <3>1, <3>2 DEF Frames
    <2> QED
      BY <1>1, <1>3, <1>4, <1>5, <2>9, <2>13
  <1> QED
    BY <1>6, <1>7

\* The handlers that end in a return to trap.S, and those that do not return.
LEMMA HandlerStep ==
    ASSUME TrapIInv, DoEventYield \/ sys_file \/ sys_sbrk \/ KernelPanic
    PROVE  /\ stack' \in Seq(Context) /\ Len(stack') <= MaxFrames + 1 /\ Frames' /\ Nested'
           /\ UNCHANGED <<pc, regs, mepc, mcause, mstatus, calls>> /\ at' \in {"pop", "panic"}
  <1>1. /\ calls \in Seq(CallRecord) /\ stack \in Seq(Context) /\ Len(calls) \in Nat /\ Len(stack) \in Nat
        /\ MaxFrames \in Nat /\ Len(stack) <= MaxFrames + 1
    BY TrapAssumption DEF TrapIInv, TrapTypeOK, CallRecord
  <1>2. UNCHANGED <<pc, regs, mepc, mcause, mstatus, calls>> /\ at' \in {"pop", "panic"}
    BY DEF DoEventYield, sys_file, sys_sbrk, KernelPanic
  <1>3. at = "handle"
    BY DEF DoEventYield, sys_file, sys_sbrk, KernelPanic, Handling
  <1>4. /\ Len(stack) > 0 /\ Len(calls) = Len(stack) /\ Last(stack).regs.a0 = Last(calls).regs.a0
        /\ \A k \in 1 .. Len(stack) : Saves(stack[k], calls[k])
    BY <1>3 DEF TrapIInv, Frames
  <1>5. Nested'
    BY <1>2 DEF TrapIInv, Nested
  <1>6. Last(calls).regs.a7 = Last(stack).regs.a7
    BY <1>1, <1>4 DEF Saves, Last
  <1>7. CASE stack' = stack /\ at' = "pop" /\ Handling(Yield)
    <2>1. Result(Last(calls), Last(stack).regs.a0)
      BY <1>4, <1>6, <1>7 DEF Handling, Result, Yield
    <2>2. Frames'
      BY <1>1, <1>2, <1>4, <1>7, <2>1 DEF Frames
    <2> QED
      BY <1>1, <1>2, <1>5, <1>7, <2>2
  <1>8. CASE stack' = stack /\ at' = "panic"
    <2>1. Frames'
      BY <1>1, <1>2, <1>4, <1>8 DEF Frames
    <2> QED
      BY <1>1, <1>2, <1>5, <1>8, <2>1
  <1>9. ASSUME NEW result \in Results, SetResult(result), at' = "pop",
               Last(stack).regs.a7 = "file" \/ (Last(stack).regs.a7 = "brk" /\ result = 0)
        PROVE  stack' \in Seq(Context) /\ Len(stack') <= MaxFrames + 1 /\ Frames'
    <2>1. /\ stack' \in Seq(Context) /\ Len(stack') = Len(stack)
          /\ \A k \in 1 .. Len(stack) - 1 : stack'[k] = stack[k]
          /\ Last(stack').regs.a0 = result
          /\ \A call : Saves(stack[Len(stack)], call) => Saves(stack'[Len(stack)], call)
      BY <1>1, <1>4, <1>9, ResultStep
    <2>2. \A k \in 1 .. Len(stack) : Saves(stack'[k], calls[k])
      BY <1>1, <1>4, <2>1
    <2>3. Result(Last(calls), result)
      BY <1>6, <1>9 DEF Result, Yield
    <2>4. Frames'
      BY <1>1, <1>2, <1>4, <1>9, <2>1, <2>2, <2>3 DEF Frames
    <2> QED
      BY <1>1, <2>1, <2>4
  <1>10. CASE sys_file
    BY <1>2, <1>5, <1>9, <1>10 DEF sys_file, Handling
  <1>11. CASE sys_sbrk
    <2>1. SetResult(0) /\ at' = "pop" /\ Last(stack).regs.a7 = "brk" /\ 0 \in Results
      BY <1>11, TrapAssumption DEF sys_sbrk, Handling
    <2> QED
      BY <1>2, <1>5, <1>9, <2>1
  <1> QED
    BY <1>7, <1>8, <1>10, <1>11 DEF DoEventYield, KernelPanic

-----------------------------------------------------------------------------
(* Trap: the loader                                                        *)

\* Where memcpy has word i of the destination from, if it has copied it: a
\* destination in the middle of the source is filled with the words before it.
CopiedFrom(dst, src, i) == IF src < dst THEN src + (i % (dst - src)) ELSE src + i

CopyOf(m, dst, src, n) ==
    [a \in DOMAIN m |-> IF a \in dst .. dst + n - 1 THEN m[CopiedFrom(dst, src, a - dst)] ELSE m[a]]

LEMMA CopiedInside ==
    ASSUME NEW dst \in Nat, NEW src \in Nat, NEW k \in Nat, dst + k <= MemSize, src + k <= MemSize,
           NEW i \in 0 .. k - 1
    PROVE  CopiedFrom(dst, src, i) \in Addrs
  <1>0. MemSize \in Nat
    BY LoaderAssumption
  <1>1. CASE src < dst
    <2>1. PICK d \in Nat \ {0} : d = dst - src
      BY <1>1
    <2>2. i \in Nat
      OBVIOUS
    <2>3. PICK t \in 0 .. d - 1 : t = i % d
      BY <2>2, Remainder
    <2>4. i < d => t = i
      BY <2>2, <2>3, Remainder
    <2>5. t <= i
      BY <2>3, <2>4
    <2>6. CopiedFrom(dst, src, i) = src + t
      BY <1>1, <2>1, <2>3 DEF CopiedFrom
    <2> QED
      BY <1>0, <2>3, <2>5, <2>6 DEF Addrs
  <1>2. CASE ~(src < dst)
    BY <1>0, <1>2 DEF CopiedFrom, Addrs
  <1> QED
    BY <1>1, <1>2

\* One round of memcpy's loop.
LEMMA CopyRound ==
    ASSUME NEW m \in [Addrs -> Nat], NEW dst \in Nat, NEW src \in Nat, NEW k \in Nat \ {0},
           dst + k <= MemSize, src + k <= MemSize
    PROVE  /\ CopyOf(m, dst, src, k - 1) \in [Addrs -> Nat]
           /\ CopyOf(m, dst, src, k) =
                 [CopyOf(m, dst, src, k - 1) EXCEPT ![dst + k - 1] = CopyOf(m, dst, src, k - 1)[src + k - 1]]
  <1>0. MemSize \in Nat
    BY LoaderAssumption
  <1> USE <1>0
  <1>1. \A i \in 0 .. k - 1 : CopiedFrom(dst, src, i) \in Addrs
    BY CopiedInside
  <1> DEFINE c == CopyOf(m, dst, src, k - 1)
  <1>2. ASSUME NEW a \in Addrs
        PROVE  c[a] = IF a \in dst .. dst + k - 2 THEN m[CopiedFrom(dst, src, a - dst)] ELSE m[a]
    BY DEF CopyOf
  <1>3. ASSUME NEW a \in Addrs, a \in dst .. dst + k - 2
        PROVE  c[a] \in Nat
    <2>1. CopiedFrom(dst, src, a - dst) \in Addrs
      BY <1>1, <1>3
    <2> QED
      BY <1>2, <1>3, <2>1
  <1>4. c \in [Addrs -> Nat]
    <2>1. ASSUME NEW a \in Addrs PROVE c[a] \in Nat
      BY <1>2, <1>3
    <2>2. c = [a \in Addrs |-> c[a]]
      BY DEF CopyOf
    <2> HIDE DEF c
    <2> QED
      BY <2>1, <2>2
  <1>5. src + k - 1 \in Addrs /\ dst + k - 1 \in Addrs
    BY DEF Addrs
  <1>6. c[src + k - 1] = m[CopiedFrom(dst, src, k - 1)]
    <2>1. CASE ~(src < dst)
      BY <1>2, <1>5, <2>1 DEF CopiedFrom
    <2>2. CASE src < dst
      <3>1. PICK d \in Nat \ {0} : d = dst - src
        BY <2>2
      <3>2. PICK i \in Nat : i = k - 1
        OBVIOUS
      <3>3. CASE i < d
        <4>1. i % d = i
          BY <3>3, Remainder
        <4>2. CopiedFrom(dst, src, k - 1) = src + k - 1
          BY <2>2, <3>1, <3>2, <4>1 DEF CopiedFrom
        <4>3. ~(src + k - 1 \in dst .. dst + k - 2)
          BY <3>1, <3>2, <3>3
        <4> QED
          BY <1>2, <1>5, <4>2, <4>3
      <3>4. CASE i >= d
        <4>1. i % d = (i - d) % d
          BY <3>4, Remainder
        <4>2. CopiedFrom(dst, src, k - 1) = src + (i % d)
          BY <2>2, <3>1, <3>2 DEF CopiedFrom
        <4>3. src + k - 1 \in dst .. dst + k - 2 /\ src + k - 1 - dst = i - d
          BY <3>1, <3>2, <3>4
        <4>4. CopiedFrom(dst, src, src + k - 1 - dst) = src + ((i - d) % d)
          BY <2>2, <3>1, <4>3 DEF CopiedFrom
        <4>5. CopiedFrom(dst, src, src + k - 1 - dst) = CopiedFrom(dst, src, k - 1)
          BY <4>1, <4>2, <4>4
        <4>6. c[src + k - 1] = m[CopiedFrom(dst, src, src + k - 1 - dst)]
          BY <1>2, <1>5, <4>3
        <4> HIDE DEF c
        <4> QED
          BY <4>5, <4>6
      <3> QED
        BY <3>3, <3>4
    <2> QED
      BY <2>1, <2>2
  <1>7. ASSUME NEW a \in Addrs
        PROVE  CopyOf(m, dst, src, k)[a] = [c EXCEPT ![dst + k - 1] = c[src + k - 1]][a]
    <2>1. CopyOf(m, dst, src, k)[a] =
             IF a \in dst .. dst + k - 1 THEN m[CopiedFrom(dst, src, a - dst)] ELSE m[a]
      BY DEF CopyOf
    <2>2. CASE a = dst + k - 1
      <3>1. a - dst = k - 1 /\ a \in dst .. dst + k - 1
        BY <2>2
      <3> HIDE DEF c
      <3> QED
        BY <1>4, <1>6, <2>1, <2>2, <3>1
    <2>3. CASE a # dst + k - 1
      <3>1. a \in dst .. dst + k - 1 <=> a \in dst .. dst + k - 2
        BY <2>3 DEF Addrs
      <3>2. CopyOf(m, dst, src, k)[a] = c[a]
        BY <1>2, <2>1, <3>1
      <3> HIDE DEF c
      <3> QED
        BY <1>4, <2>3, <3>2
    <2> QED
      BY <2>2, <2>3
  <1>8. CopyOf(m, dst, src, k) = [a \in Addrs |-> CopyOf(m, dst, src, k)[a]]
    BY DEF CopyOf
  <1>9. CopyOf(m, dst, src, k) = [c EXCEPT ![dst + k - 1] = c[src + k - 1]]
    <2> HIDE DEF c
    <2> QED
      BY <1>4, <1>7, <1>8
  <1> QED
    BY <1>4, <1>9

\* memcpy's loop as a function of the memory it starts with.
LEMMA MemcpyIs ==
    ASSUME NEW m \in [Addrs -> Nat], NEW dst \in Nat, NEW src \in Nat, NEW n \in Nat,
           dst + n <= MemSize, src + n <= MemSize
    PROVE  memcpy(m, dst, src, n) = CopyOf(m, dst, src, n)
  <1> DEFINE Round(f) == [k \in 0 .. n |->
                 IF k = 0 THEN m
                 ELSE [f[k - 1] EXCEPT ![dst + k - 1] = f[k - 1][src + k - 1]]]
             copied == CHOOSE f : f = Round(f)
             g == [k \in 0 .. n |-> CopyOf(m, dst, src, k)]
  <1>1. memcpy(m, dst, src, n) = copied[n]
    BY DEF memcpy
  <1>2. ASSUME NEW k \in 0 .. n
        PROVE  g[k] = IF k = 0 THEN m
                      ELSE [g[k - 1] EXCEPT ![dst + k - 1] = g[k - 1][src + k - 1]]
    <2>1. CASE k = 0
      <3>1. CopyOf(m, dst, src, 0) = m
        BY DEF CopyOf
      <3> QED
        BY <2>1, <3>1
    <2>2. CASE k # 0
      <3>1. k \in Nat \ {0} /\ dst + k <= MemSize /\ src + k <= MemSize
        BY <2>2, LoaderAssumption
      <3>2. CopyOf(m, dst, src, k) =
               [CopyOf(m, dst, src, k - 1) EXCEPT ![dst + k - 1] = CopyOf(m, dst, src, k - 1)[src + k - 1]]
        BY <3>1, CopyRound
      <3>3. g[k] = CopyOf(m, dst, src, k) /\ g[k - 1] = CopyOf(m, dst, src, k - 1)
        BY <2>2
      <3> HIDE DEF g
      <3> QED
        BY <2>2, <3>2, <3>3
    <2> QED
      BY <2>1, <2>2
  <1>3. g = Round(g)
    <2>1. g = [k \in 0 .. n |-> g[k]]
      OBVIOUS
    <2> HIDE DEF g
    <2> QED
      BY <1>2, <2>1
  <1>4. copied = Round(copied)
    <2> HIDE DEF g, Round
    <2> QED
      BY <1>3
  <1>5. ASSUME NEW k \in 0 .. n
        PROVE  copied[k] = IF k = 0 THEN m
                           ELSE [copied[k - 1] EXCEPT ![dst + k - 1] = copied[k - 1][src + k - 1]]
    <2> HIDE DEF copied
    <2> QED
      BY <1>4
  <1> HIDE DEF copied, g
  <1>6. copied[n] = g[n]
    <2> DEFINE S == {i \in 0 .. n : copied[i] # g[i]}
    <2>1. CASE S # {}
      <3>0. S \in SUBSET Nat
        OBVIOUS
      <3>1. PICK j \in S : \A i \in S : j <= i
        <4> HIDE DEF S
        <4> QED
          BY <2>1, <3>0, LeastNumber
      <3>2. j \in 0 .. n /\ copied[j] # g[j]
        BY <3>1
      <3>3. j # 0
        BY <1>2, <1>5, <3>2
      <3>4. j - 1 \in 0 .. n /\ copied[j - 1] = g[j - 1]
        BY <3>1, <3>2, <3>3
      <3>5. copied[j] = [copied[j - 1] EXCEPT ![dst + j - 1] = copied[j - 1][src + j - 1]]
        BY <1>5, <3>2, <3>3
      <3>6. g[j] = [g[j - 1] EXCEPT ![dst + j - 1] = g[j - 1][src + j - 1]]
        BY <1>2, <3>2, <3>3
      <3> QED
        BY <3>2, <3>4, <3>5, <3>6
    <2> QED
      BY <2>1
  <1>7. g[n] = CopyOf(m, dst, src, n)
    BY DEF g
  <1> QED
    BY <1>1, <1>6, <1>7

\* What the loader may rely on in a program header.
SegmentOK(seg) ==
    /\ seg.load \in BOOLEAN /\ seg.vaddr \in Nat /\ seg.memsz \in Nat /\ seg.file \in Seq(Nat)
    /\ Len(seg.file) \in Nat /\ Len(seg.file) <= seg.memsz /\ seg.vaddr + seg.memsz <= MemSize

LEMMA HeadersOK ==
    ASSUME NEW p \in Programs
    PROVE  /\ Len(Headers(p)) \in Nat /\ DOMAIN Headers(p) = 1 .. Len(Headers(p))
           /\ \A k \in DOMAIN Headers(p) : SegmentOK(Headers(p)[k])
           /\ \A k, j \in DOMAIN Headers(p) : k # j =>
                 NoOverlap(Headers(p)[k].vaddr, Headers(p)[k].memsz, Headers(p)[j].vaddr, Headers(p)[j].memsz)
  <1>1. Headers(p) \in Seq([load : BOOLEAN, vaddr : Nat, file : Seq(Nat), memsz : Nat])
    BY LoaderAssumption
  <1>2. /\ Len(Headers(p)) \in Nat /\ DOMAIN Headers(p) = 1 .. Len(Headers(p))
    BY <1>1
  <1>3. ASSUME NEW k \in DOMAIN Headers(p) PROVE SegmentOK(Headers(p)[k])
    <2> DEFINE Header == [load : BOOLEAN, vaddr : Nat, file : Seq(Nat), memsz : Nat]
    <2>0. Headers(p) \in Seq(Header)
      BY <1>1
    <2>1. PICK seg \in Header : seg = Headers(p)[k]
      <3> HIDE DEF Header
      <3> QED
        BY <1>2, <2>0
    <2>2. seg.vaddr + seg.memsz <= MemSize /\ Len(seg.file) <= seg.memsz
      BY <2>1, LoaderAssumption
    <2>3. SegmentOK(seg)
      BY <2>2 DEF SegmentOK
    <2> QED
      BY <2>1, <2>3
  <1>4. \A k, j \in DOMAIN Headers(p) : k # j =>
                 NoOverlap(Headers(p)[k].vaddr, Headers(p)[k].memsz, Headers(p)[j].vaddr, Headers(p)[j].memsz)
    BY LoaderAssumption
  <1> QED
    BY <1>2, <1>3, <1>4

LEMMA MallocIs ==
    ASSUME NEW m \in [Addrs -> Nat], NEW n \in Nat
    PROVE  /\ malloc(m, n) \in [Addrs -> Nat]
           /\ \A a \in Addrs : a \notin hbrk .. hbrk + n - 1 => malloc(m, n)[a] = m[a]
  BY DEF malloc, memset

\* Memory l is m with segment seg loaded: if the buffer at b was below its
\* place the segment is there, and no other memory has changed but the buffer.
SegmentLoaded(m, seg, b, l) ==
    /\ l \in [Addrs -> Nat]
    /\ (seg.memsz > 0 => b + Len(seg.file) <= seg.vaddr) => SegmentInPlace(l, seg)
    /\ \A a \in Addrs : /\ a \notin b .. b + Len(seg.file) - 1
                        /\ a \notin seg.vaddr .. seg.vaddr + seg.memsz - 1
                        => l[a] = m[a]

LEMMA LoadedIs ==
    ASSUME NEW m \in [Addrs -> Nat], NEW seg, SegmentOK(seg),
           NEW b \in Nat, b + Len(seg.file) <= MemSize
    PROVE  SegmentLoaded(m, seg, b, Loaded(m, seg, b))
  <1>1. PICK size \in Nat, v \in Nat, sz \in Nat :
            size = Len(seg.file) /\ v = seg.vaddr /\ sz = seg.memsz
    BY DEF SegmentOK
  <1>2. /\ size <= sz /\ v + sz <= MemSize /\ b + size <= MemSize /\ MemSize \in Nat
        /\ \A i \in 1 .. size : seg.file[i] \in Nat
    <2>1. MemSize \in Nat
      BY LoaderAssumption
    <2> QED
      BY <1>1, <2>1 DEF SegmentOK
  <1>3. PICK f \in [Addrs -> Nat] : f = Filled(m, b, seg.file)
    <2>1. ASSUME NEW a \in Addrs
          PROVE  (IF a \in b .. b + size - 1 THEN seg.file[a - b + 1] ELSE m[a]) \in Nat
      <3>1. CASE a \in b .. b + size - 1
        <4>1. a - b + 1 \in 1 .. size
          BY <1>1, <3>1
        <4> QED
          BY <1>2, <3>1, <4>1
      <3>2. CASE a \notin b .. b + size - 1
        BY <3>2
      <3> QED
        BY <3>1, <3>2
    <2> QED
      BY <1>1, <2>1 DEF Filled
  <1>4. ASSUME NEW a \in Addrs
        PROVE  f[a] = IF a \in b .. b + size - 1 THEN seg.file[a - b + 1] ELSE m[a]
    BY <1>1, <1>3 DEF Filled
  <1>5. memcpy(f, v, b, size) = CopyOf(f, v, b, size)
    BY <1>2, MemcpyIs
  <1>6. CopyOf(f, v, b, size) \in [Addrs -> Nat]
    <2>1. ASSUME NEW i \in 0 .. size - 1 PROVE CopiedFrom(v, b, i) \in Addrs
      <3>1. v + size <= MemSize /\ b + size <= MemSize
        BY <1>2
      <3> QED
        BY <3>1, CopiedInside
    <2>2. ASSUME NEW a \in Addrs
          PROVE  (IF a \in v .. v + size - 1 THEN f[CopiedFrom(v, b, a - v)] ELSE f[a]) \in Nat
      <3>1. CASE a \in v .. v + size - 1
        <4>1. a - v \in 0 .. size - 1
          BY <3>1
        <4> QED
          BY <2>1, <3>1, <4>1
      <3>2. CASE a \notin v .. v + size - 1
        BY <3>2
      <3> QED
        BY <3>1, <3>2
    <2> QED
      BY <2>2 DEF CopyOf
  <1>7. PICK c \in [Addrs -> Nat] : c = CopyOf(f, v, b, size)
    BY <1>6
  <1>8. ASSUME NEW a \in Addrs
        PROVE  c[a] = IF a \in v .. v + size - 1 THEN f[CopiedFrom(v, b, a - v)] ELSE f[a]
    BY <1>7 DEF CopyOf
  <1>9. Loaded(m, seg, b) = memset(c, v + size, 0, sz - size)
    BY <1>1, <1>3, <1>5, <1>7 DEF Loaded
  <1>10. PICK l \in [Addrs -> Nat] : l = Loaded(m, seg, b)
    BY <1>9 DEF memset
  <1>11. ASSUME NEW a \in Addrs
         PROVE  l[a] = IF a \in v + size .. v + sz - 1 THEN 0 ELSE c[a]
    BY <1>2, <1>9, <1>10 DEF memset
  <1>12. ASSUME sz > 0 => b + size <= v, NEW a \in 0 .. sz - 1
         PROVE  l[v + a] = IF a < size THEN seg.file[a + 1] ELSE 0
    <2>1. v + a \in Addrs /\ b + size <= v
      BY <1>2, <1>12 DEF Addrs
    <2>2. CASE a < size
      <3>1. CopiedFrom(v, b, a) = b + a
        <4>1. a \in Nat /\ a < v - b /\ v - b \in Nat \ {0} /\ b < v
          BY <2>1, <2>2
        <4>2. PICK d \in Nat \ {0} : d = v - b
          BY <4>1
        <4>3. a % d = a
          BY <4>1, <4>2, Remainder
        <4> QED
          BY <4>1, <4>2, <4>3 DEF CopiedFrom
      <3>2. v + a \in v .. v + size - 1 /\ v + a - v = a /\ v + a \notin v + size .. v + sz - 1
        BY <2>2
      <3>3. c[v + a] = f[b + a]
        <4>1. PICK w \in Addrs : w = v + a
          BY <2>1
        <4>2. w \in v .. v + size - 1 /\ w - v = a
          BY <3>2, <4>1
        <4>3. c[w] = f[CopiedFrom(v, b, w - v)]
          BY <1>8, <4>2
        <4> QED
          BY <3>1, <4>1, <4>2, <4>3
      <3>4. b + a \in Addrs /\ b + a \in b .. b + size - 1 /\ b + a - b + 1 = a + 1
        BY <1>2, <2>2 DEF Addrs
      <3>5. f[b + a] = seg.file[a + 1]
        <4>1. PICK w \in Addrs : w = b + a
          BY <3>4
        <4>2. w \in b .. b + size - 1 /\ w - b + 1 = a + 1
          BY <3>4, <4>1
        <4>3. f[w] = seg.file[w - b + 1]
          BY <1>4, <4>2
        <4> QED
          BY <4>1, <4>2, <4>3
      <3> QED
        BY <1>11, <2>1, <2>2, <3>2, <3>3, <3>5
    <2>3. CASE ~(a < size)
      <3>1. v + a \in v + size .. v + sz - 1
        BY <2>3
      <3> QED
        BY <1>11, <2>1, <2>3, <3>1
    <2> QED
      BY <2>2, <2>3
  <1>13. (sz > 0 => b + size <= v) => SegmentInPlace(l, seg)
    BY <1>1, <1>12 DEF SegmentInPlace
  <1>14. ASSUME NEW a \in Addrs, a \notin b .. b + size - 1, a \notin v .. v + sz - 1
         PROVE  l[a] = m[a]
    <2>1. a \notin v + size .. v + sz - 1 /\ a \notin v .. v + size - 1
      BY <1>2, <1>14 DEF Addrs
    <2>2. l[a] = c[a] /\ c[a] = f[a] /\ f[a] = m[a]
      BY <1>4, <1>8, <1>11, <1>14, <2>1
    <2> QED
      BY <2>2
  <1> QED
    BY <1>1, <1>10, <1>13, <1>14 DEF SegmentLoaded

\* The heap, and what has been loaded, in the loader's steps.
LoaderOK == /\ mem \in [Addrs -> Nat] /\ hbrk \in Addrs /\ program \in Programs /\ ph \in Nat \ {0}
            /\ phase \in {"exit", "load", "run", "abort"}

LEMMA ReadHeadersStep ==
    ASSUME LoaderOK, ReadHeaders
    PROVE  LoaderOK' /\ LoadedSoFar'
  <1>1. PICK n \in Nat : n = PhdrWords * Len(Headers(program))
    <2>1. PhdrWords \in Nat /\ Len(Headers(program)) \in Nat
      BY HeadersOK, LoaderAssumption DEF LoaderOK
    <2> QED
      BY <2>1
  <1>2. CASE Room(n)
    <2>1. mem' = malloc(mem, n) /\ hbrk' = hbrk + n /\ ph' = 1 /\ phase' = "load" /\ program' = program
      BY <1>1, <1>2 DEF ReadHeaders
    <2>2. mem' \in [Addrs -> Nat]
      BY <2>1, MallocIs DEF LoaderOK
    <2>3. hbrk' \in Addrs
      BY <1>2, <2>1, LoaderAssumption DEF Room, Addrs, LoaderOK
    <2>4. LoadedSoFar'
      <3>1. DOMAIN Headers(program') \subseteq Nat \ {0}
        BY <2>1, HeadersOK DEF LoaderOK
      <3> QED
        BY <2>1, <3>1 DEF LoadedSoFar
    <2> QED
      BY <2>1, <2>2, <2>3, <2>4 DEF LoaderOK
  <1>3. CASE ~Room(n)
    BY <1>1, <1>3 DEF ReadHeaders, Abort, LoaderOK, LoadedSoFar
  <1> QED
    BY <1>2, <1>3

LEMMA LoadSegmentStep ==
    ASSUME LoaderOK, LoadedSoFar, LoadSegment
    PROVE  LoaderOK' /\ LoadedSoFar'
  <1>1. PICK H : H = Headers(program)
    OBVIOUS
  <1>2. /\ Len(H) \in Nat /\ DOMAIN H = 1 .. Len(H)
        /\ \A k \in DOMAIN H : SegmentOK(H[k])
        /\ \A k, j \in DOMAIN H : k # j => NoOverlap(H[k].vaddr, H[k].memsz, H[j].vaddr, H[j].memsz)
    BY <1>1, HeadersOK DEF LoaderOK
  <1>3. ph \in Nat /\ ph > 0 /\ ph <= Len(H) /\ phase = "load"
    BY <1>1 DEF LoadSegment, LoaderOK
  <1>4. PICK h0 : h0 = ph
    OBVIOUS
  <1>5. PICK seg : seg = H[h0]
    OBVIOUS
  <1>6. CASE ~seg.load
    <2>1. ph' = ph + 1 /\ UNCHANGED <<mem, hbrk, program, phase>>
      BY <1>1, <1>4, <1>5, <1>6 DEF LoadSegment
    <2>2. SegmentInPlace(mem, seg)
      BY <1>6 DEF SegmentInPlace
    <2>3. HeapBelow' => HeapBelow
      BY <2>1 DEF HeapBelow
    <2>4. LoadedSoFar'
      <3>1. SUFFICES ASSUME HeapBelow, NEW k \in 1 .. Len(H), k < ph + 1 PROVE SegmentInPlace(mem, H[k])
        BY <1>1, <1>2, <2>1, <2>3 DEF LoadedSoFar
      <3>2. k < ph => SegmentInPlace(mem, H[k])
        BY <1>1, <1>2, <1>3, <3>1 DEF LoadedSoFar
      <3> QED
        BY <1>3, <1>4, <1>5, <2>2, <3>1, <3>2
    <2> QED
      BY <2>1, <2>4 DEF LoaderOK
  <1>7. CASE seg.load /\ ~Room(Len(seg.file) + 1)
    BY <1>1, <1>4, <1>5, <1>7 DEF LoadSegment, Abort, LoaderOK, LoadedSoFar
  <1>8. CASE seg.load /\ Room(Len(seg.file) + 1)
    <2>1. PICK b \in Nat : b = hbrk
      BY LoaderAssumption DEF LoaderOK, Addrs
    <2>2. PICK n \in Nat : n = Len(seg.file) + 1
      BY <1>2, <1>3, <1>4, <1>5 DEF SegmentOK
    <2>3. mem' = Loaded(malloc(mem, n), seg, b) /\ hbrk' = b + n /\ ph' = ph + 1 /\ UNCHANGED <<program, phase>>
      BY <1>1, <1>4, <1>5, <1>8, <2>1, <2>2 DEF LoadSegment
    <2>4. PICK m \in [Addrs -> Nat] : m = malloc(mem, n)
      BY MallocIs DEF LoaderOK
    <2>5. \A a \in Addrs : a \notin b .. b + n - 1 => m[a] = mem[a]
      <3>1. \A a \in Addrs : a \notin hbrk .. hbrk + n - 1 => malloc(mem, n)[a] = mem[a]
        BY MallocIs DEF LoaderOK
      <3> QED
        BY <2>1, <2>4, <3>1
    <2>6. SegmentOK(seg) /\ b + n < MemSize /\ MemSize \in Nat /\ h0 \in DOMAIN H /\ Len(seg.file) = n - 1
      <3>0. MemSize \in Nat
        BY LoaderAssumption
      <3>1. h0 \in DOMAIN H
        BY <1>2, <1>3, <1>4
      <3>2. SegmentOK(seg)
        BY <1>2, <1>5, <3>1
      <3> QED
        BY <1>8, <2>1, <2>2, <3>0, <3>1, <3>2 DEF Room, SegmentOK
    <2>7. PICK l : l = Loaded(m, seg, b) /\ SegmentLoaded(m, seg, b, l)
      <3>1. b + Len(seg.file) <= MemSize
        BY <2>6
      <3> QED
        BY <2>6, <3>1, LoadedIs
    <2>8. mem' = l
      BY <2>3, <2>4, <2>7
    <2>9. LoaderOK'
      <3>1. l \in [Addrs -> Nat]
        BY <2>7 DEF SegmentLoaded
      <3>2. b + n \in Addrs
        BY <2>6 DEF Addrs
      <3> QED
        BY <1>3, <2>3, <2>8, <3>1, <3>2 DEF LoaderOK
    <2>10. ASSUME HeapBelow', NEW k \in DOMAIN H, H[k].load, NEW a \in 0 .. H[k].memsz - 1
           PROVE  b + n <= H[k].vaddr + a
      <3>1. H[k].vaddr + a \in Area(program)
        <4>1. H[k].vaddr + a \in H[k].vaddr .. H[k].vaddr + H[k].memsz - 1
          BY <1>2 DEF SegmentOK
        <4>2. H[k] \in {H[j] : j \in {j \in DOMAIN H : H[j].load}}
          BY <2>10
        <4> QED
          BY <1>1, <4>1, <4>2 DEF Area
      <3> QED
        BY <2>3, <2>10, <3>1 DEF HeapBelow
    <2>11. ASSUME HeapBelow', NEW k \in DOMAIN H, k < ph, SegmentInPlace(mem, H[k])
           PROVE  SegmentInPlace(l, H[k])
      <3>1. SUFFICES ASSUME H[k].load, NEW a \in 0 .. H[k].memsz - 1
                     PROVE  l[H[k].vaddr + a] = mem[H[k].vaddr + a]
        BY <2>11 DEF SegmentInPlace
      <3>2. PICK w : w = H[k].vaddr + a
        OBVIOUS
      <3>3. w \in Addrs /\ w >= b + n
        <4>1. b + n <= H[k].vaddr + a
          BY <2>10, <2>11, <3>1, Zenon
        <4>2. /\ H[k].vaddr \in Nat /\ H[k].memsz \in Nat /\ H[k].vaddr + H[k].memsz <= MemSize
          BY <1>2 DEF SegmentOK
        <4>3. PICK v \in Nat, z \in Nat : v = H[k].vaddr /\ z = H[k].memsz
          BY <4>2
        <4>4. w = v + a /\ a \in 0 .. z - 1 /\ v + z <= MemSize /\ b + n <= w
          BY <3>2, <4>1, <4>2, <4>3
        <4> QED
          BY <2>6, <4>4 DEF Addrs
      <3>4. w \notin seg.vaddr .. seg.vaddr + seg.memsz - 1
        <4>1. NoOverlap(H[k].vaddr, H[k].memsz, seg.vaddr, seg.memsz)
          BY <1>2, <1>3, <1>4, <1>5, <2>6, <2>11
        <4>2. H[k].vaddr \in Nat /\ H[k].memsz \in Nat /\ seg.vaddr \in Nat /\ seg.memsz \in Nat
          BY <1>2, <2>6 DEF SegmentOK
        <4> QED
          BY <3>2, <4>1, <4>2 DEF NoOverlap
      <3>5. w \notin b .. b + n - 1 /\ w \notin b .. b + Len(seg.file) - 1
        BY <2>6, <3>3 DEF Addrs
      <3> QED
        BY <2>5, <2>7, <3>2, <3>3, <3>4, <3>5 DEF SegmentLoaded
    <2>12. HeapBelow' => SegmentInPlace(l, seg)
      <3>1. SUFFICES ASSUME HeapBelow' PROVE seg.memsz > 0 => b + Len(seg.file) <= seg.vaddr
        BY <2>7 DEF SegmentLoaded
      <3>2. seg.memsz > 0 => b + n <= seg.vaddr + 0
        <4>1. seg.memsz > 0 => 0 \in 0 .. seg.memsz - 1
          BY <2>6 DEF SegmentOK
        <4> QED
          BY <1>5, <1>8, <2>6, <2>10, <3>1, <4>1
      <3> QED
        BY <2>6, <3>2 DEF SegmentOK
    <2>13. HeapBelow' => HeapBelow
      <3>1. SUFFICES ASSUME HeapBelow', NEW a \in Area(program) PROVE hbrk <= a
        BY DEF HeapBelow
      <3>2. a \in Nat
        <4>1. PICK k \in DOMAIN H : a \in H[k].vaddr .. H[k].vaddr + H[k].memsz - 1
          BY <1>1, <3>1 DEF Area
        <4> QED
          BY <1>2, <4>1 DEF SegmentOK
      <3>3. b + n <= a
        BY <2>3, <3>1 DEF HeapBelow
      <3> QED
        BY <2>1, <3>2, <3>3
    <2>14. LoadedSoFar'
      <3>1. SUFFICES ASSUME HeapBelow', NEW k \in DOMAIN H, k < ph + 1 PROVE SegmentInPlace(l, H[k])
        BY <1>1, <2>3, <2>8 DEF LoadedSoFar
      <3>2. CASE k < ph
        BY <1>1, <1>3, <2>11, <2>13, <3>1, <3>2 DEF LoadedSoFar
      <3>3. CASE k = ph
        BY <1>4, <1>5, <2>12, <3>1, <3>3
      <3> QED
        BY <1>2, <1>3, <3>1, <3>2, <3>3
    <2> QED
      BY <2>9, <2>14
  <1> QED
    BY <1>6, <1>7, <1>8

\* A program that has been loaded is in place.
LEMMA LoadedInPlace ==
    ASSUME LoaderOK, LoadedSoFar, EndLoad, HeapBelow
    PROVE  InPlace(mem)
  <1>1. Len(Headers(program)) \in Nat /\ DOMAIN Headers(program) = 1 .. Len(Headers(program))
    BY HeadersOK DEF LoaderOK
  <1> QED
    BY <1>1 DEF LoadedSoFar, EndLoad, InPlace, LoaderOK

-----------------------------------------------------------------------------
(* Trap: the theorems                                                      *)

\* The initial state is loading with nothing on the stack.
LEMMA TrapInitially == TrapInit => TrapIInv
  <1> SUFFICES ASSUME TrapInit PROVE TrapIInv
    OBVIOUS
  <1>1. /\ at = "load" /\ pc \in Nat /\ mepc \in Nat /\ mcause \in {0, 11} /\ stack = << >> /\ calls = << >>
    BY DEF TrapInit, Entry
  <1>2. regs \in Regs /\ mstatus \in Status
    BY TrapAssumption DEF TrapInit, Regs, Status
  <1>3. LoaderOK /\ LoadedSoFar
    BY LoaderAssumption DEF TrapInit, LoaderInit, LoaderOK, LoadedSoFar
  <1>4. TrapTypeOK
    BY <1>1, <1>2, <1>3, TrapAssumption DEF TrapTypeOK, LoaderOK
  <1>5. Frames /\ Nested /\ ContextRestored
    BY <1>1 DEF Frames, Nested, ContextRestored
  <1> QED
    BY <1>3, <1>4, <1>5 DEF TrapIInv

\* The loader's part of the invariant in steps of the processor, and the
\* processor's part in steps of the loader.
LEMMA LoaderUntouched ==
    ASSUME LoaderOK, LoadedSoFar, UNCHANGED loaderVars
    PROVE  LoaderOK' /\ LoadedSoFar'
  BY DEF LoaderOK, LoadedSoFar, loaderVars, HeapBelow

LEMMA TrapUntouched ==
    ASSUME TrapIInv, UNCHANGED trapVars, LoaderOK', LoadedSoFar'
    PROVE  TrapIInv'
  <1>1. UNCHANGED <<at, pc, regs, mepc, mcause, mstatus, stack, calls>>
    BY DEF trapVars
  <1>2. Frames'
    BY <1>1 DEF TrapIInv, Frames
  <1>3. Nested'
    BY <1>1 DEF TrapIInv, Nested
  <1>4. ContextRestored'
    BY <1>1 DEF TrapIInv, ContextRestored
  <1>5. TrapTypeOK'
    BY <1>1 DEF TrapIInv, TrapTypeOK, LoaderOK
  <1> QED
    BY <1>2, <1>3, <1>4, <1>5 DEF TrapIInv

\* The steps of trap handling.
LEMMA HandleStep ==
    ASSUME TrapIInv, Handle
    PROVE  TrapIInv'
  <1>0. /\ LoaderOK /\ LoadedSoFar
        /\ pc \in Nat /\ regs \in Regs /\ mepc \in Nat /\ mcause \in {0, 11} /\ mstatus \in Status
        /\ stack \in Seq(Context) /\ Len(stack) <= MaxFrames + 1 /\ calls \in Seq(CallRecord)
    BY DEF TrapIInv, TrapTypeOK, LoaderOK, CallRecord
  <1>1. LoaderOK' /\ LoadedSoFar'
    BY <1>0, LoaderUntouched DEF Handle
  <1>2. CASE Push
    <2>1. /\ stack' \in Seq(Context) /\ Len(stack') <= MaxFrames + 1
          /\ mstatus' \in Status /\ regs' \in Regs /\ Frames' /\ Nested'
      BY <1>2, PushStep
    <2>2. at' = "handle" /\ UNCHANGED <<pc, mepc, mcause, calls>>
      BY <1>2 DEF Push
    <2> QED
      BY <1>0, <1>1, <2>1, <2>2 DEF TrapIInv, TrapTypeOK, LoaderOK, CallRecord, ContextRestored
  <1>3. CASE Pop
    <2>1. /\ stack' \in Seq(Context) /\ Len(stack') <= MaxFrames + 1
          /\ mstatus' \in Status /\ regs' \in Regs /\ mepc' \in Nat
          /\ Frames' /\ Nested' /\ ContextRestored'
      BY <1>3, PopStep
    <2>2. at' = "mret" /\ UNCHANGED <<pc, mcause, calls>>
      BY <1>3 DEF Pop
    <2> QED
      BY <1>0, <1>1, <2>1, <2>2 DEF TrapIInv, TrapTypeOK, LoaderOK, CallRecord
  <1>4. CASE ReturnToProgram \/ ReturnToHandler
    <2>1. /\ stack' \in Seq(Context) /\ Len(stack') <= MaxFrames + 1 /\ calls' \in Seq(CallRecord)
          /\ mstatus' \in Status /\ Frames' /\ Nested'
      BY <1>4, MretStep
    <2>2. at' \in {"run", "pop"} /\ UNCHANGED <<regs, mepc, mcause>> /\ pc' \in {pc, mepc}
      BY <1>4 DEF ReturnToProgram, ReturnToHandler
    <2> QED
      BY <1>0, <1>1, <2>1, <2>2 DEF TrapIInv, TrapTypeOK, LoaderOK, CallRecord, ContextRestored
  <1>5. CASE DoEventYield \/ sys_file \/ sys_sbrk \/ KernelPanic
    <2>1. /\ stack' \in Seq(Context) /\ Len(stack') <= MaxFrames + 1 /\ Frames' /\ Nested'
          /\ UNCHANGED <<pc, regs, mepc, mcause, mstatus, calls>> /\ at' \in {"pop", "panic"}
      BY <1>5, HandlerStep
    <2> QED
      BY <1>0, <1>1, <2>1 DEF TrapIInv, TrapTypeOK, LoaderOK, CallRecord, ContextRestored
  <1>6. CASE sys_yield
    <2>0. PICK r : r = [regs EXCEPT !.a7 = Yield]
      OBVIOUS
    <2>1. Ecall(KYield, r) /\ Handling("yield")
      BY <1>6, <2>0 DEF sys_yield
    <2>2. /\ r \in Regs /\ pc' \in Nat /\ mepc' \in Nat /\ mcause' \in {0, 11}
          /\ mstatus' \in Status /\ calls' \in Seq(CallRecord)
          /\ Frames' /\ Nested' /\ at' = "push" /\ regs' = r /\ stack' = stack
      BY <2>0, <2>1, EcallStep
    <2> QED
      BY <1>0, <1>1, <2>2 DEF TrapIInv, TrapTypeOK, LoaderOK, CallRecord, ContextRestored
  <1> QED
    BY <1>2, <1>3, <1>4, <1>5, <1>6 DEF Handle

\* Every step keeps the invariant.
LEMMA TrapStep ==
    ASSUME TrapIInv, TrapNext
    PROVE  TrapIInv'
  <1>0. /\ LoaderOK /\ LoadedSoFar
        /\ pc \in Nat /\ regs \in Regs /\ mepc \in Nat /\ mcause \in {0, 11} /\ mstatus \in Status
        /\ stack \in Seq(Context) /\ Len(stack) <= MaxFrames + 1 /\ calls \in Seq(CallRecord)
    BY DEF TrapIInv, TrapTypeOK, LoaderOK, CallRecord
  <1>1. CASE Program /\ UNCHANGED loaderVars
    <2>1. PICK from \in UserPcs, r \in [a0 : Val, a7 : Calls \union {Yield}, s : Val] : Ecall(from, r)
      BY <1>1 DEF Program
    <2>2. at = "run" /\ Len(stack) < MaxFrames /\ r \in Regs
      BY <1>1 DEF Program, Regs
    <2>3. /\ pc' \in Nat /\ mepc' \in Nat /\ mcause' \in {0, 11}
          /\ mstatus' \in Status /\ calls' \in Seq(CallRecord)
          /\ Frames' /\ Nested' /\ at' = "push" /\ regs' = r /\ stack' = stack
      BY <2>1, <2>2, EcallStep
    <2>4. LoaderOK' /\ LoadedSoFar'
      BY <1>0, <1>1, LoaderUntouched
    <2> QED
      BY <1>0, <2>2, <2>3, <2>4 DEF TrapIInv, TrapTypeOK, LoaderOK, CallRecord, ContextRestored
  <1>2. CASE at = "run" /\ Store /\ UNCHANGED trapVars
    <2>1. PICK a \in Area(program), c \in Words : mem' = [mem EXCEPT ![a] = c]
      BY <1>2 DEF Store
    <2>2. c \in Nat
      BY LoaderAssumption
    <2>3. mem' \in [Addrs -> Nat]
      BY <1>0, <2>1, <2>2 DEF LoaderOK
    <2>4. LoaderOK' /\ LoadedSoFar'
      BY <1>0, <1>2, <2>3 DEF LoaderOK, LoadedSoFar, Store
    <2> QED
      BY <1>2, <2>4, TrapUntouched
  <1>3. CASE Handle
    BY <1>3, HandleStep
  <1>4. CASE sys_execve
    <2>1. PICK p \in Programs : Unload(p)
      BY <1>4, TrapAssumption DEF sys_execve
    <2>2. LoaderOK' /\ LoadedSoFar'
      BY <1>0, <2>1 DEF Unload, LoaderOK, LoadedSoFar
    <2>3. at = "handle" /\ at' = "load" /\ UNCHANGED <<pc, regs, mepc, mcause, mstatus, stack, calls>>
      BY <1>4 DEF sys_execve, Handling
    <2>4. Frames' /\ Nested' /\ ContextRestored'
      BY <2>3 DEF TrapIInv, Frames, Nested, ContextRestored
    <2> QED
      BY <1>0, <2>2, <2>3, <2>4 DEF TrapIInv, TrapTypeOK, LoaderOK, CallRecord
  <1>5. CASE Load
    <2>1. LoaderOK' /\ LoadedSoFar'
      BY <1>0, <1>5, ReadHeadersStep, LoadSegmentStep DEF Load
    <2> QED
      BY <1>5, <2>1, TrapUntouched DEF Load
  <1>6. CASE naive_uload
    <2>1. LoaderOK' /\ LoadedSoFar'
      BY <1>0, <1>6 DEF naive_uload, EndLoad, LoaderOK, LoadedSoFar
    <2>2. /\ at = "load" /\ at' = "run" /\ pc' \in Nat /\ UNCHANGED <<mepc, mcause, mstatus, stack, calls>>
      BY <1>6 DEF naive_uload, Entry
    <2>3. regs' \in Regs
      BY <1>0, <1>6, TrapAssumption DEF naive_uload, Regs
    <2>4. Frames' /\ Nested' /\ ContextRestored'
      BY <2>2 DEF TrapIInv, Frames, Nested, ContextRestored
    <2> QED
      BY <1>0, <2>1, <2>2, <2>3, <2>4 DEF TrapIInv, TrapTypeOK, LoaderOK, CallRecord
  <1> QED
    BY <1>1, <1>2, <1>3, <1>4, <1>5, <1>6 DEF TrapNext

\* The inductive invariant of traps (trap.S, cte.c, syscall.c) and of loader
\* holds: the contexts on the stack are those of the ecalls that have not
\* returned, and the segments loaded so far are in place.
THEOREM TrapInvariance == TrapSpec => []TrapIInv
  <1>1. TrapIInv /\ [TrapNext]_kernelVars => TrapIInv'
    <2> SUFFICES ASSUME TrapIInv, [TrapNext]_kernelVars PROVE TrapIInv'
      OBVIOUS
    <2>1. CASE UNCHANGED kernelVars
      <3>1. UNCHANGED trapVars /\ UNCHANGED loaderVars
        BY <2>1 DEF kernelVars
      <3>2. LoaderOK /\ LoadedSoFar
        BY DEF TrapIInv, TrapTypeOK, LoaderOK
      <3> QED
        BY <3>1, <3>2, LoaderUntouched, TrapUntouched
    <2> QED
      BY <2>1, TrapStep
  <1> QED
    BY <1>1, TrapInitially, PTL DEF TrapSpec

\* Every mret of the trap code returns behind its own ecall with the registers
\* of that ecall (Pop in trap.S), however deep the traps nest and however many
\* contexts exited programs have left.
THEOREM ContextsRestored == TrapSpec => []ContextRestored
  <1>1. TrapIInv => ContextRestored
    BY DEF TrapIInv
  <1> QED
    BY <1>1, TrapInvariance, PTL

\* When loader ends, every segment of the program is in memory with zeros behind
\* its part of the file, unless malloc has given out part of the program's area.
THEOREM ProgramsLoaded == TrapSpec => ProgramLoaded
  <1>1. TrapIInv /\ [TrapNext]_kernelVars
            => [at = "load" /\ at' = "run" /\ HeapBelow => InPlace(mem)]_kernelVars
    <2> SUFFICES ASSUME TrapIInv, TrapNext, at = "load", at' = "run", HeapBelow
                 PROVE  InPlace(mem)
      OBVIOUS
    <2>1. LoaderOK /\ LoadedSoFar
      BY DEF TrapIInv, TrapTypeOK, LoaderOK
    <2>2. naive_uload
      <3>1. ~Program /\ ~sys_execve /\ ~(Load /\ at' = "run")
        BY DEF Program, sys_execve, Load, Handling, trapVars
      <3>2. ~Handle
        BY DEF Handle, Push, Pop, ReturnToProgram, ReturnToHandler, DoEventYield, sys_yield, sys_file,
               sys_sbrk, KernelPanic, Handling
      <3> QED
        BY <3>1, <3>2 DEF TrapNext
    <2> QED
      BY <2>1, <2>2, LoadedInPlace DEF naive_uload
  <1> QED
    BY <1>1, TrapInvariance, PTL DEF TrapSpec, ProgramLoaded

-----------------------------------------------------------------------------
(* Trap: how long a system call takes                                      *)

\* How far trap handling still has to go.  The kernel's own ecall, in the handler
\* of SYS_yield, makes the way of that call twice as long.
Stage ==
    CASE at = "push" -> IF regs.a7 = "yield" THEN 9 ELSE 7
      [] at = "handle" -> IF Last(stack).regs.a7 = "yield" THEN 8 ELSE 6
      [] at = "pop" -> IF Last(stack).mepc = KYield THEN 5 ELSE 3
      [] at = "mret" -> IF mepc = KYield + 4 THEN 4 ELSE 2
      [] at = "load" -> 1
      [] OTHER -> 0

\* How far the loader still has to go; nothing when malloc's assertion has failed.
Rounds ==
    CASE phase = "exit" -> Len(Headers(program)) + 2
      [] phase = "load" -> Len(Headers(program)) + 2 - ph
      [] OTHER -> 0

\* The loader works exactly while the kernel is in naive_uload, and on headers
\* that are there.
LoadTurn ==
    /\ at = "load" <=> phase # "run"
    /\ phase = "load" => ph <= Len(Headers(program)) + 1

\* The loader's turn is kept.
LEMMA LoadTurnStep ==
    ASSUME TrapIInv, LoadTurn, TrapNext
    PROVE  LoadTurn'
  <1>0. \A p \in Programs : Len(Headers(p)) \in Nat
    BY HeadersOK
  <1>1. CASE (Program \/ Handle) /\ UNCHANGED loaderVars
    <2>1. at # "load" /\ at' # "load"
      BY <1>1 DEF Program, Ecall, Handle, Push, Pop, ReturnToProgram, ReturnToHandler, DoEventYield,
                  sys_yield, sys_file, sys_sbrk, KernelPanic, Handling
    <2> QED
      BY <1>1, <2>1 DEF LoadTurn, loaderVars
  <1>2. CASE at = "run" /\ Store /\ UNCHANGED trapVars
    BY <1>2 DEF LoadTurn, Store, trapVars
  <1>3. CASE sys_execve
    BY <1>3 DEF sys_execve, Unload, LoadTurn
  <1>4. CASE Load /\ ReadHeaders
    BY <1>0, <1>4 DEF Load, ReadHeaders, Abort, LoadTurn, trapVars, TrapIInv, TrapTypeOK
  <1>5. CASE Load /\ LoadSegment
    BY <1>0, <1>5 DEF Load, LoadSegment, Abort, LoadTurn, trapVars, TrapIInv, TrapTypeOK
  <1>6. CASE naive_uload
    BY <1>6 DEF naive_uload, EndLoad, LoadTurn
  <1> QED
    BY <1>1, <1>2, <1>3, <1>4, <1>5, <1>6 DEF TrapNext, Handle, Load

\* What is still to do is zero exactly when nothing is.
LEMMA StageRange ==
    ASSUME TrapIInv, LoadTurn
    PROVE  /\ Stage \in 0 .. 9 /\ (Stage = 0 <=> at \in {"run", "panic"})
           /\ at = "load" => Rounds \in Nat /\ (Rounds = 0 <=> phase = "abort")
  <1>1. Stage \in 0 .. 9 /\ (Stage = 0 <=> at \in {"run", "panic"})
    BY DEF Stage, TrapIInv, TrapTypeOK
  <1>2. at = "load" => Rounds \in Nat /\ (Rounds = 0 <=> phase = "abort")
    <2>1. Len(Headers(program)) \in Nat /\ ph \in Nat /\ phase \in {"exit", "load", "run", "abort"}
      BY HeadersOK DEF TrapIInv, TrapTypeOK
    <2> QED
      BY <2>1 DEF Rounds, LoadTurn
  <1> QED
    BY <1>1, <1>2

\* A round of the loader.
LEMMA RoundsFall ==
    ASSUME TrapIInv, LoadTurn, Load
    PROVE  at' = "load" /\ Rounds' < Rounds
  <1>1. Len(Headers(program)) \in Nat /\ ph \in Nat /\ at' = "load"
    BY HeadersOK DEF TrapIInv, TrapTypeOK, Load, trapVars
  <1>2. CASE ReadHeaders
    <2>1. Rounds = Len(Headers(program)) + 2
      BY <1>2 DEF ReadHeaders, Rounds
    <2>2. Rounds' \in {0, Len(Headers(program)) + 1}
      BY <1>1, <1>2 DEF ReadHeaders, Abort, Rounds
    <2> QED
      BY <1>1, <2>1, <2>2
  <1>3. CASE LoadSegment
    <2>1. Rounds = Len(Headers(program)) + 2 - ph /\ ph <= Len(Headers(program))
      BY <1>3 DEF LoadSegment, Rounds
    <2>2. Rounds' \in {0, Len(Headers(program)) + 2 - (ph + 1)}
      BY <1>1, <1>3 DEF LoadSegment, Abort, Rounds
    <2> QED
      BY <1>1, <2>1, <2>2
  <1> QED
    BY <1>1, <1>2, <1>3 DEF Load

\* The handler of SYS_yield is not in the kernel's yield() itself.
LEMMA YieldOnce ==
    ASSUME TrapIInv, ReturnToHandler
    PROVE  Last(stack').mepc # KYield
  <1>1. /\ calls \in Seq(CallRecord) /\ stack \in Seq(Context) /\ Len(stack) \in Nat
        /\ Len(calls) = Len(stack) + 1 /\ mepc = Last(calls).pc + 4 /\ mepc = KYield + 4
        /\ \A k \in 1 .. Len(stack) : Saves(stack[k], calls[k])
    BY DEF TrapIInv, TrapTypeOK, CallRecord, Frames, ContextRestored, ReturnToHandler
  <1>2. Last(calls) = calls[Len(calls)] /\ calls[Len(calls)].pc = KYield
    <2>1. Last(calls) = calls[Len(calls)] /\ Last(calls) \in CallRecord
      BY <1>1, StackDown
    <2>2. Last(calls).pc \in Nat
      BY <2>1 DEF CallRecord
    <2> QED
      BY <1>1, <2>1, <2>2, PcsApart
  <1>3. Len(stack) > 0 /\ calls[Len(stack)].regs.a7 = "yield"
    BY <1>1, <1>2 DEF TrapIInv, Nested
  <1>4. calls[Len(stack)].pc # KYield
    BY <1>1, <1>3 DEF TrapIInv, Nested, Yield
  <1>5. SetResult(0) /\ 0 \in Val \union Results
    BY TrapAssumption DEF ReturnToHandler
  <1>6. /\ stack' \in Seq(Context) /\ Len(stack') = Len(stack)
        /\ \A call : Saves(stack[Len(stack)], call) => Saves(stack'[Len(stack)], call)
    BY <1>1, <1>3, <1>5, ResultStep
  <1>7. stack'[Len(stack)].mepc = calls[Len(stack)].pc
    BY <1>1, <1>3, <1>6 DEF Saves
  <1> QED
    BY <1>3, <1>4, <1>6, <1>7 DEF Last

\* Every step of the kernel brings the end of the system call nearer.
LEMMA StageFalls ==
    ASSUME TrapIInv, LoadTurn, TrapNext, at # "run"
    PROVE  Stage' < Stage \/ (at = "load" /\ at' = "load" /\ Rounds' < Rounds)
  <1>0. KYield \in Nat /\ mepc \in Nat /\ regs \in Regs
    BY PcsApart DEF TrapIInv, TrapTypeOK
  <1>1. CASE Push
    <2>1. at = "push" /\ at' = "handle" /\ Last(stack').regs.a7 = regs.a7
      <3>1. PICK c : c = [regs |-> regs, mcause |-> mcause, mstatus |-> mstatus, mepc |-> mepc]
        OBVIOUS
      <3>2. stack \in Seq(Context) /\ c \in Context /\ stack' = Append(stack, c)
        BY <1>1, <3>1 DEF TrapIInv, TrapTypeOK, Context, Push
      <3>3. Last(stack') = c
        BY <3>2, StackUp
      <3> QED
        BY <1>1, <3>1, <3>3 DEF Push
    <2> QED
      BY <2>1 DEF Stage
  <1>2. CASE Pop
    <2>1. at = "pop" /\ at' = "mret" /\ mepc' = Last(stack).mepc + 4 /\ Last(stack).mepc \in Nat
      <3>1. stack \in Seq(Context) /\ Len(stack) > 0
        BY <1>2 DEF TrapIInv, TrapTypeOK, Frames, Pop
      <3>2. Last(stack) \in Context
        BY <3>1, StackDown
      <3> QED
        BY <1>2, <3>2 DEF Pop, Context
    <2>2. Stage = (IF Last(stack).mepc = KYield THEN 5 ELSE 3)
      BY <2>1 DEF Stage
    <2>3. Stage' = (IF Last(stack).mepc = KYield THEN 4 ELSE 2)
      BY <1>0, <2>1 DEF Stage
    <2> QED
      BY <2>2, <2>3
  <1>3. CASE ReturnToProgram
    BY <1>3 DEF ReturnToProgram, Stage
  <1>4. CASE ReturnToHandler
    <2>1. at = "mret" /\ at' = "pop" /\ mepc = KYield + 4 /\ Last(stack').mepc # KYield
      BY <1>4, YieldOnce DEF ReturnToHandler
    <2> QED
      BY <2>1 DEF Stage
  <1>5. CASE DoEventYield \/ sys_file \/ sys_sbrk \/ KernelPanic \/ sys_execve
    <2>1. at = "handle" /\ at' \in {"pop", "panic", "load"}
      BY <1>5 DEF DoEventYield, sys_file, sys_sbrk, KernelPanic, sys_execve, Handling
    <2>2. Stage \in {6, 8}
      BY <2>1 DEF Stage
    <2>3. Stage' \in {0, 1, 3, 5}
      BY <2>1 DEF Stage
    <2> QED
      BY <2>2, <2>3
  <1>6. CASE sys_yield
    <2>1. at = "handle" /\ Last(stack).regs.a7 = "yield" /\ at' = "push" /\ regs'.a7 = Yield
      BY <1>0, <1>6 DEF sys_yield, Handling, Ecall, Regs
    <2>2. Stage = 8 /\ Stage' = 7
      BY <2>1 DEF Stage, Yield
    <2> QED
      BY <2>2
  <1>7. CASE Load
    BY <1>7, RoundsFall DEF Load
  <1>8. CASE naive_uload
    BY <1>8 DEF naive_uload, Stage
  <1> QED
    BY <1>1, <1>2, <1>3, <1>4, <1>5, <1>6, <1>7, <1>8 DEF TrapNext, Handle, Program

\* No program, and no nesting of traps, keeps the kernel busy: every step of trap.S,
\* of a handler or of the loader brings the way back nearer, by at most nine stages
\* and, for exit and execve, one round for each program header.  The loader stands
\* still only in malloc's assertion.
THEOREM CallsGetDone ==
    TrapSpec => /\ [](/\ Stage \in 0 .. 9 /\ (Stage = 0 <=> at \in {"run", "panic"})
                      /\ at = "load" => Rounds \in Nat /\ (Rounds = 0 <=> phase = "abort"))
                /\ [][at # "run" => \/ Stage' < Stage
                                    \/ (at = "load" /\ at' = "load" /\ Rounds' < Rounds)]_kernelVars
  <1>1. TrapInit => LoadTurn
    BY DEF TrapInit, LoaderInit, LoadTurn
  <1>2. TrapIInv /\ LoadTurn /\ [TrapNext]_kernelVars => LoadTurn'
    <2>1. UNCHANGED kernelVars /\ LoadTurn => LoadTurn'
      BY DEF kernelVars, trapVars, loaderVars, LoadTurn
    <2> QED
      BY <2>1, LoadTurnStep
  <1>3. TrapIInv /\ LoadTurn =>
            /\ Stage \in 0 .. 9 /\ (Stage = 0 <=> at \in {"run", "panic"})
            /\ at = "load" => Rounds \in Nat /\ (Rounds = 0 <=> phase = "abort")
    BY StageRange
  <1>4. TrapIInv /\ LoadTurn /\ [TrapNext]_kernelVars =>
            [at # "run" => \/ Stage' < Stage
                           \/ (at = "load" /\ at' = "load" /\ Rounds' < Rounds)]_kernelVars
    BY StageFalls
  <1> QED
    BY <1>1, <1>2, <1>3, <1>4, TrapInvariance, PTL DEF TrapSpec

-----------------------------------------------------------------------------
(* Input: queues of events and the ring buffer                             *)

\* Queues of events: what is added last counts, and what is taken first only
\* if nothing follows it.
LEMMA AppendAbsent ==
    ASSUME NEW S, NEW q \in Seq(S), NEW e \in S, NEW k
    PROVE  Absent(Append(q, e), k) <=> Absent(q, k) /\ e.key # k
  <1>1. PICK n \in Nat : n = Len(q)
    OBVIOUS
  <1>2. PICK t \in Seq(S) : t = Append(q, e)
    BY AppendProperties
  <1>3. DOMAIN t = 1 .. n + 1 /\ DOMAIN q = 1 .. n /\ t[n + 1] = e /\ \A i \in 1 .. n : t[i] = q[i]
    BY <1>1, <1>2
  <1>4. Absent(t, k) <=> Absent(q, k) /\ e.key # k
    BY <1>1, <1>3 DEF Absent
  <1> QED
    BY <1>2, <1>4

LEMMA AppendSays ==
    ASSUME NEW S, NEW q \in Seq(S), NEW e \in S, NEW k, NEW held
    PROVE  /\ e.key = k => (LastSays(Append(q, e), k, held) <=> (e.down <=> k \in held))
           /\ e.key # k => (LastSays(Append(q, e), k, held) <=> LastSays(q, k, held))
  <1>1. PICK n \in Nat : n = Len(q)
    OBVIOUS
  <1>2. PICK t \in Seq(S) : t = Append(q, e)
    BY AppendProperties
  <1>3. DOMAIN t = 1 .. n + 1 /\ DOMAIN q = 1 .. n /\ t[n + 1] = e /\ \A i \in 1 .. n : t[i] = q[i]
    BY <1>1, <1>2
  <1>4. e.key = k => (LastSays(t, k, held) <=> (e.down <=> k \in held))
    BY <1>1, <1>3 DEF LastSays
  <1>5. e.key # k => (LastSays(t, k, held) <=> LastSays(q, k, held))
    BY <1>1, <1>3 DEF LastSays
  <1> QED
    BY <1>2, <1>4, <1>5

LEMMA TailAbsent ==
    ASSUME NEW S, NEW q \in Seq(S), q # << >>, NEW k
    PROVE  Absent(q, k) <=> Head(q).key # k /\ Absent(Tail(q), k)
  <1>1. PICK n \in Nat : n = Len(q) /\ n > 0
    BY EmptySeq
  <1>2. PICK t \in Seq(S) : t = Tail(q)
    BY HeadTailProperties
  <1>3. DOMAIN t = 1 .. n - 1 /\ DOMAIN q = 1 .. n /\ Head(q) = q[1] /\ \A i \in 1 .. n - 1 : t[i] = q[i + 1]
    BY <1>1, <1>2
  <1>4. Absent(q, k) <=> q[1].key # k /\ Absent(t, k)
    <2>1. ASSUME Absent(q, k) PROVE q[1].key # k /\ Absent(t, k)
      <3>1. 1 \in 1 .. n /\ \A i \in 1 .. n - 1 : i + 1 \in 1 .. n
        BY <1>1
      <3>2. \A i \in 1 .. n : q[i].key # k
        BY <1>3, <2>1 DEF Absent
      <3>3. \A i \in 1 .. n - 1 : t[i].key # k
        BY <1>3, <3>1, <3>2
      <3> QED
        BY <1>3, <3>1, <3>2, <3>3 DEF Absent
    <2>2. ASSUME q[1].key # k, Absent(t, k), NEW i \in 1 .. n PROVE q[i].key # k
      <3>1. CASE i = 1
        BY <2>2, <3>1
      <3>2. CASE i # 1
        <4>1. i - 1 \in 1 .. n - 1 /\ t[i - 1] = q[i]
          BY <1>3, <3>2
        <4> QED
          BY <1>3, <2>2, <4>1 DEF Absent
      <3> QED
        BY <3>1, <3>2
    <2> QED
      BY <1>3, <2>1, <2>2 DEF Absent
  <1> QED
    BY <1>2, <1>3, <1>4

LEMMA TailSays ==
    ASSUME NEW S, NEW q \in Seq(S), q # << >>, NEW k, NEW held, LastSays(q, k, held)
    PROVE  /\ LastSays(Tail(q), k, held)
           /\ Head(q).key = k /\ Absent(Tail(q), k) => (Head(q).down <=> k \in held)
  <1>1. PICK n \in Nat : n = Len(q) /\ n > 0
    BY EmptySeq
  <1>2. PICK t \in Seq(S) : t = Tail(q)
    BY HeadTailProperties
  <1>3. DOMAIN t = 1 .. n - 1 /\ DOMAIN q = 1 .. n /\ Head(q) = q[1] /\ \A i \in 1 .. n - 1 : t[i] = q[i + 1]
    BY <1>1, <1>2
  <1>4. ASSUME NEW i \in 1 .. n - 1, t[i].key = k, \A j \in 1 .. n - 1 : j > i => t[j].key # k
        PROVE  t[i].down <=> k \in held
    <2>1. i + 1 \in 1 .. n /\ t[i] = q[i + 1]
      BY <1>3
    <2>2. ASSUME NEW j \in 1 .. n, j > i + 1 PROVE q[j].key # k
      <3>1. j - 1 \in 1 .. n - 1 /\ j - 1 > i /\ t[j - 1] = q[j]
        BY <1>3, <2>2
      <3> QED
        BY <1>4, <3>1
    <2> QED
      BY <1>3, <1>4, <2>1, <2>2 DEF LastSays
  <1>5. LastSays(t, k, held)
    BY <1>3, <1>4 DEF LastSays
  <1>6. ASSUME q[1].key = k, Absent(t, k) PROVE q[1].down <=> k \in held
    <2>1. ASSUME NEW j \in 1 .. n, j > 1 PROVE q[j].key # k
      <3>1. j - 1 \in 1 .. n - 1 /\ t[j - 1] = q[j]
        BY <1>3, <2>1
      <3> QED
        BY <1>3, <1>6, <3>1 DEF Absent
    <2> QED
      BY <1>1, <1>3, <1>6, <2>1 DEF LastSays
  <1> QED
    BY <1>2, <1>3, <1>5, <1>6

\* The ring buffer without remainders: how many events it holds, and the slot
\* of each of them.
RingLen(f, r, full) ==
    IF full THEN KEY_QUEUE_LEN - 1 ELSE IF r >= f THEN r - f ELSE r - f + KEY_QUEUE_LEN

SlotOf(f, k) == IF f + k - 1 < KEY_QUEUE_LEN THEN f + k - 1 ELSE f + k - 1 - KEY_QUEUE_LEN

\* Sequence s is what the ring buffer holds.
RingHolds(q, f, r, full, s) ==
    /\ s \in Seq(Event \union {Nothing}) /\ Len(s) = RingLen(f, r, full)
    /\ \A k \in 1 .. Len(s) : s[k] = q[SlotOf(f, k)]

Ring(q, f, r, full) ==
    LET len == IF full THEN KEY_QUEUE_LEN - 1 ELSE (r - f) % KEY_QUEUE_LEN
    IN  [k \in 1 .. len |-> q[(f + k - 1) % KEY_QUEUE_LEN]]

LEMMA RingIs ==
    ASSUME NEW q \in [Slots -> Event \union {Nothing}], NEW f \in Slots, NEW r \in Slots, NEW full \in BOOLEAN
    PROVE  RingHolds(q, f, r, full, Ring(q, f, r, full))
  <1>1. PICK K \in Nat \ {0, 1} : K = KEY_QUEUE_LEN
    BY InputAssumption
  <1>2. f \in 0 .. K - 1 /\ r \in 0 .. K - 1 /\ Slots = 0 .. K - 1
    BY <1>1 DEF Slots
  <1>3. (r - f) % K = IF r >= f THEN r - f ELSE r - f + K
    <2>1. CASE r >= f
      <3>1. PICK i \in Nat : i = r - f
        BY <1>2, <2>1
      <3>2. i < K /\ K \in Nat \ {0}
        BY <1>2, <3>1
      <3>3. i % K = i
        BY <3>2, Remainder
      <3> QED
        BY <2>1, <3>1, <3>3
    <2>2. CASE ~(r >= f)
      <3>1. PICK i \in Nat : i = r - f + K /\ i < K
        BY <1>2, <2>2
      <3>2. (i - K) % K = i
        BY <3>1
      <3>3. i - K = r - f
        BY <1>2, <3>1
      <3> QED
        BY <2>2, <3>1, <3>2, <3>3
    <2> QED
      BY <2>1, <2>2
  <1>4. PICK len \in 0 .. K - 1 : len = RingLen(f, r, full)
    <2>1. RingLen(f, r, full) \in 0 .. K - 1
      <3>1. CASE full
        BY <1>1, <3>1 DEF RingLen
      <3>2. CASE ~full /\ r >= f
        BY <1>1, <1>2, <3>2 DEF RingLen
      <3>3. CASE ~full /\ ~(r >= f)
        BY <1>1, <1>2, <3>3 DEF RingLen
      <3> QED
        BY <3>1, <3>2, <3>3
    <2> QED
      BY <2>1
  <1>5. len = IF full THEN K - 1 ELSE (r - f) % K
    BY <1>1, <1>3, <1>4 DEF RingLen
  <1>6. PICK s : s = Ring(q, f, r, full)
    OBVIOUS
  <1>7. s = [k \in 1 .. len |-> q[(f + k - 1) % K]]
    BY <1>1, <1>5, <1>6 DEF Ring
  <1>8. ASSUME NEW k \in 1 .. len
        PROVE  s[k] = q[SlotOf(f, k)] /\ SlotOf(f, k) \in Slots
    <2>1. PICK i \in Nat : i = f + k - 1
      BY <1>2
    <2>2. i < K => i % K = i
      BY <2>1, Remainder
    <2>3. i >= K => i % K = (i - K) % K
      BY <2>1, Remainder
    <2>4. i >= K => i - K \in Nat /\ i - K < K
      BY <1>2, <2>1
    <2>5. i >= K => (i - K) % K = i - K
      BY <2>4, Remainder
    <2>6. i % K = SlotOf(f, k)
      <3>1. SlotOf(f, k) = IF i < K THEN i ELSE i - K
        BY <1>1, <1>2, <2>1 DEF SlotOf
      <3>2. CASE i < K
        BY <2>2, <3>1, <3>2
      <3>3. CASE ~(i < K)
        BY <2>3, <2>5, <3>1, <3>3
      <3> QED
        BY <3>2, <3>3
    <2>7. SlotOf(f, k) \in Slots
      BY <1>1, <1>2 DEF SlotOf
    <2> QED
      BY <1>7, <2>1, <2>6, <2>7
  <1>9. s \in [1 .. len -> Event \union {Nothing}]
    BY <1>7, <1>8
  <1>10. s \in Seq(Event \union {Nothing}) /\ Len(s) = len
    <2> DEFINE E == Event \union {Nothing}
    <2>1. s \in [1 .. len -> E] /\ len \in Nat
      BY <1>9
    <2> HIDE DEF E
    <2>2. s \in Seq(E) /\ Len(s) = len
      BY <2>1
    <2> QED
      BY <2>2 DEF E
  <1> QED
    BY <1>4, <1>6, <1>8, <1>10 DEF RingHolds

LEMMA AfterIs ==
    ASSUME NEW f \in Slots
    PROVE  After(f) = IF f + 1 < KEY_QUEUE_LEN THEN f + 1 ELSE 0
  <1>1. PICK K \in Nat \ {0} : K = KEY_QUEUE_LEN
    BY InputAssumption
  <1>2. PICK i \in Nat : i = f + 1 /\ i <= K
    BY <1>1 DEF Slots
  <1>3. i < K => i % K = i
    BY Remainder
  <1>4. i >= K => i % K = (i - K) % K
    BY Remainder
  <1>5. 0 \in Nat /\ 0 % K = 0
    BY Remainder
  <1>6. After(f) = i % K
    BY <1>1, <1>2 DEF After
  <1>7. i >= K => i - K = 0
    BY <1>2
  <1> QED
    BY <1>1, <1>2, <1>3, <1>4, <1>5, <1>6, <1>7

\* A sequence is known by its length and its elements.
LEMMA RingUnique ==
    ASSUME NEW q, NEW f, NEW r, NEW full, NEW s, NEW t,
           RingHolds(q, f, r, full, s), RingHolds(q, f, r, full, t)
    PROVE  s = t
  <1> DEFINE E == Event \union {Nothing}
  <1>1. s \in Seq(E) /\ t \in Seq(E) /\ Len(s) = Len(t) /\ \A k \in 1 .. Len(s) : s[k] = t[k]
    BY DEF RingHolds
  <1> HIDE DEF E
  <1> QED
    BY <1>1, SeqEqual

\* key_enqueue adds an event at the end, or fails if there is no room for it.
LEMMA RingPut ==
    ASSUME NEW q \in [Slots -> Event \union {Nothing}], NEW f \in Slots, NEW r \in Slots,
           NEW e \in Event \union {Nothing}, NEW s, RingHolds(q, f, r, FALSE, s)
    PROVE  /\ After(r) \in Slots
           /\ After(r) # f => /\ RingHolds([q EXCEPT ![r] = e], f, After(r), FALSE, Append(s, e))
                              /\ Len(s) < KEY_QUEUE_LEN - 1
           /\ After(r) = f => /\ RingHolds([q EXCEPT ![r] = e], f, After(r), TRUE, s)
                              /\ Len(s) = KEY_QUEUE_LEN - 1
  <1>1. PICK K \in Nat \ {0, 1} : K = KEY_QUEUE_LEN
    BY InputAssumption
  <1>2. f \in 0 .. K - 1 /\ r \in 0 .. K - 1 /\ Slots = 0 .. K - 1
    BY <1>1 DEF Slots
  <1>3. After(r) = IF r + 1 < K THEN r + 1 ELSE 0
    BY <1>1, <1>2, AfterIs
  <1>4. PICK n \in Nat : n = Len(s) /\ n = IF r >= f THEN r - f ELSE r - f + K
    <2>1. Len(s) = RingLen(f, r, FALSE)
      BY DEF RingHolds
    <2>2. RingLen(f, r, FALSE) = IF r >= f THEN r - f ELSE r - f + K
      BY <1>1 DEF RingLen
    <2>3. (IF r >= f THEN r - f ELSE r - f + K) \in Nat
      BY <1>2
    <2> QED
      BY <2>1, <2>2, <2>3
  <1>5. PICK p : p = [q EXCEPT ![r] = e]
    OBVIOUS
  <1>6. p[r] = e /\ \A a \in Slots : a # r => p[a] = q[a]
    BY <1>5
  <1>7. ASSUME NEW k \in 1 .. n PROVE SlotOf(f, k) \in Slots /\ SlotOf(f, k) # r
    BY <1>1, <1>2, <1>4 DEF SlotOf
  <1>8. \A k \in 1 .. n : s[k] = p[SlotOf(f, k)]
    BY <1>4, <1>6, <1>7 DEF RingHolds
  <1>9. SlotOf(f, n + 1) = r
    BY <1>1, <1>2, <1>4 DEF SlotOf
  <1> DEFINE E == Event \union {Nothing}
  <1>10. s \in Seq(E) /\ e \in E
    BY DEF RingHolds
  <1>11. After(r) # f => /\ RingHolds(p, f, After(r), FALSE, Append(s, e))
                         /\ Len(s) < KEY_QUEUE_LEN - 1
    <2>1. SUFFICES ASSUME After(r) # f
                   PROVE  RingHolds(p, f, After(r), FALSE, Append(s, e)) /\ n < K - 1
      BY <1>1, <1>4
    <2>2. RingLen(f, After(r), FALSE) = n + 1 /\ n < K - 1
      BY <1>1, <1>2, <1>3, <1>4, <2>1 DEF RingLen
    <2>3. PICK t \in Seq(E) : /\ t = Append(s, e) /\ Len(t) = n + 1 /\ t[n + 1] = e
                             /\ \A k \in 1 .. n : t[k] = s[k]
      <3> HIDE DEF E
      <3>1. /\ Append(s, e) \in Seq(E) /\ Len(Append(s, e)) = Len(s) + 1
            /\ \A k \in 1 .. Len(s) : Append(s, e)[k] = s[k]
            /\ Append(s, e)[Len(s) + 1] = e
        BY <1>10, AppendProperties
      <3> QED
        BY <1>4, <3>1
    <2>4. ASSUME NEW k \in 1 .. n + 1 PROVE t[k] = p[SlotOf(f, k)]
      <3>1. CASE k \in 1 .. n
        BY <1>8, <2>3, <3>1
      <3>2. CASE k = n + 1
        BY <1>6, <1>9, <2>3, <3>2
      <3> QED
        BY <3>1, <3>2
    <2>5. RingHolds(p, f, After(r), FALSE, t)
      BY <2>2, <2>3, <2>4 DEF RingHolds
    <2> QED
      BY <2>2, <2>3, <2>5
  <1>12. After(r) = f => /\ RingHolds(p, f, After(r), TRUE, s)
                         /\ Len(s) = KEY_QUEUE_LEN - 1
    <2>1. SUFFICES ASSUME After(r) = f
                   PROVE  RingHolds(p, f, After(r), TRUE, s) /\ n = K - 1
      BY <1>1, <1>4
    <2>2. n = K - 1
      BY <1>1, <1>2, <1>3, <1>4, <2>1
    <2>3. RingLen(f, After(r), TRUE) = n
      BY <1>1, <2>2 DEF RingLen
    <2> QED
      BY <1>4, <1>8, <1>10, <2>2, <2>3 DEF RingHolds
  <1>13. After(r) \in Slots
    BY <1>2, <1>3
  <1> QED
    BY <1>5, <1>11, <1>12, <1>13

\* key_dequeue takes the first one.
LEMMA RingGet ==
    ASSUME NEW q \in [Slots -> Event \union {Nothing}], NEW f \in Slots, NEW r \in Slots, f # r,
           NEW s, RingHolds(q, f, r, FALSE, s)
    PROVE  /\ After(f) \in Slots
           /\ s # << >> /\ Head(s) = q[f] /\ RingHolds(q, After(f), r, FALSE, Tail(s))
  <1>1. PICK K \in Nat \ {0, 1} : K = KEY_QUEUE_LEN
    BY InputAssumption
  <1>2. f \in 0 .. K - 1 /\ r \in 0 .. K - 1 /\ Slots = 0 .. K - 1
    BY <1>1 DEF Slots
  <1>3. After(f) = IF f + 1 < K THEN f + 1 ELSE 0
    BY <1>1, <1>2, AfterIs
  <1>4. PICK n \in Nat : n = Len(s) /\ n = IF r >= f THEN r - f ELSE r - f + K
    <2>1. Len(s) = RingLen(f, r, FALSE)
      BY DEF RingHolds
    <2>2. RingLen(f, r, FALSE) = IF r >= f THEN r - f ELSE r - f + K
      BY <1>1 DEF RingLen
    <2>3. (IF r >= f THEN r - f ELSE r - f + K) \in Nat
      BY <1>2
    <2> QED
      BY <2>1, <2>2, <2>3
  <1>5. n > 0 /\ RingLen(After(f), r, FALSE) = n - 1
    BY <1>1, <1>2, <1>3, <1>4 DEF RingLen
  <1> DEFINE E == Event \union {Nothing}
  <1>6. s \in Seq(E)
    BY DEF RingHolds
  <1>7. s # << >> /\ Head(s) = s[1]
    <2> HIDE DEF E
    <2>1. Len(s) > 0
      BY <1>4, <1>5
    <2> QED
      BY <1>6, <2>1
  <1>8. PICK t \in Seq(E) : t = Tail(s) /\ Len(t) = n - 1 /\ \A k \in 1 .. n - 1 : t[k] = s[k + 1]
    <2> HIDE DEF E
    <2>1. /\ Tail(s) \in Seq(E) /\ Len(Tail(s)) = Len(s) - 1
          /\ \A k \in 1 .. Len(Tail(s)) : Tail(s)[k] = s[k + 1]
      BY <1>6, <1>7, HeadTailProperties
    <2> QED
      BY <1>4, <2>1
  <1>9. ASSUME NEW k \in 1 .. n - 1 PROVE t[k] = q[SlotOf(After(f), k)]
    <2>1. k + 1 \in 1 .. n
      BY <1>4
    <2>2. s[k + 1] = q[SlotOf(f, k + 1)]
      BY <1>4, <2>1 DEF RingHolds
    <2>3. SlotOf(f, k + 1) = SlotOf(After(f), k)
      BY <1>1, <1>2, <1>3, <1>4 DEF SlotOf
    <2> QED
      BY <1>8, <2>2, <2>3
  <1>10. RingHolds(q, After(f), r, FALSE, t)
    BY <1>5, <1>8, <1>9 DEF RingHolds
  <1>11. s[1] = q[f]
    <2>0. 1 \in 1 .. n
      BY <1>5
    <2>1. s[1] = q[SlotOf(f, 1)]
      BY <1>4, <2>0 DEF RingHolds
    <2>2. SlotOf(f, 1) = f
      BY <1>1, <1>2 DEF SlotOf
    <2> QED
      BY <2>1, <2>2
  <1>12. After(f) \in Slots
    BY <1>2, <1>3
  <1> QED
    BY <1>7, <1>8, <1>10, <1>11, <1>12

HostEvents == [key : Scancodes, down : BOOLEAN]

\* miniSDL finds the entry that has the name of the key.
LEMMA NamesFound ==
    ASSUME NEW c \in Codes
    PROVE  /\ FirstMatch(KeyName[c]) \in DOMAIN SdlName
           /\ SdlName[FirstMatch(KeyName[c])] = KeyName[c]
           /\ \A i \in DOMAIN SdlName : SdlName[i] = KeyName[c] => i = FirstMatch(KeyName[c])
  <1>1. /\ KeyName \in Seq(Seq(STRING)) /\ SdlName \in Seq(Seq(STRING))
        /\ \A a, b \in DOMAIN SdlName : SdlName[a] = SdlName[b] => a = b
        /\ {KeyName[i] : i \in DOMAIN KeyName} = {SdlName[i] : i \in DOMAIN SdlName}
    BY InputAssumption DEF IsInjective, ToSet
  <1> DEFINE Name == Seq(STRING)
  <1>2. /\ c \in DOMAIN KeyName /\ KeyName[c] \in Name
        /\ DOMAIN SdlName = 1 .. Len(SdlName) /\ Len(SdlName) \in Nat
        /\ \A i \in DOMAIN SdlName : SdlName[i] \in Name
    <2>1. KeyName \in Seq(Name) /\ SdlName \in Seq(Name)
      BY <1>1
    <2> HIDE DEF Name
    <2> QED
      BY <2>1 DEF Codes
  <1>3. PICK x \in Name : x = KeyName[c]
    BY <1>2
  <1>4. ASSUME NEW i \in DOMAIN SdlName
        PROVE  Matches(x, SdlName[i]) <=> SdlName[i] = x
    <2>1. PICK y \in Name : y = SdlName[i]
      BY <1>2
    <2>2. SubSeq(x, 1, Len(x)) = x /\ SubSeq(y, 1, Len(y)) = y /\ Len(x) \in Nat
      BY SubSeqFull
    <2>3. Matches(x, y) <=> y = x
      <3> HIDE DEF Name
      <3>1. Matches(x, y) <=> Len(x) <= Len(y) /\ SubSeq(x, 1, Len(x)) = SubSeq(y, 1, Len(x)) /\ Len(x) = Len(y)
        BY DEF Matches, IsPrefix
      <3>2. ASSUME Matches(x, y) PROVE y = x
        <4>1. SubSeq(x, 1, Len(x)) = SubSeq(y, 1, Len(x)) /\ Len(x) = Len(y)
          BY <3>1, <3>2
        <4>2. SubSeq(y, 1, Len(x)) = y
          BY <2>2, <4>1, Zenon
        <4> QED
          BY <2>2, <4>1, <4>2, Zenon
      <3>3. Matches(x, x)
        <4>1. Len(x) <= Len(x)
          BY <2>2
        <4> QED
          BY <4>1 DEF Matches, IsPrefix
      <3> QED
        BY <3>2, <3>3, Zenon
    <2> QED
      BY <2>1, <2>3
  <1>5. PICK j \in DOMAIN SdlName : SdlName[j] = x
    <2>1. x \in {KeyName[i] : i \in DOMAIN KeyName}
      BY <1>2, <1>3
    <2> QED
      BY <1>1, <2>1
  <1>6. \A i \in 1 .. j - 1 : ~Matches(x, SdlName[i])
    <2>1. \A i \in 1 .. j - 1 : i \in DOMAIN SdlName /\ i # j
      BY <1>2
    <2> QED
      BY <1>1, <1>4, <1>5, <2>1
  <1>7. FirstMatch(x) \in DOMAIN SdlName /\ Matches(x, SdlName[FirstMatch(x)])
    BY <1>4, <1>5, <1>6 DEF FirstMatch
  <1> QED
    BY <1>1, <1>3, <1>4, <1>7

\* The ring buffer of the state.
LEMMA PendingIs ==
    InputTypeOK => RingHolds(key_queue, key_f, key_r, asserted, Pending)
  <1> SUFFICES ASSUME InputTypeOK PROVE RingHolds(key_queue, key_f, key_r, asserted, Pending)
    OBVIOUS
  <1>1. Pending = Ring(key_queue, key_f, key_r, asserted)
    BY DEF Pending, Ring
  <1>2. RingHolds(key_queue, key_f, key_r, asserted, Ring(key_queue, key_f, key_r, asserted))
    BY RingIs DEF InputTypeOK
  <1> QED
    BY <1>1, <1>2

LEMMA PendingQueue ==
    InputTypeOK => Pending \in Seq(Event \union {Nothing})
  BY PendingIs DEF RingHolds

\* key_enqueue and key_dequeue on the ring buffer.
LEMMA EnqueueStep ==
    ASSUME InputTypeOK, ~asserted, NEW e \in Event, key_enqueue(e), key_f' = key_f
    PROVE  /\ key_queue' \in [Slots -> Event \union {Nothing}] /\ key_r' \in Slots /\ asserted' \in BOOLEAN
           /\ ~asserted' => Pending' = Append(Pending, e) /\ Len(Pending) < KEY_QUEUE_LEN - 1
           /\ asserted' => Pending' = Pending /\ Len(Pending) = KEY_QUEUE_LEN - 1
  <1>1. /\ key_queue \in [Slots -> Event \union {Nothing}] /\ key_f \in Slots /\ key_r \in Slots
        /\ asserted = FALSE
    BY DEF InputTypeOK
  <1>2. RingHolds(key_queue, key_f, key_r, FALSE, Pending)
    BY <1>1, PendingIs
  <1>3. PICK q, f, r, s : q = key_queue /\ f = key_f /\ r = key_r /\ s = Pending
    OBVIOUS
  <1>4. key_queue' = [q EXCEPT ![r] = e] /\ key_r' = After(r) /\ asserted' = (key_r' = f)
    BY <1>3 DEF key_enqueue
  <1>5. /\ After(r) \in Slots
        /\ After(r) # f => /\ RingHolds([q EXCEPT ![r] = e], f, After(r), FALSE, Append(s, e))
                           /\ Len(s) < KEY_QUEUE_LEN - 1
        /\ After(r) = f => /\ RingHolds([q EXCEPT ![r] = e], f, After(r), TRUE, s)
                           /\ Len(s) = KEY_QUEUE_LEN - 1
    BY <1>1, <1>2, <1>3, RingPut
  <1>6. /\ key_queue' \in [Slots -> Event \union {Nothing}] /\ key_r' \in Slots /\ key_f' \in Slots
        /\ asserted' \in BOOLEAN
    BY <1>1, <1>3, <1>4, <1>5
  <1>7. Pending' = Ring(key_queue', key_f', key_r', asserted')
    BY DEF Pending, Ring
  <1>8. RingHolds(key_queue', key_f', key_r', asserted', Pending')
    BY <1>6, <1>7, RingIs
  <1>9. CASE After(r) # f
    <2>1. asserted' = FALSE
      BY <1>4, <1>9
    <2>2. RingHolds(key_queue', key_f', key_r', asserted', Append(s, e))
      BY <1>3, <1>4, <1>5, <1>9, <2>1
    <2>3. Pending' = Append(s, e)
      BY <1>8, <2>2, RingUnique
    <2> QED
      BY <1>3, <1>5, <1>6, <1>9, <2>1, <2>3
  <1>10. CASE After(r) = f
    <2>1. asserted' = TRUE
      BY <1>4, <1>10
    <2>2. RingHolds(key_queue', key_f', key_r', asserted', s)
      BY <1>3, <1>4, <1>5, <1>10, <2>1
    <2>3. Pending' = s
      BY <1>8, <2>2, RingUnique
    <2> QED
      BY <1>3, <1>5, <1>6, <1>10, <2>1, <2>3
  <1> QED
    BY <1>9, <1>10

LEMMA DequeueStep ==
    ASSUME InputTypeOK, key_dequeue
    PROVE  /\ key_f' \in Slots /\ code' \in Event \union {Nothing}
           /\ Pending # << >> /\ code' = Head(Pending) /\ Pending' = Tail(Pending)
  <1>1. /\ key_queue \in [Slots -> Event \union {Nothing}] /\ key_f \in Slots /\ key_r \in Slots
        /\ asserted = FALSE
    BY DEF InputTypeOK, key_dequeue
  <1>2. RingHolds(key_queue, key_f, key_r, FALSE, Pending)
    BY <1>1, PendingIs
  <1>3. PICK q, f, r, s : q = key_queue /\ f = key_f /\ r = key_r /\ s = Pending
    OBVIOUS
  <1>4. f # r /\ code' = q[f] /\ key_f' = After(f) /\ UNCHANGED <<key_queue, key_r, asserted>>
    BY <1>3 DEF key_dequeue
  <1>5. /\ After(f) \in Slots
        /\ s # << >> /\ Head(s) = q[f] /\ RingHolds(q, After(f), r, FALSE, Tail(s))
    BY <1>1, <1>2, <1>3, <1>4, RingGet
  <1>6. Pending' = Ring(key_queue', key_f', key_r', asserted')
    BY DEF Pending, Ring
  <1>7. RingHolds(key_queue', key_f', key_r', asserted', Pending')
    BY <1>1, <1>3, <1>4, <1>5, <1>6, RingIs
  <1>8. RingHolds(key_queue', key_f', key_r', asserted', Tail(s))
    BY <1>1, <1>3, <1>4, <1>5
  <1>9. Pending' = Tail(s)
    BY <1>7, <1>8, RingUnique
  <1> QED
    BY <1>1, <1>3, <1>4, <1>5, <1>9

LEMMA SameQueue ==
    ASSUME UNCHANGED <<key_queue, key_f, key_r, asserted>>
    PROVE  Pending' = Pending
  BY DEF Pending

-----------------------------------------------------------------------------
(* Input: the newest event of a key counts                                 *)

\* Settling for one key, with the queues as parameters.
Settled(k, h, p, c, shown, held) ==
    /\ LastSays(h, k, held)
    /\ Absent(h, k) => LastSays(p, k, held)
    /\ Absent(h, k) /\ Absent(p, k) =>
          IF c.key = k THEN c.down <=> k \in held
          ELSE \A i \in DOMAIN SdlName : SdlName[i] = KeyName[k] => (shown[i] <=> k \in held)

LEMMA SettlingIs ==
    Settling <=> (~asserted => \A k \in Codes \ dropped : Settled(k, host, Pending, code, keystates, pressed))
  BY DEF Settling, Settled

\* The key that is pressed or released: its event is the newest of all.  No
\* other key is affected.
LEMMA PressSettles ==
    ASSUME NEW h \in Seq(HostEvents), NEW e \in HostEvents, NEW p, NEW c, NEW shown,
           NEW held, NEW held2, NEW k,
           e.key = k => (e.down <=> k \in held2),
           e.key # k => /\ Settled(k, h, p, c, shown, held)
                        /\ k \in held <=> k \in held2
    PROVE  Settled(k, Append(h, e), p, c, shown, held2)
  <1>1. /\ Absent(Append(h, e), k) <=> Absent(h, k) /\ e.key # k
        /\ e.key = k => (LastSays(Append(h, e), k, held2) <=> (e.down <=> k \in held2))
        /\ e.key # k => (LastSays(Append(h, e), k, held2) <=> LastSays(h, k, held2))
    BY AppendAbsent, AppendSays
  <1>2. CASE e.key = k
    BY <1>1, <1>2 DEF Settled
  <1>3. CASE e.key # k
    <2>1. Settled(k, h, p, c, shown, held2)
      BY <1>3 DEF Settled, LastSays
    <2> QED
      BY <1>1, <1>3, <2>1 DEF Settled
  <1> QED
    BY <1>2, <1>3

\* The first event of the host's queue goes to the end of the keyboard's, or
\* is left out because keymap does not have it.
LEMMA PollSettles ==
    ASSUME NEW h \in Seq(HostEvents), h # << >>, NEW p \in Seq(Event \union {Nothing}), NEW c, NEW shown,
           NEW held, NEW k, Settled(k, h, p, c, shown, held)
    PROVE  /\ Head(h) \in Event => Settled(k, Tail(h), Append(p, Head(h)), c, shown, held)
           /\ Head(h).key # k => Settled(k, Tail(h), p, c, shown, held)
  <1>1. /\ Absent(h, k) <=> Head(h).key # k /\ Absent(Tail(h), k)
        /\ LastSays(Tail(h), k, held)
        /\ Head(h).key = k /\ Absent(Tail(h), k) => (Head(h).down <=> k \in held)
    <2>1. LastSays(h, k, held)
      BY DEF Settled
    <2> QED
      BY <2>1, TailAbsent, TailSays
  <1>2. ASSUME Head(h) \in Event PROVE Settled(k, Tail(h), Append(p, Head(h)), c, shown, held)
    <2> DEFINE E == Event \union {Nothing}
    <2>1. PICK e \in E : e = Head(h)
      BY <1>2
    <2>2. /\ Absent(Append(p, e), k) <=> Absent(p, k) /\ e.key # k
          /\ e.key = k => (LastSays(Append(p, e), k, held) <=> (e.down <=> k \in held))
          /\ e.key # k => (LastSays(Append(p, e), k, held) <=> LastSays(p, k, held))
      <3> HIDE DEF E
      <3>1. p \in Seq(E)
        BY DEF E
      <3> QED
        BY <3>1, AppendAbsent, AppendSays
    <2>3. CASE e.key = k
      BY <1>1, <2>1, <2>2, <2>3 DEF Settled
    <2>4. CASE e.key # k
      BY <1>1, <2>1, <2>2, <2>4 DEF Settled
    <2> QED
      BY <2>3, <2>4
  <1>3. Head(h).key # k => Settled(k, Tail(h), p, c, shown, held)
    BY <1>1 DEF Settled
  <1> QED
    BY <1>2, <1>3

\* The guest takes an event of the keyboard's queue.
LEMMA GetSettles ==
    ASSUME NEW h, NEW p \in Seq(Event \union {Nothing}), p # << >>, NEW c, NEW shown,
           NEW held, NEW k, c.key # k, Settled(k, h, p, c, shown, held)
    PROVE  Settled(k, h, Tail(p), Head(p), shown, held)
  <1> DEFINE E == Event \union {Nothing}
  <1>1. /\ Absent(p, k) <=> Head(p).key # k /\ Absent(Tail(p), k)
        /\ LastSays(p, k, held) =>
              /\ LastSays(Tail(p), k, held)
              /\ Head(p).key = k /\ Absent(Tail(p), k) => (Head(p).down <=> k \in held)
    <2>1. p \in Seq(E)
      OBVIOUS
    <2> HIDE DEF E
    <2> QED
      BY <2>1, TailAbsent, TailSays
  <1>2. CASE Head(p).key = k
    BY <1>1, <1>2 DEF Settled
  <1>3. CASE Head(p).key # k
    BY <1>1, <1>3 DEF Settled
  <1> QED
    BY <1>2, <1>3

\* miniSDL enters the event at the index of its key.
LEMMA ShowSettles ==
    ASSUME NEW h, NEW p, NEW c \in Event, NEW shown \in [1 .. Len(SdlName) -> BOOLEAN],
           NEW held, NEW k \in Codes, Settled(k, h, p, c, shown, held)
    PROVE  Settled(k, h, p, Nothing, [shown EXCEPT ![FirstMatch(KeyName[c.key])] = c.down], held)
  <1>1. PICK f : f = FirstMatch(KeyName[c.key])
    OBVIOUS
  <1>2. c.key \in Codes /\ c.down \in BOOLEAN
    BY DEF Event
  <1>3. /\ f \in DOMAIN SdlName /\ SdlName[f] = KeyName[c.key]
        /\ \A i \in DOMAIN SdlName : SdlName[i] = KeyName[c.key] => i = f
    BY <1>1, <1>2, NamesFound
  <1>4. \A a, b \in DOMAIN KeyName : KeyName[a] = KeyName[b] => a = b
    BY InputAssumption DEF IsInjective
  <1>5. DOMAIN KeyName = Codes /\ DOMAIN SdlName = 1 .. Len(SdlName)
    BY InputAssumption DEF Codes
  <1>6. Nothing.key # k
    BY DEF Nothing, Codes, NONE
  <1>7. PICK g : g = [shown EXCEPT ![f] = c.down]
    OBVIOUS
  <1>8. g[f] = c.down /\ \A i \in DOMAIN SdlName : i # f => g[i] = shown[i]
    BY <1>3, <1>5, <1>7
  <1>9. ASSUME Absent(h, k), Absent(p, k), NEW i \in DOMAIN SdlName, SdlName[i] = KeyName[k]
        PROVE  g[i] <=> k \in held
    <2>1. CASE c.key = k
      <3>1. i = f
        BY <1>3, <1>9, <2>1
      <3>2. c.down <=> k \in held
        BY <1>9, <2>1 DEF Settled
      <3> QED
        BY <1>8, <3>1, <3>2
    <2>2. CASE c.key # k
      <3>1. i # f
        BY <1>2, <1>3, <1>4, <1>5, <1>9, <2>2
      <3>2. shown[i] <=> k \in held
        BY <1>9, <2>2 DEF Settled
      <3> QED
        BY <1>8, <3>1, <3>2
    <2> QED
      BY <2>1, <2>2
  <1>10. Settled(k, h, p, Nothing, g, held)
    BY <1>6, <1>9 DEF Settled
  <1> QED
    BY <1>1, <1>7, <1>10

LEMMA EmptyRing ==
    ASSUME InputTypeOK, key_f = 0, key_r = 0, asserted = FALSE
    PROVE  Pending = << >>
  <1>1. RingHolds(key_queue, key_f, key_r, asserted, Pending)
    BY PendingIs
  <1>2. RingLen(0, 0, FALSE) = 0
    BY DEF RingLen
  <1> DEFINE E == Event \union {Nothing}
  <1>3. Len(Pending) = 0 /\ Pending \in Seq(E)
    BY <1>1, <1>2 DEF RingHolds
  <1> HIDE DEF E
  <1> QED
    BY <1>3, EmptySeq

\* Nothing is on its way at first, and no key is held.
LEMMA InputInitially == InputInit => InputIInv
  <1> SUFFICES ASSUME InputInit PROVE InputIInv
    OBVIOUS
  <1>1. InputTypeOK
    <2>1. 0 \in Slots
      BY InputAssumption DEF Slots
    <2>2. host \in Seq(HostEvents) /\ Len(host) <= MaxHost
      BY InputAssumption DEF InputInit
    <2> QED
      BY <2>1, <2>2 DEF InputInit, InputTypeOK, HostEvents
  <1>2. Settling
    <2>1. SUFFICES ASSUME NEW k \in Codes
                   PROVE  Settled(k, host, Pending, code, keystates, pressed)
      BY SettlingIs
    <2>2. host = << >> /\ pressed = {} /\ code = Nothing /\ \A i \in 1 .. Len(SdlName) : keystates[i] = FALSE
      BY DEF InputInit
    <2>3. Pending = << >>
      BY <1>1, EmptyRing DEF InputInit
    <2>4. Nothing.key # k
      BY DEF Nothing, Codes, NONE
    <2>5. DOMAIN SdlName = 1 .. Len(SdlName)
      BY InputAssumption
    <2>6. DOMAIN host = {} /\ DOMAIN Pending = {}
      BY <2>2, <2>3
    <2> QED
      BY <2>2, <2>4, <2>5, <2>6 DEF Settled, LastSays, Absent
  <1> QED
    BY <1>1, <1>2 DEF InputIInv

\* The user presses or releases a key.
LEMMA PressStep ==
    ASSUME InputIInv, NEW j \in Scancodes, Press(j)
    PROVE  InputIInv' /\ Pending' = Pending
  <1>0. InputTypeOK /\ Settling
    BY DEF InputIInv
  <1>1. PICK e \in HostEvents : e = [key |-> j, down |-> j \notin pressed]
    <2>1. (j \notin pressed) \in BOOLEAN
      OBVIOUS
    <2> QED
      BY <2>1, Zenon DEF HostEvents
  <1>2. e.key = j /\ (e.down <=> j \notin pressed)
    BY <1>1
  <1>3. /\ Len(host) < MaxHost /\ ~asserted /\ host' = Append(host, e)
        /\ pressed' = IF j \in pressed THEN pressed \ {j} ELSE pressed \union {j}
        /\ dropped' = dropped \ {j}
        /\ UNCHANGED <<running, updating, key_queue, key_f, key_r, asserted, code, keystates>>
    BY <1>1 DEF Press
  <1>4. Pending' = Pending
    BY <1>3, SameQueue
  <1>5. host \in Seq(HostEvents)
    BY <1>0 DEF InputTypeOK, HostEvents
  <1>6. InputTypeOK'
    <2>1. host' \in Seq(HostEvents) /\ Len(host') <= MaxHost
      <3>1. Append(host, e) \in Seq(HostEvents) /\ Len(Append(host, e)) = Len(host) + 1 /\ Len(host) \in Nat
        BY <1>5, AppendProperties
      <3> QED
        BY <1>3, <3>1, InputAssumption
    <2>2. pressed' \subseteq Scancodes /\ dropped' \subseteq Codes
      BY <1>0, <1>3 DEF InputTypeOK
    <2> QED
      BY <1>0, <1>3, <2>1, <2>2 DEF InputTypeOK, HostEvents
  <1>7. Settling'
    <2>1. ASSUME NEW k \in Codes \ dropped'
          PROVE  Settled(k, Append(host, e), Pending, code, keystates, pressed')
      <3>1. k # j => /\ Settled(k, host, Pending, code, keystates, pressed)
                     /\ k \in pressed <=> k \in pressed'
        <4>1. k # j => k \in Codes \ dropped
          BY <1>3
        <4> QED
          BY <1>0, <1>3, <4>1, SettlingIs
      <3>2. k = j => (e.down <=> k \in pressed')
        BY <1>2, <1>3
      <3> QED
        BY <1>2, <1>5, <3>1, <3>2, PressSettles
    <2> QED
      BY <1>3, <1>4, <2>1, SettlingIs DEF Settling, Settled
  <1> QED
    BY <1>4, <1>6, <1>7 DEF InputIInv

\* A command at the debugger's prompt.
LEMMA CmdStep ==
    ASSUME InputIInv, cmd_c
    PROVE  InputIInv' /\ Pending' = Pending
  <1>0. InputTypeOK /\ Settling
    BY DEF InputIInv
  <1>1. /\ ~asserted /\ host' = << >> /\ running' = TRUE
        /\ dropped' = dropped \union ({host[i].key : i \in DOMAIN host} \intersect Codes)
        /\ UNCHANGED <<pressed, updating, key_queue, key_f, key_r, asserted, code, keystates>>
    BY DEF cmd_c, sdl_clear_event_queue
  <1>2. Pending' = Pending
    BY <1>1, SameQueue
  <1>3. InputTypeOK'
    <2>1. host' \in Seq(HostEvents) /\ Len(host') <= MaxHost
      BY <1>1, InputAssumption
    <2>2. dropped' \subseteq Codes
      BY <1>0, <1>1 DEF InputTypeOK
    <2> QED
      BY <1>0, <1>1, <2>1, <2>2 DEF InputTypeOK, HostEvents
  <1>4. Settling'
    <2>1. ASSUME NEW k \in Codes \ dropped'
          PROVE  Settled(k, << >>, Pending, code, keystates, pressed)
      <3>1. k \in Codes \ dropped /\ Absent(host, k)
        BY <1>1 DEF Absent
      <3>2. Settled(k, host, Pending, code, keystates, pressed)
        BY <1>0, <1>1, <3>1, SettlingIs
      <3>3. DOMAIN << >> = {}
        OBVIOUS
      <3> QED
        BY <3>1, <3>2, <3>3 DEF Settled, LastSays
    <2> QED
      BY <1>1, <1>2, <2>1 DEF Settling, Settled
  <1> QED
    BY <1>2, <1>3, <1>4 DEF InputIInv

\* Steps that move no event.
LEMMA QuietStep ==
    ASSUME InputIInv, running' \in BOOLEAN, updating' \in BOOLEAN,
           UNCHANGED <<pressed, host, key_queue, key_f, key_r, asserted, code, keystates, dropped>>
    PROVE  InputIInv' /\ Pending' = Pending
  <1>1. Pending' = Pending
    BY SameQueue
  <1>2. InputTypeOK'
    BY DEF InputIInv, InputTypeOK
  <1>3. Settling'
    BY <1>1 DEF InputIInv, Settling
  <1> QED
    BY <1>1, <1>2, <1>3 DEF InputIInv

\* device_update takes an event of the host.
LEMMA PollStep ==
    ASSUME InputIInv, PollHost
    PROVE  /\ InputIInv'
           /\ \/ Pending' = Pending /\ asserted' = asserted
              \/ /\ \E e \in Event : Pending' = Append(Pending, e)
                 /\ Len(Pending) < KEY_QUEUE_LEN - 1 /\ asserted' = asserted
              \/ Pending' = Pending /\ Len(Pending) = KEY_QUEUE_LEN - 1 /\ asserted' = TRUE
  <1>0. InputTypeOK /\ Settling /\ ~asserted /\ asserted = FALSE
    BY DEF InputIInv, InputTypeOK, PollHost
  <1>1. PICK e : e = Head(host)
    OBVIOUS
  <1>2. /\ host # << >> /\ send_key(e) /\ host' = Tail(host)
        /\ UNCHANGED <<pressed, running, updating, key_f, code, keystates, dropped>>
    BY <1>1 DEF PollHost
  <1>3. host \in Seq(HostEvents) /\ Len(host) <= MaxHost /\ Len(host) \in Nat
    BY <1>0 DEF InputTypeOK, HostEvents
  <1>4. Tail(host) \in Seq(HostEvents) /\ Len(Tail(host)) <= MaxHost /\ Head(host) \in HostEvents
    <2>1. Tail(host) \in Seq(HostEvents) /\ Len(Tail(host)) = Len(host) - 1 /\ Head(host) \in HostEvents
      BY <1>2, <1>3, HeadTailProperties
    <2> QED
      BY <1>3, <2>1, InputAssumption
  <1>5. Pending \in Seq(Event \union {Nothing})
    BY <1>0, PendingQueue
  <1>6. ASSUME NEW k \in Codes \ dropped
        PROVE  Settled(k, host, Pending, code, keystates, pressed)
    BY <1>0, SettlingIs
  <1>7. CASE e.key \in Codes /\ key_enqueue(e)
    <2>1. e \in Event
      BY <1>1, <1>4, <1>7 DEF Event, HostEvents
    <2>2. /\ key_queue' \in [Slots -> Event \union {Nothing}] /\ key_r' \in Slots /\ asserted' \in BOOLEAN
          /\ ~asserted' => Pending' = Append(Pending, e) /\ Len(Pending) < KEY_QUEUE_LEN - 1
          /\ asserted' => Pending' = Pending /\ Len(Pending) = KEY_QUEUE_LEN - 1
      BY <1>0, <1>2, <1>7, <2>1, EnqueueStep
    <2>3. InputTypeOK'
      BY <1>0, <1>2, <1>4, <2>2 DEF InputTypeOK, HostEvents
    <2>4. ASSUME ~asserted', NEW k \in Codes \ dropped
          PROVE  Settled(k, Tail(host), Append(Pending, e), code, keystates, pressed)
      BY <1>1, <1>2, <1>3, <1>5, <1>6, <2>1, PollSettles
    <2>5. Settling'
      BY <1>2, <2>2, <2>4 DEF Settling, Settled
    <2> QED
      BY <1>0, <2>1, <2>2, <2>3, <2>5 DEF InputIInv
  <1>8. CASE e.key \notin Codes /\ UNCHANGED <<key_queue, key_r, asserted>>
    <2>1. Pending' = Pending
      BY <1>2, <1>8, SameQueue
    <2>2. InputTypeOK'
      BY <1>0, <1>2, <1>4, <1>8 DEF InputTypeOK, HostEvents
    <2>3. ASSUME NEW k \in Codes \ dropped
          PROVE  Settled(k, Tail(host), Pending, code, keystates, pressed)
      <3>1. Head(host).key # k
        BY <1>1, <1>8
      <3> QED
        BY <1>2, <1>3, <1>5, <1>6, <3>1, PollSettles
    <2>4. Settling'
      BY <1>2, <1>8, <2>1, <2>3 DEF Settling, Settled
    <2> QED
      BY <1>8, <2>1, <2>2, <2>4 DEF InputIInv
  <1> QED
    BY <1>2, <1>7, <1>8 DEF send_key

\* The guest's load takes an event out of the keyboard.
LEMMA GetStep ==
    ASSUME InputIInv, key_dequeue
    PROVE  InputIInv' /\ Pending # << >> /\ Pending' = Tail(Pending)
  <1>0. InputTypeOK /\ Settling /\ ~asserted /\ code = Nothing
    BY DEF InputIInv, key_dequeue
  <1>1. /\ key_f' \in Slots /\ code' \in Event \union {Nothing}
        /\ Pending # << >> /\ code' = Head(Pending) /\ Pending' = Tail(Pending)
    BY <1>0, DequeueStep
  <1>2. UNCHANGED <<pressed, host, running, updating, key_queue, key_r, asserted, keystates, dropped>>
    BY DEF key_dequeue
  <1>3. InputTypeOK'
    BY <1>0, <1>1, <1>2 DEF InputTypeOK
  <1>4. ASSUME NEW k \in Codes \ dropped
        PROVE  Settled(k, host, Tail(Pending), Head(Pending), keystates, pressed)
    <2>1. Settled(k, host, Pending, code, keystates, pressed)
      BY <1>0, SettlingIs
    <2>2. code.key # k
      BY <1>0 DEF Nothing, Codes, NONE
    <2>3. Pending \in Seq(Event \union {Nothing})
      BY <1>0, PendingQueue
    <2> QED
      BY <1>1, <2>1, <2>2, <2>3, GetSettles
  <1>5. Settling'
    BY <1>1, <1>2, <1>4 DEF Settling, Settled
  <1> QED
    BY <1>1, <1>3, <1>5 DEF InputIInv

\* miniSDL has the event.
LEMMA ShowStep ==
    ASSUME InputIInv, SDL_PollEvent
    PROVE  InputIInv' /\ Pending' = Pending
  <1>0. InputTypeOK /\ Settling /\ ~asserted /\ code \in Event
    BY DEF InputIInv, SDL_PollEvent, InputTypeOK
  <1>1. PICK f : f = FirstMatch(KeyName[code.key])
    OBVIOUS
  <1>2. /\ keystates' = [keystates EXCEPT ![f] = code.down] /\ code' = Nothing
        /\ UNCHANGED <<pressed, host, running, updating, key_queue, key_f, key_r, asserted, dropped>>
    BY <1>1 DEF SDL_PollEvent
  <1>3. Pending' = Pending
    BY <1>2, SameQueue
  <1>4. keystates' \in [1 .. Len(SdlName) -> BOOLEAN]
    BY <1>0, <1>2 DEF InputTypeOK, Event
  <1>5. InputTypeOK'
    BY <1>0, <1>2, <1>4 DEF InputTypeOK
  <1>6. ASSUME NEW k \in Codes \ dropped
        PROVE  Settled(k, host, Pending, Nothing, [keystates EXCEPT ![f] = code.down], pressed)
    <2>1. Settled(k, host, Pending, code, keystates, pressed)
      BY <1>0, SettlingIs
    <2>2. keystates \in [1 .. Len(SdlName) -> BOOLEAN]
      BY <1>0 DEF InputTypeOK
    <2> QED
      BY <1>0, <1>1, <2>1, <2>2, ShowSettles
  <1>7. ASSUME NEW k \in Codes \ dropped
        PROVE  Settled(k, host, Pending, code', keystates', pressed)
    BY <1>2, <1>6
  <1>8. Settling'
    BY <1>2, <1>3, <1>7 DEF Settling, Settled
  <1> QED
    BY <1>3, <1>5, <1>8 DEF InputIInv

\* Every step keeps the invariant, and does to the queue of the keyboard what
\* a queue allows.
LEMMA InputStep ==
    ASSUME InputIInv, InputNext
    PROVE  InputIInv' /\ [KF!Next]_<<Pending, asserted>>
  <1>1. ASSUME NEW k \in Scancodes, Press(k) PROVE InputIInv' /\ Pending' = Pending /\ asserted' = asserted
    BY <1>1, PressStep DEF Press
  <1>2. CASE cmd_c
    BY <1>2, CmdStep DEF cmd_c
  <1>3. CASE Stop \/ device_update \/ UpdateEnd
    <2>1. /\ running' \in BOOLEAN /\ updating' \in BOOLEAN
          /\ UNCHANGED <<pressed, host, key_queue, key_f, key_r, asserted, code, keystates, dropped>>
      BY <1>3 DEF Stop, device_update, UpdateEnd, InputIInv, InputTypeOK
    <2> QED
      BY <2>1, QuietStep
  <1>4. CASE PollHost
    <2>1. ~asserted
      BY <1>4 DEF PollHost
    <2> QED
      BY <1>4, <2>1, PollStep DEF KF!Next, KF!Put, KF!Overflow
  <1>5. CASE key_dequeue
    <2>1. asserted' = asserted
      BY <1>5 DEF key_dequeue
    <2> QED
      BY <1>5, <2>1, GetStep DEF KF!Next, KF!Get
  <1>6. CASE SDL_PollEvent
    BY <1>6, ShowStep DEF SDL_PollEvent
  <1> QED
    BY <1>1, <1>2, <1>3, <1>4, <1>5, <1>6 DEF InputNext

LEMMA InputStutters ==
    ASSUME InputIInv, UNCHANGED inputVars
    PROVE  InputIInv' /\ [KF!Next]_<<Pending, asserted>>
  <1>1. UNCHANGED <<pressed, host, running, updating, key_queue, key_f, key_r, asserted, code, keystates, dropped>>
    BY DEF inputVars
  <1>2. running' \in BOOLEAN /\ updating' \in BOOLEAN
    BY <1>1 DEF InputIInv, InputTypeOK
  <1> QED
    BY <1>1, <1>2, QuietStep

\* The invariant of a key's way through device_update, the ring of keyboard.c
\* and miniSDL's PollEvent: the newest event of a key is the one that counts.
THEOREM InputInvariance == InputSpec => []InputIInv
  <1>1. InputIInv /\ [InputNext]_inputVars => InputIInv'
    BY InputStep, InputStutters
  <1> QED
    BY <1>1, InputInitially, PTL DEF InputSpec

\* When nothing is on its way miniSDL shows as down the keys the user holds, for
\* every table of names and every length of the queues, except those keys whose
\* last event was thrown away at the debugger's prompt (KeysSettle; sdb.c:319).
THEOREM KeysAlwaysSettle == InputSpec => []KeysSettle
  <1>1. InputIInv => KeysSettle
    <2> SUFFICES ASSUME InputIInv, host = << >>, Pending = << >>, code = Nothing, ~asserted,
                        NEW k \in Codes \ dropped, NEW i \in DOMAIN SdlName, SdlName[i] = KeyName[k]
                 PROVE  keystates[i] = (k \in pressed)
      BY DEF KeysSettle
    <2>1. Settled(k, host, Pending, code, keystates, pressed)
      BY SettlingIs DEF InputIInv
    <2>2. Absent(host, k) /\ Absent(Pending, k) /\ code.key # k
      <3>1. DOMAIN << >> = {}
        OBVIOUS
      <3>2. Nothing.key # k
        BY DEF Nothing, Codes, NONE
      <3> QED
        BY <3>1, <3>2 DEF Absent
    <2>3. keystates[i] <=> k \in pressed
      BY <2>1, <2>2 DEF Settled
    <2>4. keystates[i] \in BOOLEAN
      BY InputAssumption DEF InputIInv, InputTypeOK
    <2> QED
      BY <2>3, <2>4
  <1> QED
    BY <1>1, InputInvariance, PTL

\* The ring buffer of keyboard.c implements KeyFifo with one place less than it
\* has slots, for every number of slots.
THEOREM KeyboardIsFifo == InputSpec => IsFifo
  <1>1. InputInit => KF!Init
    <2> SUFFICES ASSUME InputInit PROVE Pending = << >> /\ asserted = FALSE
      BY DEF KF!Init
    <2>1. InputTypeOK
      BY InputInitially DEF InputIInv
    <2>2. key_f = 0 /\ key_r = 0 /\ asserted = FALSE
      BY DEF InputInit
    <2> QED
      BY <2>1, <2>2, EmptyRing
  <1>2. InputIInv /\ [InputNext]_inputVars => [KF!Next]_<<Pending, asserted>>
    BY InputStep, InputStutters
  <1> QED
    BY <1>1, <1>2, InputInvariance, PTL DEF InputSpec, IsFifo, KF!Spec

-----------------------------------------------------------------------------
(* Video: for every screen, every surface and every rectangle              *)

\* A row of w pixels drawn from column X of row Y changes those pixels and no
\* others: fb_write takes the column and the row from one offset, and
\* __am_gpu_fbdraw makes the offset again.
LEMMA RowDrawn ==
    ASSUME NEW X \in Nat, NEW Y \in 0 .. Height - 1, NEW w \in Nat, X + w <= Width,
           NEW off \in Int, off = Y * Width + X, NEW old, NEW pix, NEW p \in Pixels
    PROVE  fbdraw(old, off % Width, off \div Width, w, 1, pix)[p]
             = IF p \div Width = Y /\ Between(p % Width, X, w)
               THEN pix[(p % Width) - X] ELSE old[p]
  <1> DEFINE x == off % Width
             y == off \div Width
             k == p - (y * Width + x)
             j == k \div Width
             i == k % Width
             q == p \div Width
             r == p % Width
  <1>1. Width \in Nat \ {0} /\ Height \in Nat \ {0} /\ p \in Int /\ off \in Int
    BY ScreenAssumption DEF Pixels
  <1>2. /\ x \in 0 .. Width - 1 /\ y \in Int /\ off = Width * y + x
        /\ q \in Int /\ r \in 0 .. Width - 1 /\ p = Width * q + r
    BY <1>1, DivMod
  <1>3. k = p - off /\ k \in Int
    BY <1>1, <1>2
  <1>4. j \in Int /\ i \in 0 .. Width - 1 /\ k = Width * j + i
    BY <1>1, <1>3, DivMod
  <1>5. fbdraw(old, x, y, w, 1, pix)[p]
          = IF k >= 0 /\ j < 1 /\ y + j < Height /\ i < Line(x, w) THEN pix[j * w + i] ELSE old[p]
    BY DEF fbdraw
  <1>6. CASE w = 0
    <2>1. Line(x, w) = 0
      BY <1>1, <1>2, <1>6 DEF Line
    <2>2. ~(i < Line(x, w))
      BY <1>4, <2>1
    <2>3. ~Between(r, X, w)
      BY <1>2, <1>6 DEF Between
    <2> QED
      BY <1>5, <2>2, <2>3
  <1>7. CASE w > 0
    <2>1. x = X /\ y = Y
      <3>1. X \in 0 .. Width - 1 /\ Y \in Int
        BY <1>1, <1>7
      <3>2. off = Width * Y + X
        BY <1>1
      <3> QED
        BY <1>1, <3>1, <3>2, DivModIs
    <2>2. Line(x, w) = w
      BY <1>1, <2>1 DEF Line
    <2>3. off = Width * Y + X
      BY <1>1
    <2> HIDE DEF x, y, k, j, i, q, r
    <2>4. ASSUME k >= 0, j < 1, i < w
          PROVE  j = 0 /\ q = Y /\ Between(r, X, w) /\ i = r - X
      <3>1. j >= 0
        <4>1. j < 0 => Width * j <= Width * (-1)
          BY <1>1, <1>4
        <4> QED
          BY <1>1, <1>4, <2>4, <4>1
      <3>2. j = 0 /\ k = i
        BY <1>1, <1>4, <2>4, <3>1
      <3>3. p = Width * Y + (X + i) /\ X + i \in 0 .. Width - 1 /\ Y \in Int
        BY <1>1, <1>3, <1>4, <2>3, <2>4, <3>2
      <3>4. q = Y /\ r = X + i
        BY <1>1, <3>3, DivModIs DEF q, r
      <3> QED
        BY <1>4, <2>4, <3>2, <3>4 DEF Between
    <2>5. ASSUME q = Y, Between(r, X, w)
          PROVE  k >= 0 /\ j = 0 /\ i = r - X /\ i < w
      <3>1. k = r - X /\ k \in 0 .. w - 1 /\ k \in 0 .. Width - 1
        BY <1>1, <1>2, <1>3, <2>3, <2>5 DEF Between
      <3>2. k = Width * 0 + k /\ 0 \in Int
        BY <1>1, <3>1
      <3>3. j = 0 /\ i = k
        <4>1. k \in Int /\ k \in 0 .. Width - 1 /\ Width \in Nat \ {0}
          BY <1>1, <1>3, <3>1
        <4> QED
          BY <3>2, <4>1, DivModIs, Zenon DEF i, j
      <3> QED
        BY <3>1, <3>3
    <2>6. y + 0 < Height /\ 0 * w + i = i
      BY <1>1, <1>4, <2>1
    <2>7. CASE k >= 0 /\ j < 1 /\ i < w
      <3>1. j = 0 /\ q = Y /\ Between(r, X, w) /\ i = r - X
        BY <2>4, <2>7
      <3>2. fbdraw(old, x, y, w, 1, pix)[p] = pix[i]
        BY <1>5, <2>2, <2>6, <2>7, <3>1
      <3> QED
        BY <3>1, <3>2 DEF x, y, q, r
    <2>8. CASE ~(k >= 0 /\ j < 1 /\ i < w)
      <3>1. ~(q = Y /\ Between(r, X, w))
        BY <2>5, <2>8
      <3>2. fbdraw(old, x, y, w, 1, pix)[p] = old[p]
        BY <1>5, <2>2, <2>8
      <3> QED
        BY <3>1, <3>2 DEF x, y, q, r
    <2> QED
      BY <2>7, <2>8
  <1> QED
    BY <1>6, <1>7

\* The elements a loop over h rows and w columns of a surface of sh rows and sw
\* columns stores to are those of the rectangle, and elements of the surface.
LEMMA LoopInside ==
    ASSUME surface.w \in Nat, surface.h \in Nat,
           NEW x \in Nat, NEW y \in Nat, NEW w \in Nat, NEW h \in Nat,
           x + w <= surface.w, y + h <= surface.h,
           NEW k \in Loop(x, y, w, h)
    PROVE  /\ k \in 0 .. surface.w * surface.h - 1
           /\ k % surface.w \in Int /\ k \div surface.w \in Int
           /\ Between(k % surface.w, x, w) /\ Between(k \div surface.w, y, h)
  <1> DEFINE sw == surface.w
             sh == surface.h
  <1>1. PICK i \in 0 .. h - 1, j \in 0 .. w - 1 : k = y * sw + x + i * sw + j
    BY DEF Loop
  <1> HIDE DEF sw, sh
  <1>2. /\ sw \in Nat \ {0} /\ sh \in Nat /\ i \in Nat /\ j \in Nat
        /\ y + i \in 0 .. sh - 1 /\ y + i \in Int /\ x + j \in 0 .. sw - 1
    BY <1>1 DEF sw, sh
  <1>3. k = sw * (y + i) + (x + j) /\ k \in Int
    BY <1>1, <1>2
  <1>4. k \div sw = y + i /\ k % sw = x + j
    BY <1>2, <1>3, DivModIs
  <1>5. k \in 0 .. sw * sh - 1
    <2> DEFINE r == y + i
               rest == sh - r - 1
    <2>1. r \in Nat /\ rest \in Nat /\ sh = r + 1 + rest
      BY <1>2
    <2> HIDE DEF r, rest
    <2>2. sw * sh = sw * r + sw + sw * rest /\ sw * r \in Nat /\ sw * rest \in Nat
      BY <1>2, <2>1
    <2>3. k = sw * r + (x + j)
      BY <1>3 DEF r
    <2> QED
      BY <1>2, <2>2, <2>3
  <1> QED
    BY <1>1, <1>2, <1>4, <1>5 DEF Between, sw, sh

\* What is left of a side of a rectangle is within both limits.
LEMMA FitIs ==
    ASSUME NEW x \in Nat, NEW w \in Nat, NEW limit \in Nat, x <= limit
    PROVE  Fit(x, w, limit) \in Nat /\ Fit(x, w, limit) <= w /\ x + Fit(x, w, limit) <= limit
  BY DEF Fit

LEMMA BetweenWider ==
    ASSUME NEW n, NEW a \in Nat, NEW len \in Nat, NEW wide \in Nat, len <= wide,
           n \in Int, Between(n, a, len)
    PROVE  Between(n, a, wide)
  BY DEF Between

\* What SDL_BlitSurface copies fits into source and destination.
LEMMA BlitLenIs ==
    ASSUME NEW sx \in Nat, NEW sw \in Nat, NEW slimit \in Nat, sx <= slimit,
           NEW dx \in Nat, NEW dw \in Nat, NEW dlimit \in Nat, dx <= dlimit
    PROVE  LET len == BlitLen(sx, sw, slimit, dx, dw, dlimit)
           IN  len \in Nat /\ len <= Fit(sx, sw, slimit) /\ dx + len <= dlimit
  <1>1. /\ Fit(sx, sw, slimit) \in Nat
        /\ Fit(dx, dw, dlimit) \in Nat /\ dx + Fit(dx, dw, dlimit) <= dlimit
    BY FitIs
  <1>2. CASE Fit(sx, sw, slimit) <= dlimit - dx
    BY <1>1, <1>2 DEF BlitLen
  <1>3. CASE ~(Fit(sx, sw, slimit) <= dlimit - dx)
    BY <1>1, <1>3 DEF BlitLen
  <1> QED
    BY <1>2, <1>3

-----------------------------------------------------------------------------
(* One step after the other.                                               *)

\* Init
LEMMA VideoInitially == VideoInit => VideoIInv
  <1> SUFFICES ASSUME VideoInit PROVE VideoIInv
    OBVIOUS
  <1>1. VideoTypeOK
    <2>1. 0 .. 0 * 0 - 1 = {} /\ DOMAIN << >> = {}
      OBVIOUS
    <2>2. surface = NoSurface
      BY DEF VideoInit
    <2>3. surface.w = 0 /\ surface.h = 0 /\ surface.pal = FALSE /\ surface.pixels = << >>
      BY <2>2 DEF NoSurface
    <2>4. DOMAIN surface.pixels = 0 .. surface.w * surface.h - 1
      BY <2>1, <2>3
    <2>5. surface = [w |-> surface.w, h |-> surface.h, pal |-> surface.pal,
                     pixels |-> surface.pixels]
      BY <2>2, <2>3 DEF NoSurface
    <2>6. FB_DEV \in DOMAIN open_offset
      BY DEF VideoInit, Init
    <2>7. canvas \in [x : Int, y : Int, w : Nat, h : Nat]
      BY DEF VideoInit
    <2>8. surface.w \in Nat /\ surface.h \in Nat
      BY <2>3
    <2> QED
      BY <2>3, <2>4, <2>5, <2>6, <2>7, <2>8, Zenon DEF VideoTypeOK, VideoInit
  <1>2. CanvasFits
    BY DEF CanvasFits, VideoInit, NoSurface
  <1>3. ~Drawing /\ ~failed
    BY DEF VideoInit, NoDraw, Drawing
  <1> QED
    BY <1>1, <1>2, <1>3 DEF VideoIInv, DrawingFits, RowsShown, OnlyCanvasAsserts

\* NDL_Init
LEMMA InitStep ==
    ASSUME VideoIInv, NDL_Init
    PROVE  VideoIInv'
  <1>1. ~Drawing' /\ ~failed /\ ~failed'
    BY DEF NDL_Init, NoDraw, Drawing, Idle, Running
  <1>2. VideoTypeOK'
    BY DEF VideoIInv, VideoTypeOK, NDL_Init, vars
  <1>3. CanvasFits'
    <2>1. screen.w \in {0, Width} /\ screen.h \in {0, Height}
      BY DEF VideoIInv, VideoTypeOK
    <2>2. screen'.w = Width /\ screen'.h = Height /\ Width \in Nat /\ Height \in Nat
      BY ScreenAssumption DEF NDL_Init
    <2>3. canvas \in [x : Int, y : Int, w : Nat, h : Nat]
      BY DEF VideoIInv, VideoTypeOK
    <2> QED
      BY <1>1, <2>1, <2>2, <2>3 DEF VideoIInv, CanvasFits, NDL_Init
  <1> QED
    BY <1>1, <1>2, <1>3 DEF VideoIInv, DrawingFits, RowsShown, OnlyCanvasAsserts

\* SDL_SetVideoMode: a centred canvas that begins on the screen ends on it.
LEMMA SetVideoModeStep ==
    ASSUME VideoIInv, NEW width \in Nat, NEW height \in Nat, NEW pal \in BOOLEAN,
           SDL_SetVideoMode(width, height, pal)
    PROVE  VideoIInv'
  <1> DEFINE full == width = 0 /\ height = 0
             w == IF full THEN screen.w ELSE width
             h == IF full THEN screen.h ELSE height
             c == Centre(w, h)
  <1>1. /\ screen.w \in {0, Width} /\ screen.h \in {0, Height}
        /\ Width \in Nat /\ Height \in Nat /\ failed = FALSE
    BY ScreenAssumption DEF VideoIInv, VideoTypeOK, SDL_SetVideoMode, Idle, Running
  <1>2. w \in Nat /\ h \in Nat
    BY <1>1
  <1>3. /\ draw' = NoDraw /\ canvas' = c /\ UNCHANGED <<vars, screen, overrun>>
        /\ \/ (c.x < 0 \/ c.y < 0) /\ failed' = TRUE /\ UNCHANGED <<surface, palette>>
           \/ c.x >= 0 /\ c.y >= 0 /\ SDL_CreateRGBSurface(w, h, pal) /\ UNCHANGED failed
    BY DEF SDL_SetVideoMode
  <1> HIDE DEF w, h
  <1>4. /\ c.w = w /\ c.h = h /\ c.x = (screen.w - w) \div 2 /\ c.y = (screen.h - h) \div 2
        /\ c \in [x : Int, y : Int, w : Nat, h : Nat]
    BY <1>1, <1>2 DEF Centre
  <1> HIDE DEF c
  <1>5. ~Drawing'
    BY <1>3 DEF NoDraw, Drawing
  <1>6. /\ FB_DEV \in DOMAIN open_offset'
        /\ screen' \in {[w |-> 0, h |-> 0], [w |-> Width, h |-> Height]}
        /\ canvas' \in [x : Int, y : Int, w : Nat, h : Nat] /\ overrun' \in BOOLEAN
    BY <1>3, <1>4 DEF VideoIInv, VideoTypeOK, vars
  <1>7. CASE (c.x < 0 \/ c.y < 0) /\ failed' = TRUE /\ UNCHANGED <<surface, palette>>
    <2>1. VideoTypeOK'
      BY <1>6, <1>7 DEF VideoIInv, VideoTypeOK
    <2>2. CanvasFits' /\ OnlyCanvasAsserts'
      BY <1>3, <1>7 DEF CanvasFits, OnlyCanvasAsserts
    <2> QED
      BY <1>5, <2>1, <2>2 DEF VideoIInv, DrawingFits, RowsShown
  <1>8. CASE c.x >= 0 /\ c.y >= 0 /\ SDL_CreateRGBSurface(w, h, pal) /\ UNCHANGED failed
    <2>1. c.x + w <= screen.w /\ c.y + h <= screen.h
      BY <1>1, <1>2, <1>4, <1>8
    <2>2. w <= Width /\ h <= Height
      BY <1>1, <1>2, <1>4, <1>8, <2>1
    <2>3. w * h \in 0 .. Width * Height
      <3>1. w * h <= Width * h /\ Width * h <= Width * Height
        BY <1>1, <1>2, <2>2
      <3>2. w * h \in Nat /\ Width * h \in Nat /\ Width * Height \in Nat
        BY <1>1, <1>2
      <3> QED
        BY <3>1, <3>2
    <2>4. PICK pixels \in Garbage(w * h) :
              surface' = [w |-> w, h |-> h, pal |-> pal, pixels |-> pixels]
      BY <1>8 DEF SDL_CreateRGBSurface
    <2>5. DOMAIN pixels = 0 .. w * h - 1
      BY <2>3, VideoAssumption
    <2>6. VideoTypeOK'
      BY <1>1, <1>2, <1>6, <1>8, <2>4, <2>5 DEF VideoTypeOK
    <2>7. CanvasFits'
      BY <1>1, <1>3, <1>4, <1>8, <2>1, <2>4 DEF CanvasFits
    <2> QED
      BY <1>1, <1>5, <1>8, <2>6, <2>7 DEF VideoIInv, DrawingFits, RowsShown, OnlyCanvasAsserts
  <1> QED
    BY <1>3, <1>7, <1>8

\* NDL_DrawRect begins to draw a rectangle of the surface.
LEMMA DrawRectStep ==
    ASSUME VideoIInv, Idle, NEW pix, NEW x \in Nat, NEW y \in Nat, NEW w \in Nat, NEW h \in Nat,
           x + w <= surface.w, y + h <= surface.h,
           NDL_DrawRect(pix, x, y, w, h), UNCHANGED <<screen, canvas, surface, failed, overrun>>,
           \A j \in 0 .. h - 1, k \in 0 .. w - 1 : pix[j * w + k] = Colour(x + k, y + j)'
    PROVE  VideoIInv'
  <1>1. failed = FALSE /\ failed' = FALSE
    BY DEF VideoIInv, VideoTypeOK, Idle, Running
  <1>2. draw' = [step |-> "seek", i |-> 0, pix |-> pix, x |-> x, y |-> y, w |-> w, h |-> h,
                 before |-> fb]
    BY DEF NDL_DrawRect
  <1>3. FB_DEV \in DOMAIN open_offset' /\ fb' = fb
    <2>1. FB_DEV \in Table /\ ~(FB_DEV < FB_DEV)
      BY DEF Table, FB_DEV, FD_STDIN
    <2>2. SetOffset(FB_DEV, 0) /\ fb' = fb
      BY <2>1 DEF NDL_DrawRect, fs_open
    <2> QED
      BY <2>2 DEF SetOffset, VideoIInv, VideoTypeOK
  <1>4. VideoTypeOK' /\ CanvasFits' /\ OnlyCanvasAsserts'
    <2>1. VideoTypeOK'
      BY <1>3 DEF VideoIInv, VideoTypeOK
    <2>2. CanvasFits'
      BY DEF VideoIInv, CanvasFits
    <2> QED
      BY <1>1, <2>1, <2>2 DEF OnlyCanvasAsserts
  <1>5. x + w <= canvas'.w /\ y + h <= canvas'.h
    BY <1>1 DEF VideoIInv, CanvasFits
  <1>6. DrawingFits'
    BY <1>1, <1>2, <1>5 DEF DrawingFits
  <1>7. PictureRight'
    BY <1>2 DEF PictureRight
  <1>8. ShownUpTo(draw.i)'
    <2>1. ASSUME NEW n, n \in Int PROVE ~Between(n, y, 0)
      BY <2>1 DEF Between
    <2>2. ASSUME NEW p \in Pixels
          PROVE  ~Between(p \div Width - canvas'.y, y, 0) /\ fb'[p] = draw'.before[p]
      <3>1. p \div Width - canvas'.y \in Int
        <4>1. p \in Int /\ Width \in Nat \ {0} /\ canvas'.y \in Int
          BY ScreenAssumption DEF Pixels, VideoIInv, VideoTypeOK
        <4> QED
          BY <4>1
      <3> QED
        BY <1>2, <1>3, <2>1, <3>1
    <2>3. draw'.y = y /\ draw'.i = 0
      BY <1>2
    <2> QED
      BY <2>2, <2>3 DEF ShownUpTo
  <1> QED
    BY <1>4, <1>6, <1>7, <1>8 DEF VideoIInv, RowsShown

\* The picture made for a rectangle has its colours, row by row.
LEMMA PictureIs ==
    ASSUME VideoTypeOK, NEW x \in Nat, NEW y \in Nat, NEW w \in Nat, NEW h \in Nat,
           surface.pal \/ (x = 0 /\ y = 0 /\ w = surface.w),
           NEW j \in 0 .. h - 1, NEW k \in 0 .. w - 1
    PROVE  Picture(x, y, w, h)[j * w + k] = Colour(x + k, y + j)
  <1> DEFINE sw == surface.w
             n == j * w + k
  <1>1. sw \in Nat /\ surface.pal \in BOOLEAN
    BY DEF VideoTypeOK
  <1>2. CASE surface.pal
    <2>1. w \in Nat \ {0} /\ h \in Nat \ {0}
      OBVIOUS
    <2>2. n \in 0 .. h * w - 1
      BY <2>1, Below
    <2>3. h * w = w * h
      OBVIOUS
    <2>4. n \div w = j /\ n % w = k
      <3>1. n = w * j + k /\ n \in Int /\ j \in Int
        OBVIOUS
      <3> HIDE DEF n
      <3> QED
        BY <2>1, <3>1, DivModIs
    <2> HIDE DEF sw, n
    <2>5. Picture(x, y, w, h)[n] = palette[surface.pixels[y * sw + x + j * sw + k]]
      BY <1>2, <2>2, <2>3, <2>4 DEF Picture, sw
    <2>6. y * sw + x + j * sw + k = (y + j) * sw + (x + k)
      BY <1>1
    <2> QED
      BY <1>2, <2>5, <2>6 DEF Colour, sw, n
  <1>3. CASE ~surface.pal
    <2>1. Picture(x, y, w, h) = surface.pixels /\ x = 0 /\ y = 0 /\ w = sw
      BY <1>3 DEF Picture
    <2>2. (y + j) * sw + (x + k) = j * w + k
      BY <2>1
    <2> QED
      BY <1>3, <2>1, <2>2 DEF Colour
  <1> QED
    BY <1>2, <1>3

\* SDL_UpdateRect
LEMMA UpdateRectStep ==
    ASSUME VideoIInv, NEW x \in Nat, NEW y \in Nat, NEW w \in Nat, NEW h \in Nat,
           SDL_UpdateRect(x, y, w, h)
    PROVE  VideoIInv'
  <1> DEFINE all == w = 0 /\ h = 0
             w1 == IF all THEN surface.w ELSE w
             h1 == IF all THEN surface.h ELSE h
  <1>1. VideoTypeOK /\ surface.w \in Nat /\ surface.h \in Nat
    BY DEF VideoIInv, VideoTypeOK
  <1>2. Idle /\ UpdateCall(x, y, w, h) /\ UNCHANGED <<screen, canvas, surface, palette, failed, overrun>>
    BY DEF SDL_UpdateRect
  <1>3. /\ w1 \in Nat /\ h1 \in Nat /\ x + w1 <= surface.w /\ y + h1 <= surface.h
        /\ surface.pal \/ (x = 0 /\ y = 0 /\ w1 = surface.w)
    <2>1. CASE all
      BY <1>1, <1>2, <2>1 DEF UpdateCall
    <2>2. CASE ~all
      BY <1>1, <1>2, <2>2 DEF UpdateCall
    <2> QED
      BY <2>1, <2>2
  <1>4. NDL_DrawRect(Picture(x, y, w1, h1), x, y, w1, h1)
    BY DEF SDL_UpdateRect, Show
  <1> HIDE DEF all, w1, h1
  <1>5. \A j \in 0 .. h1 - 1, k \in 0 .. w1 - 1 :
            Picture(x, y, w1, h1)[j * w1 + k] = Colour(x + k, y + j)
    BY <1>1, <1>3, PictureIs
  <1>6. \A a, b : Colour(a, b)' = Colour(a, b)
    BY <1>2 DEF Colour
  <1>7. \A j \in 0 .. h1 - 1, k \in 0 .. w1 - 1 :
            Picture(x, y, w1, h1)[j * w1 + k] = Colour(x + k, y + j)'
    BY <1>5, <1>6, Zenon
  <1> QED
    BY <1>2, <1>3, <1>4, <1>7, DrawRectStep

\* SDL_SetPalette
LEMMA SetPaletteStep ==
    ASSUME VideoIInv, NEW colors \in [Byte -> Byte], SDL_SetPalette(colors)
    PROVE  VideoIInv'
  <1> DEFINE sw == surface.w
             sh == surface.h
             pix == [k \in 0 .. sw * sh - 1 |-> colors[surface.pixels[k]]]
  <1>1. sw \in Nat /\ sh \in Nat
    BY DEF VideoIInv, VideoTypeOK
  <1>2. /\ Idle /\ surface.pal /\ palette' = colors
        /\ NDL_DrawRect(pix, 0, 0, sw, sh)
        /\ UNCHANGED <<screen, canvas, surface, failed, overrun>>
    BY DEF SDL_SetPalette
  <1>3. ASSUME NEW j \in 0 .. sh - 1, NEW k \in 0 .. sw - 1
        PROVE  pix[j * sw + k] = Colour(0 + k, 0 + j)'
    <2>1. sw \in Nat \ {0} /\ sh \in Nat \ {0}
      BY <1>1
    <2>2. j * sw + k \in 0 .. sh * sw - 1
      BY <2>1, Below
    <2>3. j * sw + k \in 0 .. sw * sh - 1
      <3>1. sh * sw = sw * sh
        BY <1>1
      <3> QED
        BY <2>2, <3>1
    <2>4. pix[j * sw + k] = colors[surface.pixels[j * sw + k]]
      BY <2>3
    <2>5. 0 + k = k /\ 0 + j = j
      OBVIOUS
    <2>6. Colour(k, j)' = colors[surface.pixels[j * sw + k]]
      BY <1>2 DEF Colour
    <2> QED
      BY <2>4, <2>5, <2>6
  <1>4. 0 \in Nat /\ 0 + sw <= surface.w /\ 0 + sh <= surface.h
    BY <1>1
  <1> HIDE DEF pix, sw, sh
  <1> QED
    BY <1>1, <1>2, <1>3, <1>4, DrawRectStep

\* SDL_FillRect and SDL_BlitSurface change only pixels of the surface.
LEMMA PixelsStep ==
    ASSUME VideoIInv, Idle, NEW pixels, DOMAIN pixels = DOMAIN surface.pixels,
           surface' = [surface EXCEPT !.pixels = pixels],
           overrun' \in BOOLEAN, draw' = NoDraw,
           UNCHANGED <<vars, screen, canvas, palette, failed>>
    PROVE  VideoIInv'
  <1>1. failed = FALSE /\ failed' = FALSE /\ ~Drawing'
    BY DEF VideoIInv, VideoTypeOK, Idle, Running, NoDraw, Drawing
  <1>2. surface' = [w |-> surface.w, h |-> surface.h, pal |-> surface.pal, pixels |-> pixels]
    BY DEF VideoIInv, VideoTypeOK
  <1>3. VideoTypeOK'
    BY <1>2 DEF VideoIInv, VideoTypeOK, vars
  <1>4. CanvasFits'
    BY <1>2 DEF VideoIInv, CanvasFits
  <1> QED
    BY <1>1, <1>3, <1>4 DEF VideoIInv, DrawingFits, RowsShown, OnlyCanvasAsserts

\* The row that is drawn next lies on the screen.
LEMMA RowOnScreen ==
    ASSUME VideoIInv, Drawing, draw.i < draw.h
    PROVE  LET X == draw.x + canvas.x
               Y == draw.y + canvas.y + draw.i
           IN  /\ screen.w = Width /\ X \in Nat /\ X + draw.w <= Width
               /\ Y \in 0 .. Height - 1 /\ RowOffset = Y * Width + X
               /\ RowOffset \in Nat /\ RowOffset + draw.w <= Height * Width
               /\ RowLen = draw.w /\ RowsLeft
  <1> DEFINE X == draw.x + canvas.x
             Y == draw.y + canvas.y + draw.i
  <1>1. /\ draw.x \in Nat /\ draw.y \in Nat /\ draw.w \in Nat /\ draw.h \in Nat
        /\ draw.x + draw.w <= canvas.w /\ draw.y + draw.h <= canvas.h /\ draw.i \in Nat
        /\ ~failed
    BY DEF VideoIInv, DrawingFits
  <1>2. /\ canvas.x >= 0 /\ canvas.x + canvas.w <= screen.w
        /\ canvas.y >= 0 /\ canvas.y + canvas.h <= screen.h
    BY <1>1 DEF VideoIInv, CanvasFits
  <1>3. canvas.x \in Int /\ canvas.y \in Int /\ canvas.w \in Nat /\ canvas.h \in Nat
    BY DEF VideoIInv, VideoTypeOK
  <1>4. (screen.w = 0 /\ screen.h = 0) \/ (screen.w = Width /\ screen.h = Height)
    BY DEF VideoIInv, VideoTypeOK
  <1>5. Width \in Nat \ {0} /\ Height \in Nat \ {0}
    BY ScreenAssumption
  <1>6. screen.w = Width /\ screen.h = Height
    BY <1>1, <1>2, <1>3, <1>4, <1>5
  <1>7. X \in Nat /\ X + draw.w <= Width /\ Y \in 0 .. Height - 1
    BY <1>1, <1>2, <1>3, <1>5, <1>6
  <1>8. RowLen = draw.w /\ RowsLeft
    BY <1>1, <1>3 DEF RowLen, RowsLeft
  <1>9. RowOffset = Y * Width + X
    BY <1>6 DEF RowOffset
  <1>10. RowOffset \in Nat /\ RowOffset + draw.w <= Height * Width
    <2> HIDE DEF X, Y
    <2>1. Y * Width \in Nat /\ (Y + 1) * Width <= Height * Width
      BY <1>5, <1>7
    <2>2. Y * Width + Width <= Height * Width
      BY <1>5, <1>7, <2>1
    <2> QED
      BY <1>1, <1>5, <1>7, <1>9, <2>1, <2>2
  <1> QED
    BY <1>6, <1>7, <1>8, <1>9, <1>10

\* DrawSeek
LEMMA SeekStep ==
    ASSUME VideoIInv, DrawSeek
    PROVE  VideoIInv'
  <1>1. Drawing /\ draw.step = "seek" /\ RowsLeft
    BY DEF DrawSeek, Drawing
  <1>2. /\ draw = [step |-> draw.step, i |-> draw.i, pix |-> draw.pix, x |-> draw.x,
                   y |-> draw.y, w |-> draw.w, h |-> draw.h, before |-> draw.before]
        /\ failed = FALSE
    BY <1>1 DEF VideoIInv, DrawingFits, VideoTypeOK
  <1>3. draw' = [step |-> "write", i |-> draw.i, pix |-> draw.pix, x |-> draw.x,
                 y |-> draw.y, w |-> draw.w, h |-> draw.h, before |-> draw.before]
    BY <1>2 DEF DrawSeek
  <1>4. UNCHANGED <<screen, canvas, surface, palette, overrun>>
    BY DEF DrawSeek
  <1>5. draw.i < draw.h
    BY <1>1 DEF RowsLeft
  <1>6. /\ open_offset' = [open_offset EXCEPT ![FB_DEV] = RowOffset * 4]
        /\ ret' = RowOffset * 4 /\ fb' = fb
    BY DEF DrawSeek, fs_lseek, SeekTo, SetOffset, Return, FB_DEV
  <1>7. failed' = FALSE
    BY <1>6 DEF DrawSeek
  <1>8. VideoTypeOK'
    BY <1>4, <1>6, <1>7 DEF VideoIInv, VideoTypeOK
  <1>9. CanvasFits' /\ OnlyCanvasAsserts'
    BY <1>2, <1>4, <1>7 DEF VideoIInv, CanvasFits, OnlyCanvasAsserts
  <1>10. DrawingFits'
    <2>1. open_offset'[FB_DEV] = RowOffset * 4
      BY <1>6 DEF VideoIInv, VideoTypeOK
    <2>2. RowOffset' = RowOffset
      BY <1>3, <1>4 DEF RowOffset
    <2>3. /\ draw.x \in Nat /\ draw.y \in Nat /\ draw.w \in Nat /\ draw.h \in Nat
          /\ draw.x + draw.w <= canvas.w /\ draw.y + draw.h <= canvas.h
          /\ draw.i \in 0 .. draw.h
      BY <1>1 DEF VideoIInv, DrawingFits
    <2> QED
      BY <1>3, <1>4, <1>5, <1>7, <2>1, <2>2, <2>3 DEF DrawingFits
  <1>11. PictureRight' /\ ShownUpTo(draw.i)'
    <2>1. PictureRight /\ ShownUpTo(draw.i)
      BY <1>1 DEF VideoIInv, RowsShown
    <2>2. \A a, b : Colour(a, b)' = Colour(a, b)
      BY <1>4 DEF Colour
    <2>3. /\ draw'.x = draw.x /\ draw'.y = draw.y /\ draw'.w = draw.w /\ draw'.h = draw.h
          /\ draw'.i = draw.i /\ draw'.pix = draw.pix /\ draw'.before = draw.before
      BY <1>3
    <2>4. PictureRight'
      BY <2>1, <2>2, <2>3, Zenon DEF PictureRight
    <2>5. ShownUpTo(draw.i)'
      BY <1>4, <1>6, <2>1, <2>2, <2>3, Zenon DEF ShownUpTo
    <2> QED
      BY <2>4, <2>5
  <1> QED
    BY <1>8, <1>9, <1>10, <1>11 DEF VideoIInv, RowsShown

\* What DrawWrite does to the screen.
LEMMA RowWritten ==
    ASSUME VideoIInv, DrawWrite
    PROVE  /\ ret' = RowLen * 4 /\ FB_DEV \in DOMAIN open_offset'
           /\ \A p \in Pixels :
                 fb'[p] = IF /\ p \div Width = draw.y + canvas.y + draw.i
                             /\ Between(p % Width, draw.x + canvas.x, draw.w)
                          THEN draw.pix[draw.i * draw.w + ((p % Width) - (draw.x + canvas.x))]
                          ELSE fb[p]
  <1> DEFINE X == draw.x + canvas.x
             Y == draw.y + canvas.y + draw.i
             n == draw.w
             buf == [b \in 0 .. RowLen * 4 - 1 |-> draw.pix[draw.i * draw.w + b \div 4]]
             row == [i \in 0 .. n - 1 |-> buf[4 * i]]
  <1>1. Drawing /\ draw.step = "write"
    BY DEF DrawWrite, Drawing
  <1>2. /\ draw.i < draw.h /\ open_offset[FB_DEV] = RowOffset * 4
        /\ n \in Nat /\ draw.i \in Nat /\ draw.x \in Nat
    BY <1>1 DEF VideoIInv, DrawingFits
  <1>3. /\ X \in Nat /\ X + n <= Width
        /\ Y \in 0 .. Height - 1 /\ RowOffset = Y * Width + X
        /\ RowOffset \in Nat /\ RowOffset + n <= Height * Width
        /\ RowLen = n
    BY <1>1, <1>2, RowOnScreen
  <1>4. FB_DEV \in DOMAIN open_offset
    BY DEF VideoIInv, VideoTypeOK
  <1>5. SizeOf(FB_DEV) = Height * Width * 4 /\ Height * Width \in Nat
    BY ScreenAssumption DEF SizeOf, FbSize
  <1> HIDE DEF X, Y, n
  <1>6. open_offset[FB_DEV] <= SizeOf(FB_DEV) /\ Clip(FB_DEV, n * 4) = n * 4
    BY <1>2, <1>3, <1>5 DEF Clip
  <1>7. /\ fb_write(buf, RowOffset * 4, n * 4)
        /\ SetOffset(FB_DEV, OffsetAfterWrite(FB_DEV, n * 4)) /\ Return(n * 4)
    <2>1. fs_write(FB_DEV, buf, n * 4)
      BY <1>3 DEF DrawWrite
    <2> HIDE DEF buf
    <2>2. ~(FB_DEV < FB_DEV)
      BY DEF FB_DEV
    <2>3. ~(open_offset[FB_DEV] > SizeOf(FB_DEV))
      BY <1>2, <1>3, <1>5, <1>6
    <2> QED
      BY <1>2, <1>6, <2>1, <2>2, <2>3 DEF fs_write
  <1>8. ret' = RowLen * 4 /\ FB_DEV \in DOMAIN open_offset'
    BY <1>3, <1>4, <1>7 DEF Return, SetOffset
  <1>9. fb' = fbdraw(fb, RowOffset % Width, RowOffset \div Width, n, 1, row)
    <2>1. (RowOffset * 4) \div 4 = RowOffset /\ (n * 4) \div 4 = n
      BY <1>2, <1>3
    <2> HIDE DEF buf
    <2> QED
      BY <1>7, <2>1 DEF fb_write
  <1>10. ASSUME NEW i \in 0 .. n - 1
         PROVE  row[i] = draw.pix[draw.i * draw.w + i]
    <2>1. 4 * i \in 0 .. RowLen * 4 - 1 /\ (4 * i) \div 4 = i
      BY <1>2, <1>3
    <2> QED
      BY <2>1
  <1>11. ASSUME NEW p \in Pixels
         PROVE  fb'[p] = IF p \div Width = Y /\ Between(p % Width, X, n)
                         THEN draw.pix[draw.i * draw.w + ((p % Width) - X)] ELSE fb[p]
    <2> HIDE DEF row
    <2>1. fb'[p] = IF p \div Width = Y /\ Between(p % Width, X, n)
                   THEN row[(p % Width) - X] ELSE fb[p]
      <3>1. /\ n \in Nat /\ X \in Nat /\ Y \in 0 .. Height - 1 /\ X + n <= Width
            /\ RowOffset \in Int /\ RowOffset = Y * Width + X
        BY <1>2, <1>3
      <3>2. fbdraw(fb, RowOffset % Width, RowOffset \div Width, n, 1, row)[p]
              = IF p \div Width = Y /\ Between(p % Width, X, n)
                THEN row[(p % Width) - X] ELSE fb[p]
        BY <3>1, RowDrawn
      <3> QED
        BY <1>9, <3>2, Zenon
    <2>2. Between(p % Width, X, n) => (p % Width) - X \in 0 .. n - 1
      <3>1. p % Width \in Int
        <4>1. p \in Int /\ Width \in Nat \ {0}
          BY ScreenAssumption DEF Pixels
        <4> QED
          BY <4>1, DivMod
      <3> QED
        BY <1>2, <1>3, <3>1 DEF Between
    <2> QED
      BY <1>10, <2>1, <2>2
  <1> QED
    BY <1>8, <1>11 DEF X, Y, n

\* DrawWrite
LEMMA WriteRowStep ==
    ASSUME VideoIInv, DrawWrite
    PROVE  VideoIInv'
  <1>1. Drawing /\ draw.step = "write"
    BY DEF DrawWrite, Drawing
  <1>2. /\ draw = [step |-> draw.step, i |-> draw.i, pix |-> draw.pix, x |-> draw.x,
                   y |-> draw.y, w |-> draw.w, h |-> draw.h, before |-> draw.before]
        /\ failed = FALSE
    BY <1>1 DEF VideoIInv, DrawingFits, VideoTypeOK
  <1>3. draw' = [step |-> "seek", i |-> draw.i + 1, pix |-> draw.pix, x |-> draw.x,
                 y |-> draw.y, w |-> draw.w, h |-> draw.h, before |-> draw.before]
    BY <1>2 DEF DrawWrite
  <1>4. UNCHANGED <<screen, canvas, surface, palette, overrun>>
    BY DEF DrawWrite
  <1>5. /\ draw.x \in Nat /\ draw.y \in Nat /\ draw.w \in Nat /\ draw.h \in Nat
        /\ draw.x + draw.w <= canvas.w /\ draw.y + draw.h <= canvas.h
        /\ draw.i \in Nat /\ draw.i < draw.h
    BY <1>1 DEF VideoIInv, DrawingFits
  <1>6. failed' = FALSE
    BY RowWritten DEF DrawWrite
  <1>7. VideoTypeOK'
    BY <1>4, <1>6, RowWritten DEF VideoIInv, VideoTypeOK
  <1>8. CanvasFits' /\ OnlyCanvasAsserts'
    BY <1>2, <1>4, <1>6 DEF VideoIInv, CanvasFits, OnlyCanvasAsserts
  <1>9. DrawingFits'
    BY <1>3, <1>4, <1>5, <1>6 DEF DrawingFits
  <1>10. PictureRight /\ ShownUpTo(draw.i)
    BY <1>1 DEF VideoIInv, RowsShown
  <1>11. \A a, b : Colour(a, b)' = Colour(a, b)
    BY <1>4 DEF Colour
  <1>12. /\ draw'.x = draw.x /\ draw'.y = draw.y /\ draw'.w = draw.w /\ draw'.h = draw.h
         /\ draw'.i = draw.i + 1 /\ draw'.pix = draw.pix /\ draw'.before = draw.before
    BY <1>3
  <1>13. PictureRight'
    BY <1>10, <1>11, <1>12, Zenon DEF PictureRight
  <1>14. ShownUpTo(draw.i)'
    <2> SUFFICES ASSUME NEW p \in Pixels
                 PROVE  LET x == (p % Width) - canvas.x
                            y == p \div Width - canvas.y
                        IN  fb'[p] = IF /\ Between(x, draw.x, draw.w)
                                        /\ Between(y, draw.y, draw.i + 1)
                                     THEN Colour(x, y) ELSE draw.before[p]
      BY <1>4, <1>11, <1>12, Zenon DEF ShownUpTo
    <2> DEFINE x == (p % Width) - canvas.x
               y == p \div Width - canvas.y
               X == draw.x + canvas.x
               Y == draw.y + canvas.y + draw.i
    <2>1. p % Width \in Int /\ p \div Width \in Int /\ canvas.x \in Int /\ canvas.y \in Int
      <3>1. p \in Int /\ Width \in Nat \ {0} /\ canvas.x \in Int /\ canvas.y \in Int
        BY ScreenAssumption DEF Pixels, VideoIInv, VideoTypeOK
      <3> QED
        BY <3>1, DivMod
    <2>2. fb'[p] = IF p \div Width = Y /\ Between(p % Width, X, draw.w)
                   THEN draw.pix[draw.i * draw.w + ((p % Width) - X)] ELSE fb[p]
      BY RowWritten
    <2>3. fb[p] = IF Between(x, draw.x, draw.w) /\ Between(y, draw.y, draw.i)
                  THEN Colour(x, y) ELSE draw.before[p]
      BY <1>10, Zenon DEF ShownUpTo
    <2>4. /\ Between(p % Width, X, draw.w) <=> Between(x, draw.x, draw.w)
          /\ p \div Width = Y <=> y = draw.y + draw.i
          /\ (p % Width) - X = x - draw.x
      BY <1>5, <2>1 DEF Between
    <2>5. /\ Between(y, draw.y, draw.i + 1) <=> Between(y, draw.y, draw.i) \/ y = draw.y + draw.i
          /\ ~(Between(y, draw.y, draw.i) /\ y = draw.y + draw.i)
      BY <1>5, <2>1 DEF Between
    <2>6. ASSUME Between(x, draw.x, draw.w), y = draw.y + draw.i
          PROVE  draw.pix[draw.i * draw.w + (x - draw.x)] = Colour(x, y)
      <3>1. draw.i \in 0 .. draw.h - 1 /\ x - draw.x \in 0 .. draw.w - 1
        BY <1>5, <2>1, <2>6 DEF Between
      <3>2. draw.x + (x - draw.x) = x
        BY <1>5, <2>1
      <3>3. draw.pix[draw.i * draw.w + (x - draw.x)]
              = Colour(draw.x + (x - draw.x), draw.y + draw.i)
        BY <1>10, <3>1, Zenon DEF PictureRight
      <3> QED
        BY <2>6, <3>2, <3>3, Zenon
    <2> HIDE DEF x, y, X, Y
    <2>7. fb'[p] = IF Between(x, draw.x, draw.w) /\ Between(y, draw.y, draw.i + 1)
                   THEN Colour(x, y) ELSE draw.before[p]
      <3>1. CASE Between(x, draw.x, draw.w) /\ y = draw.y + draw.i
        BY <2>2, <2>4, <2>5, <2>6, <3>1, Zenon
      <3>2. CASE ~(Between(x, draw.x, draw.w) /\ y = draw.y + draw.i)
        BY <2>2, <2>3, <2>4, <2>5, <3>2, Zenon
      <3> QED
        BY <3>1, <3>2
    <2> QED
      BY <2>7 DEF x, y
  <1> QED
    BY <1>7, <1>8, <1>9, <1>13, <1>14 DEF VideoIInv, RowsShown

\* DrawEnd
LEMMA EndStep ==
    ASSUME VideoIInv, DrawEnd
    PROVE  VideoIInv'
  <1>1. Drawing /\ draw.step = "seek" /\ ~RowsLeft
    BY DEF DrawEnd, Drawing
  <1>2. /\ draw = [step |-> draw.step, i |-> draw.i, pix |-> draw.pix, x |-> draw.x,
                   y |-> draw.y, w |-> draw.w, h |-> draw.h, before |-> draw.before]
        /\ failed = FALSE
    BY <1>1 DEF VideoIInv, DrawingFits, VideoTypeOK
  <1>3. draw' = [step |-> "done", i |-> draw.i, pix |-> draw.pix, x |-> draw.x,
                 y |-> draw.y, w |-> draw.w, h |-> draw.h, before |-> draw.before]
    BY <1>2 DEF DrawEnd
  <1>4. UNCHANGED <<vars, screen, canvas, surface, palette, failed, overrun>>
    BY DEF DrawEnd
  <1>5. /\ draw.x \in Nat /\ draw.y \in Nat /\ draw.w \in Nat /\ draw.h \in Nat
        /\ draw.x + draw.w <= canvas.w /\ draw.y + draw.h <= canvas.h
        /\ draw.i \in 0 .. draw.h
    BY <1>1 DEF VideoIInv, DrawingFits
  <1>6. draw.i = draw.h
    BY <1>1, <1>5, RowOnScreen
  <1>7. VideoTypeOK'
    BY <1>4 DEF VideoIInv, VideoTypeOK, vars
  <1>8. CanvasFits' /\ OnlyCanvasAsserts'
    BY <1>2, <1>4 DEF VideoIInv, CanvasFits, OnlyCanvasAsserts
  <1>9. DrawingFits'
    BY <1>2, <1>3, <1>4, <1>5, <1>6 DEF DrawingFits
  <1>10. PictureRight' /\ ShownUpTo(draw.i)'
    <2>1. PictureRight /\ ShownUpTo(draw.i)
      BY <1>1 DEF VideoIInv, RowsShown
    <2>2. \A a, b : Colour(a, b)' = Colour(a, b)
      BY <1>4 DEF Colour
    <2>3. /\ draw'.x = draw.x /\ draw'.y = draw.y /\ draw'.w = draw.w /\ draw'.h = draw.h
          /\ draw'.i = draw.i /\ draw'.pix = draw.pix /\ draw'.before = draw.before
      BY <1>3
    <2>4. fb' = fb
      BY <1>4 DEF vars
    <2>5. PictureRight'
      BY <2>1, <2>2, <2>3, Zenon DEF PictureRight
    <2>6. ShownUpTo(draw.i)'
      BY <1>4, <2>1, <2>2, <2>3, <2>4, Zenon DEF ShownUpTo
    <2> QED
      BY <2>5, <2>6
  <1> QED
    BY <1>7, <1>8, <1>9, <1>10 DEF VideoIInv, RowsShown

\* Every step keeps the picture right.
LEMMA VideoStep ==
    ASSUME VideoIInv, [VideoNext]_vvars
    PROVE  VideoIInv'
  <1>1. CASE NDL_Init
    BY <1>1, InitStep
  <1>2. ASSUME NEW m \in Modes, NEW pal \in BOOLEAN, SDL_SetVideoMode(m[1], m[2], pal)
        PROVE  VideoIInv'
    <2>1. m[1] \in Nat /\ m[2] \in Nat
      BY VideoAssumption
    <2> QED
      BY <1>2, <2>1, SetVideoModeStep
  <1>3. ASSUME NEW r \in Rects, SDL_UpdateRect(r[1], r[2], r[3], r[4])
        PROVE  VideoIInv'
    <2>1. r[1] \in Nat /\ r[2] \in Nat /\ r[3] \in Nat /\ r[4] \in Nat
      BY VideoAssumption
    <2> QED
      BY <1>3, <2>1, UpdateRectStep
  <1>4. ASSUME NEW colors \in [Byte -> Byte], SDL_SetPalette(colors)
        PROVE  VideoIInv'
    BY <1>4, SetPaletteStep
  <1>5. ASSUME NEW r \in Rects, NEW c \in Byte, SDL_FillRect(r[1], r[2], r[3], r[4], c)
        PROVE  VideoIInv'
    <2> DEFINE pixels == surface'.pixels
    <2>1. /\ Idle /\ surface' = [surface EXCEPT !.pixels = pixels] /\ draw' = NoDraw
          /\ DOMAIN pixels = DOMAIN surface.pixels /\ overrun' \in BOOLEAN
          /\ UNCHANGED <<vars, screen, canvas, palette, failed>>
      BY <1>5 DEF SDL_FillRect, VideoIInv, VideoTypeOK
    <2> HIDE DEF pixels
    <2> QED
      BY <2>1, PixelsStep
  <1>6. ASSUME NEW src \in Sprites, NEW s \in Rects, NEW d \in Rects, SDL_BlitSurface(src, s, d)
        PROVE  VideoIInv'
    <2> DEFINE pixels == surface'.pixels
    <2>1. /\ Idle /\ surface' = [surface EXCEPT !.pixels = pixels] /\ draw' = NoDraw
          /\ DOMAIN pixels = DOMAIN surface.pixels /\ overrun' \in BOOLEAN
          /\ UNCHANGED <<vars, screen, canvas, palette, failed>>
      BY <1>6 DEF SDL_BlitSurface, VideoIInv, VideoTypeOK
    <2> HIDE DEF pixels
    <2> QED
      BY <2>1, PixelsStep
  <1>7. CASE DrawSeek \/ DrawWrite \/ DrawEnd
    BY <1>7, SeekStep, WriteRowStep, EndStep
  <1>8. CASE UNCHANGED vvars
    <2>1. UNCHANGED <<vars, screen, canvas, surface, palette, draw, failed, overrun>>
      BY <1>8 DEF vvars
    <2>2. UNCHANGED <<open_offset, fb>>
      BY <2>1 DEF vars
    <2> QED
      BY <2>1, <2>2 DEF VideoIInv, VideoTypeOK, CanvasFits, DrawingFits, RowsShown,
         OnlyCanvasAsserts, Drawing, PictureRight, ShownUpTo, Colour, RowOffset
  <1> QED
    BY <1>1, <1>2, <1>3, <1>4, <1>5, <1>6, <1>7, <1>8 DEF VideoNext

\* In every reachable state the canvas of NDL lies on the screen, the rectangle
\* being drawn lies on the canvas, and the rows drawn so far show the surface.
THEOREM VideoInvariance == VideoSpec => []VideoIInv
  <1>1. VideoInit => VideoIInv
    BY VideoInitially
  <1>2. VideoIInv /\ [VideoNext]_vvars => VideoIInv'
    BY VideoStep
  <1> QED
    BY <1>1, <1>2, PTL DEF VideoSpec

\* On every screen, and for every surface and rectangle, what SDL_UpdateRect and
\* SDL_SetPalette leave on the screen is the rectangle in its present colours,
\* at its place, and nothing else.
THEOREM SurfaceAlwaysShown == VideoSpec => []SurfaceShown
  <1>1. VideoIInv => SurfaceShown
    <2> SUFFICES ASSUME VideoIInv, draw.step = "done"
                 PROVE  SurfaceShown
      BY DEF SurfaceShown
    <2>1. draw.i = draw.h /\ ShownUpTo(draw.i)
      BY DEF VideoIInv, DrawingFits, RowsShown, Drawing
    <2> QED
      BY <2>1, Zenon DEF SurfaceShown, ShownUpTo
  <1> QED
    BY <1>1, VideoInvariance, PTL

\* The lseek and the write of every row return what NDL_DrawRect asserts.
THEOREM OnlyCanvasStops == VideoSpec => []OnlyCanvasAsserts
  <1>1. VideoIInv => OnlyCanvasAsserts
    BY DEF VideoIInv
  <1> QED
    BY <1>1, VideoInvariance, PTL

\* SDL_FillRect stays in its rectangle, on a surface without a palette.
LEMMA FillInside ==
    ASSUME VideoIInv, ~surface.pal,
           NEW d \in Rects, NEW c \in Byte, SDL_FillRect(d[1], d[2], d[3], d[4], c)
    PROVE  InRectangle(d, d[3], d[4])
  <1> DEFINE w == Fit(d[1], d[3], surface.w)
             h == Fit(d[2], d[4], surface.h)
             stored == Loop(d[1], d[2], w, h)
  <1>1. /\ d[1] \in Nat /\ d[2] \in Nat /\ d[3] \in Nat /\ d[4] \in Nat
        /\ surface.w \in Nat /\ surface.h \in Nat /\ d[1] <= surface.w /\ d[2] <= surface.h
    BY VideoAssumption DEF VideoIInv, VideoTypeOK, SDL_FillRect
  <1>2. /\ w \in Nat /\ w <= d[3] /\ d[1] + w <= surface.w
        /\ h \in Nat /\ h <= d[4] /\ d[2] + h <= surface.h
    BY <1>1, FitIs
  <1>3. /\ surface'.pixels = [k \in DOMAIN surface.pixels |->
                                 IF k \in stored THEN c ELSE surface.pixels[k]]
        /\ overrun' = ~(stored \subseteq DOMAIN surface.pixels)
    BY DEF SDL_FillRect, VideoIInv, VideoTypeOK
  <1> HIDE DEF w, h
  <1>4. ASSUME NEW k \in stored
        PROVE  /\ k \in DOMAIN surface.pixels
               /\ Between(k % surface.w, d[1], d[3]) /\ Between(k \div surface.w, d[2], d[4])
    <2>1. /\ k \in 0 .. surface.w * surface.h - 1
          /\ k % surface.w \in Int /\ k \div surface.w \in Int
          /\ Between(k % surface.w, d[1], w) /\ Between(k \div surface.w, d[2], h)
      BY <1>1, <1>2, <1>4, LoopInside
    <2>2. k \in DOMAIN surface.pixels
      BY <2>1 DEF VideoIInv, VideoTypeOK
    <2> QED
      BY <1>1, <1>2, <2>1, <2>2, BetweenWider
  <1> QED
    BY <1>3, <1>4 DEF InRectangle

\* SDL_BlitSurface stays in the columns and rows of the source rectangle.
LEMMA BlitInside ==
    ASSUME VideoIInv, NEW src \in Sprites, NEW s \in Rects, NEW d \in Rects,
           SDL_BlitSurface(src, s, d)
    PROVE  InRectangle(d, Fit(s[1], s[3], src.w), Fit(s[2], s[4], src.h))
  <1> DEFINE w == BlitLen(s[1], s[3], src.w, d[1], d[3], surface.w)
             h == BlitLen(s[2], s[4], src.h, d[2], d[4], surface.h)
             fw == Fit(s[1], s[3], src.w)
             fh == Fit(s[2], s[4], src.h)
             stored == Loop(d[1], d[2], w, h)
  <1>1. /\ d[1] \in Nat /\ d[2] \in Nat /\ d[3] \in Nat /\ d[4] \in Nat
        /\ s[1] \in Nat /\ s[2] \in Nat /\ s[3] \in Nat /\ s[4] \in Nat
        /\ surface.w \in Nat /\ surface.h \in Nat /\ src.w \in Nat /\ src.h \in Nat
    BY VideoAssumption DEF VideoIInv, VideoTypeOK
  <1>2. s[1] <= src.w /\ s[2] <= src.h /\ d[1] <= surface.w /\ d[2] <= surface.h
    BY DEF SDL_BlitSurface
  <1>3. /\ w \in Nat /\ w <= fw /\ d[1] + w <= surface.w
        /\ h \in Nat /\ h <= fh /\ d[2] + h <= surface.h /\ fw \in Nat /\ fh \in Nat
    BY <1>1, <1>2, BlitLenIs, FitIs
  <1>4. /\ \A k \in DOMAIN surface.pixels :
              k \notin stored => surface'.pixels[k] = surface.pixels[k]
        /\ overrun' = ~(stored \subseteq DOMAIN surface.pixels)
    BY DEF SDL_BlitSurface, VideoIInv, VideoTypeOK
  <1> HIDE DEF w, h, fw, fh
  <1>5. ASSUME NEW k \in stored
        PROVE  /\ k \in DOMAIN surface.pixels
               /\ Between(k % surface.w, d[1], fw) /\ Between(k \div surface.w, d[2], fh)
    <2>1. /\ k \in 0 .. surface.w * surface.h - 1
          /\ k % surface.w \in Int /\ k \div surface.w \in Int
          /\ Between(k % surface.w, d[1], w) /\ Between(k \div surface.w, d[2], h)
      BY <1>1, <1>3, <1>5, LoopInside
    <2>2. k \in DOMAIN surface.pixels
      BY <2>1 DEF VideoIInv, VideoTypeOK
    <2> QED
      BY <1>1, <1>3, <2>1, <2>2, BetweenWider
  <1> QED
    BY <1>4, <1>5 DEF InRectangle, fw, fh

\* Whatever the rectangles, SDL_BlitSurface on every surface, and SDL_FillRect on
\* one without a palette, change no pixel whose column or row lies outside, and
\* store nothing behind the pixels: the flat array never wraps a row.
THEOREM DrawsInside == VideoSpec => DrawsInRectangle
  <1>1. VideoIInv =>
          [\A d \in Rects :
             /\ \A c \in Byte :
                   SDL_FillRect(d[1], d[2], d[3], d[4], c) /\ ~surface.pal
                       => InRectangle(d, d[3], d[4])
             /\ \A src \in Sprites, s \in Rects :
                   SDL_BlitSurface(src, s, d) =>
                       InRectangle(d, Fit(s[1], s[3], src.w), Fit(s[2], s[4], src.h))]_vvars
    BY FillInside, BlitInside
  <1> QED
    BY <1>1, VideoInvariance, PTL DEF DrawsInRectangle

=============================================================================

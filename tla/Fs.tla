--------------------------------- MODULE Fs ---------------------------------
(***************************************************************************)
(* The file system of Nanos-lite: the file table of fs.h with one offset   *)
(* per file, the system calls of fs.c, the ramdisk that holds the files    *)
(* one after the other, and the devices that are files.  A file descriptor *)
(* is an index of the table.  Calls are atomic: they run in the trap       *)
(* handler with interrupts off.                                            *)
(***************************************************************************)
EXTENDS Integers, Gpu

CONSTANTS Files,        \* the descriptors of the files in files.h
          Size,         \* and the size
          DiskOffset,   \* and place in the ramdisk of each
          RamdiskSize,
          Byte,
          MaxLen,       \* the longest buffer of a program
          Used,         \* the descriptors, and
          Lens,         \* the lengths programs pass to read and write
          SeekOffsets,  \* the offsets programs pass to lseek
          M             \* 2^64: the range of size_t

FD_STDIN == 0
FD_STDOUT == 1
FD_STDERR == 2
DEV_EVENTS == 3
DISP_INF == 4
FB_DEV == 5
Table == (FD_STDIN .. FB_DEV) \union Files

\* A path no entry of the table has.
NoFile == -1

FbSizePixels == Height * Width

\* init_fs
FbSize == Height * Width * 4

\* files.h is made by the Makefile of navy-apps, which packs the files one after
\* the other; no buffer is so long that an offset within a file plus its length
\* leaves the range of size_t.
ASSUME FsAssumption ==
    /\ M \in Nat /\ M > FB_DEV /\ Files \subseteq FB_DEV + 1 .. M - 1
    /\ Size \in [Files -> Nat] /\ DiskOffset \in [Files -> Nat]
    /\ RamdiskSize \in Nat /\ MaxLen \in Nat
    /\ \A f \in Files : DiskOffset[f] + Size[f] <= RamdiskSize /\ Size[f] + MaxLen < M
    /\ \A f, g \in Files : f # g =>
          \/ DiskOffset[f] + Size[f] <= DiskOffset[g]
          \/ DiskOffset[g] + Size[g] <= DiskOffset[f]
    /\ FbSize + MaxLen < M
    /\ SeekOffsets \subseteq 0 .. M - 1 /\ Lens \subseteq 0 .. MaxLen /\ Used \subseteq Table

VARIABLES open_offset,  \* of /dev/fb and of the files
          disk,         \* the ramdisk
          fb,           \* the pixels of the screen
          ret,          \* what the last call returned
          data,         \* what the last read put into the caller's buffer
          halt          \* why the machine stopped, or "no"

vars == <<open_offset, disk, fb, ret, data, halt>>

Disk == 0 .. RamdiskSize - 1
Reasons == {"no", "not found", "invalid_read", "invalid_write", "ramdisk"}

SizeOf(fd) == IF fd = FB_DEV THEN FbSize ELSE Size[fd]

ClipNot(fd, len) == len

\* The bytes before the end of the file, of the len asked for.  A pixel is
\* known by the first of its four bytes.
Clip(fd, len) ==
    IF open_offset[fd] + len > SizeOf(fd) THEN SizeOf(fd) - open_offset[fd] ELSE len

Return(n) == ret' = n /\ data' = << >> /\ halt' = halt

\* panic, or an assertion that fails.
Panic(why) ==
    /\ halt' = why /\ ret' = 0 /\ data' = << >>
    /\ UNCHANGED <<open_offset, disk, fb>>

SetOffset(fd, n) == open_offset' = [open_offset EXCEPT ![fd] = n]

TypeOK ==
    /\ open_offset \in [{FB_DEV} \union Files -> 0 .. M - 1]
    /\ disk \in [Disk -> Byte]
    /\ fb \in [Pixels -> Byte]
    /\ ret \in 0 .. M - 1
    /\ halt \in Reasons

Init ==
    /\ open_offset = [fd \in {FB_DEV} \union Files |-> 0]
    /\ disk \in [Disk -> Byte]
    /\ \E c \in Byte : fb = [p \in Pixels |-> c]
    /\ ret = 0
    /\ data = << >>
    /\ halt = "no"

\* What ramdisk_read and ramdisk_write assert.
InRamdisk(offset, len) == offset + len <= RamdiskSize

-----------------------------------------------------------------------------
(***************************************************************************)
(* fs_open, fs_close, fs_lseek                                             *)
(***************************************************************************)
fs_open(path) ==
    /\ halt = "no"
    /\ \/ path \notin Table /\ Panic("not found")
       \/ /\ path \in Table /\ path < FB_DEV
          /\ Return(path)
          /\ UNCHANGED <<open_offset, disk, fb>>
       \/ /\ path \in Table /\ path >= FB_DEV
          /\ SetOffset(path, 0)
          /\ Return(path)
          /\ UNCHANGED <<disk, fb>>

fs_close(fd) ==
    /\ halt = "no"
    /\ Return(0)
    /\ UNCHANGED <<open_offset, disk, fb>>

Whence == {"SEEK_SET", "SEEK_CUR", "SEEK_END", "other"}

\* The new offset wraps like size_t.
SeekTo(fd, offset, whence) ==
    CASE whence = "SEEK_SET" -> offset
      [] whence = "SEEK_CUR" -> (offset + open_offset[fd]) % M
      [] whence = "SEEK_END" -> (offset + SizeOf(fd)) % M

fs_lseek(fd, offset, whence) ==
    /\ halt = "no"
    /\ \/ /\ fd < FB_DEV
          /\ Return(0)
          /\ UNCHANGED <<open_offset, disk, fb>>
       \/ /\ fd >= FB_DEV /\ whence = "other"
          /\ Return(M - 1)
          /\ UNCHANGED <<open_offset, disk, fb>>
       \/ /\ fd >= FB_DEV /\ whence # "other"
          /\ SetOffset(fd, SeekTo(fd, offset, whence))
          /\ Return(SeekTo(fd, offset, whence))
          /\ UNCHANGED <<disk, fb>>

-----------------------------------------------------------------------------
(***************************************************************************)
(* fs_read                                                                 *)
(***************************************************************************)
\* events_read and dispinfo_read return the length of the text they format,
\* which Input and Video take apart.
DeviceTexts == {0, MaxLen}

ReadDevice(fd, len) ==
    \/ /\ fd \in {DEV_EVENTS, DISP_INF}
       /\ \E n \in DeviceTexts : Return(n)
       /\ UNCHANGED <<open_offset, disk, fb>>
    \/ fd \in {FD_STDIN, FD_STDOUT, FD_STDERR, FB_DEV} /\ Panic("invalid_read")

ramdisk_readKeepsOffset(fd, offset, len) ==
    /\ data' = [i \in 0 .. len - 1 |-> disk[offset + i]]
    /\ ret' = len
    /\ UNCHANGED <<halt, open_offset>>

\* ramdisk_read, and the step of the offset that follows it.
ramdisk_read(fd, offset, len) ==
    /\ data' = [i \in 0 .. len - 1 |-> disk[offset + i]]
    /\ ret' = len
    /\ SetOffset(fd, open_offset[fd] + len)
    /\ UNCHANGED halt

ReadFile(fd, len) ==
    \/ /\ open_offset[fd] > Size[fd]
       /\ Return(0)
       /\ UNCHANGED <<open_offset, disk, fb>>
    \/ /\ open_offset[fd] <= Size[fd]
       /\ LET readlen == Clip(fd, len)
              offset == DiskOffset[fd] + open_offset[fd]
          IN  \/ ~InRamdisk(offset, readlen) /\ Panic("ramdisk")
              \/ /\ InRamdisk(offset, readlen)
                 /\ ramdisk_read(fd, offset, readlen)
                 /\ UNCHANGED <<disk, fb>>

fs_read(fd, len) ==
    /\ halt = "no"
    /\ \/ fd \notin Files /\ ReadDevice(fd, len)
       \/ fd \in Files /\ ReadFile(fd, len)

-----------------------------------------------------------------------------
(***************************************************************************)
(* fs_write                                                                *)
(***************************************************************************)
\* serial_write takes everything; the other two are invalid_write.
WriteDevice(fd, len) ==
    \/ /\ fd \in {FD_STDOUT, FD_STDERR}
       /\ Return(len)
       /\ UNCHANGED <<open_offset, disk, fb>>
    \/ fd \in {FD_STDIN, DEV_EVENTS, DISP_INF} /\ Panic("invalid_write")

\* fb_write: the offset becomes a pixel, the bytes a row of len / 4 pixels.
fb_write(buf, offset, len) ==
    fb' = fbdraw(fb, (offset \div 4) % Width, (offset \div 4) \div Width, len \div 4, 1,
                 [i \in 0 .. len \div 4 - 1 |-> buf[4 * i]])

ramdisk_write(buf, offset, len) ==
    disk' = [d \in Disk |-> IF d \in offset .. offset + len - 1 THEN buf[d - offset] ELSE disk[d]]

\* Where a write leaves the offset: not behind what it wrote.
OffsetAfterWrite(fd, writelen) == writelen

fs_write(fd, buf, len) ==
    /\ halt = "no"
    /\ \/ fd < FB_DEV /\ WriteDevice(fd, len)
       \/ /\ fd >= FB_DEV /\ open_offset[fd] > SizeOf(fd)
          /\ Return(M - 1)
          /\ UNCHANGED <<open_offset, disk, fb>>
       \/ /\ fd >= FB_DEV /\ open_offset[fd] <= SizeOf(fd)
          /\ LET writelen == Clip(fd, len)
                 offset == open_offset[fd]
             IN  \/ /\ fd = FB_DEV
                    /\ fb_write(buf, offset, writelen)
                    /\ SetOffset(fd, OffsetAfterWrite(fd, writelen))
                    /\ Return(writelen)
                    /\ UNCHANGED disk
                 \/ /\ fd # FB_DEV /\ ~InRamdisk(DiskOffset[fd] + offset, writelen)
                    /\ Panic("ramdisk")
                 \/ /\ fd # FB_DEV /\ InRamdisk(DiskOffset[fd] + offset, writelen)
                    /\ ramdisk_write(buf, DiskOffset[fd] + offset, writelen)
                    /\ SetOffset(fd, OffsetAfterWrite(fd, writelen))
                    /\ Return(writelen)
                    /\ UNCHANGED fb

-----------------------------------------------------------------------------
\* Programs call with buffers of up to MaxLen bytes.
Next ==
    \/ \E path \in Table \union {NoFile} : fs_open(path)
    \/ \E fd \in Used :
          \/ fs_close(fd)
          \/ \E offset \in SeekOffsets, whence \in Whence : fs_lseek(fd, offset, whence)
          \/ \E len \in Lens :
                \/ fs_read(fd, len)
                \/ \E buf \in [0 .. len - 1 -> Byte] : fs_write(fd, buf, len)

Spec == Init /\ [][Next]_vars

-----------------------------------------------------------------------------
(***************************************************************************)
(* Properties                                                              *)
(***************************************************************************)
\* The assertions of ramdisk_read and ramdisk_write never fail: whatever the
\* sequence of seeks, reads and writes, clipping keeps a transfer in its file.
RamdiskInBounds == halt # "ramdisk"

\* What a program sees are files of their own: the bytes between DiskOffset
\* and DiskOffset + Size are the content of a file, and no other call reaches
\* them, even from an offset at or behind the end of a neighbour.  The offset
\* moves with its own file's calls only, to where they put it.
Abstract == INSTANCE Files WITH
    content <- [f \in Files |-> [i \in 0 .. Size[f] - 1 |-> disk[DiskOffset[f] + i]]],
    pos <- [f \in Files |-> open_offset[f]],
    got <- data

IsFiles == Abstract!Spec

=============================================================================

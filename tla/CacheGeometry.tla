---------------------------- MODULE CacheGeometry --------------------------
(***************************************************************************)
(* The shape of the NPC caches (ysyx_22050550_define.v): how a 32-bit      *)
(* address splits into tag, group and offset, and what a line holds.       *)
(***************************************************************************)
EXTENDS Naturals

CONSTANTS
    Tags,       \* 24-bit tags in the code
    Groups,     \* 16 groups in the code
    NWays,      \* 4 in the code
    BeatBytes,  \* 8 in the code
    Val         \* contents of a byte

ASSUME TagsAssumption == 0 \in Tags
ASSUME NWaysAssumption == NWays \in Nat \ {0}
ASSUME BeatBytesAssumption == BeatBytes \in Nat \ {0}
ASSUME ValAssumption == 0 \in Val

LineBytes == 2 * BeatBytes
InLine == 0 .. LineBytes - 1
InBeat == 0 .. BeatBytes - 1
Ways == 0 .. NWays - 1
Slots == Groups \X Ways
Lines == Tags \X Groups
LineData == [InLine -> Val]
BeatData == [InBeat -> Val]

\* What a requester presents; op is TRUE for a store, size is the width of the
\* access in bytes (io_Cache_wmask of a store, func3 of a load).
Request == [op : BOOLEAN, tag : Tags, group : Groups, off : InLine,
            size : 0 .. BeatBytes, wdata : BeatData]

=============================================================================

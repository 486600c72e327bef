-------------------------------- MODULE Gpu --------------------------------
(***************************************************************************)
(* The frame buffer of abstract-machine's gpu.c: Width * Height pixels in  *)
(* one row-major array, and the drawing of a rectangle into it.            *)
(***************************************************************************)
EXTENDS Integers

CONSTANTS Width, Height

ASSUME ScreenAssumption == Width \in Nat \ {0} /\ Height \in Nat \ {0}

Pixels == 0 .. (Width * Height - 1)

\* The part of a row of w pixels that fits right of column x.
Line(x, w) == IF w + x < Width THEN w ELSE Width - x

\* __am_gpu_fbdraw: one memcpy per row of the w * h pixels in pix, each to the
\* place of (x, y + j) in the array, rows below the screen dropped.
fbdraw(fb, x, y, w, h, pix) ==
    [p \in Pixels |->
        LET k == p - (y * Width + x)
            j == k \div Width
            i == k % Width
        IN  IF k >= 0 /\ j < h /\ y + j < Height /\ i < Line(x, w)
            THEN pix[j * w + i]
            ELSE fb[p]]

=============================================================================

------------------------------- MODULE Video -------------------------------
(***************************************************************************)
(* How a program's picture gets to the screen: the screen surface of       *)
(* libminiSDL (video.c), the canvas of libndl (NDL.c), which draws a       *)
(* rectangle with one lseek and one write on /dev/fb for each row, and the *)
(* file system and frame buffer below (Fs, Gpu).                           *)
(***************************************************************************)
EXTENDS Fs

CONSTANTS Modes,      \* the width and height programs pass to SDL_SetVideoMode
          Rects,      \* the rectangles they pass to the drawing functions
          Sprites,    \* the surfaces they copy from: w, h, pixels
          Garbage(_)  \* what a fresh block of so many pixels may hold

\* The rectangles of callers start on the surface.
ASSUME VideoAssumption ==
    /\ Modes \subseteq Nat \X Nat
    /\ Rects \subseteq Nat \X Nat \X Nat \X Nat
    /\ 0 \in Byte
    /\ \A src \in Sprites : src.w \in Nat /\ src.h \in Nat
    /\ \A n \in 0 .. Width * Height : \A pixels \in Garbage(n) : DOMAIN pixels = 0 .. n - 1

VARIABLES screen,     \* NDL's screen_w and screen_h
          canvas,     \* NDL's Canvas_x, Canvas_y, Canvas_w and Canvas_h
          surface,    \* the screen surface: w, h, whether it has a palette, pixels
          palette,    \* the colour of each pixel value, for a surface with a palette
          draw,       \* the NDL_DrawRect in progress
          failed,     \* an assertion in the program failed
          overrun     \* the program has stored behind the pixels of its surface

vvars == <<vars, screen, canvas, surface, palette, draw, failed, overrun>>

NoSurface == [w |-> 0, h |-> 0, pal |-> FALSE, pixels |-> << >>]
NoDraw == [step |-> "none"]

\* What a store behind the pixels destroys in the heap is not modelled: the model
\* goes as far as the first.
Running == halt = "no" /\ ~failed /\ ~overrun
Idle == Running /\ draw.step \in {"none", "done"}

VideoInit ==
    /\ Init
    /\ screen = [w |-> 0, h |-> 0]
    /\ canvas = [x |-> 0, y |-> 0, w |-> 0, h |-> 0]
    /\ surface = NoSurface
    /\ palette = [b \in Byte |-> b]
    /\ draw = NoDraw
    /\ failed = FALSE /\ overrun = FALSE

-----------------------------------------------------------------------------
(***************************************************************************)
(* SDL_Init and SDL_SetVideoMode                                           *)
(***************************************************************************)
\* dispinfo reads /proc/dispinfo, where dispinfo_read prints the two numbers in
\* decimal, and parses them back.
NDL_Init ==
    /\ Idle
    /\ screen' = [w |-> Width, h |-> Height]
    /\ draw' = NoDraw
    /\ UNCHANGED <<vars, canvas, surface, palette, failed, overrun>>

\* Pixels of a new surface are whatever malloc returns; a new palette is zero.
SDL_CreateRGBSurface(w, h, pal) ==
    /\ \E pixels \in Garbage(w * h) : surface' = [w |-> w, h |-> h, pal |-> pal, pixels |-> pixels]
    /\ palette' = [b \in Byte |-> 0]

Centre(w, h) == [x |-> (screen.w - w) \div 2, y |-> (screen.h - h) \div 2, w |-> w, h |-> h]

\* NDL_OpenCanvas takes the whole screen if both are 0, and asserts that the
\* canvas fits on the screen.
SDL_SetVideoMode(width, height, pal) ==
    LET full == width = 0 /\ height = 0
        w == IF full THEN screen.w ELSE width
        h == IF full THEN screen.h ELSE height
        c == Centre(w, h)
    IN  /\ Idle
        /\ draw' = NoDraw
        /\ canvas' = c
        /\ \/ /\ c.x < 0 \/ c.y < 0
              /\ failed' = TRUE
              /\ UNCHANGED <<surface, palette>>
           \/ /\ c.x >= 0 /\ c.y >= 0
              /\ SDL_CreateRGBSurface(w, h, pal)
              /\ UNCHANGED failed
        /\ UNCHANGED <<vars, screen, overrun>>

-----------------------------------------------------------------------------
(***************************************************************************)
(* NDL_DrawRect: open, then lseek and write for each row on the canvas.    *)
(* The pixels of the picture are pix, w to a row.                          *)
(***************************************************************************)
NDL_DrawRect(pix, x, y, w, h) ==
    /\ fs_open(FB_DEV)
    /\ draw' = [step |-> "seek", i |-> 0, pix |-> pix, x |-> x, y |-> y, w |-> w, h |-> h,
                before |-> fb]

RowsLeft == draw.i < draw.h /\ draw.y + draw.i < canvas.h

RowLen == IF draw.w + draw.x < canvas.w THEN draw.w ELSE canvas.w - draw.x

RowOffsetScreen == (draw.y + draw.i) * screen.w + draw.x
RowOffset == (draw.y + canvas.y + draw.i) * screen.w + (draw.x + canvas.x)

DrawSeek ==
    /\ Running /\ draw.step = "seek" /\ RowsLeft
    /\ fs_lseek(FB_DEV, RowOffset * 4, "SEEK_SET")
    /\ draw' = [draw EXCEPT !.step = "write"]
    /\ failed' = (ret' # RowOffset * 4)
    /\ UNCHANGED <<screen, canvas, surface, palette, overrun>>

DrawWrite ==
    /\ Running /\ draw.step = "write"
    /\ fs_write(FB_DEV,
                   [b \in 0 .. RowLen * 4 - 1 |-> draw.pix[draw.i * draw.w + b \div 4]],
                   RowLen * 4)
    /\ draw' = [draw EXCEPT !.step = "seek", !.i = @ + 1]
    /\ failed' = (ret' # RowLen * 4)
    /\ UNCHANGED <<screen, canvas, surface, palette, overrun>>

DrawEnd ==
    /\ Running /\ draw.step = "seek" /\ ~RowsLeft
    /\ draw' = [draw EXCEPT !.step = "done"]
    /\ UNCHANGED <<vars, screen, canvas, surface, palette, failed, overrun>>

-----------------------------------------------------------------------------
(***************************************************************************)
(* SDL_UpdateRect, SDL_SetPalette, SDL_FillRect                            *)
(***************************************************************************)
\* The picture handed to NDL_DrawRect.  With a palette it is made for the
\* rectangle; without one it is the whole surface.
Picture(x, y, w, h) ==
    IF surface.pal
    THEN [k \in 0 .. w * h - 1 |->
             palette[surface.pixels[y * surface.w + x + (k \div w) * surface.w + (k % w)]]]
    ELSE surface.pixels

\* Callers pass a rectangle of the surface or four zeros for all of it; for
\* surfaces without a palette they pass four zeros.
UpdateCall(x, y, w, h) ==
    /\ surface # NoSurface
    /\ x + w <= surface.w /\ y + h <= surface.h
    /\ surface.pal \/ <<x, y, w, h>> = <<0, 0, 0, 0>>
    /\ w = 0 <=> h = 0
    /\ w = 0 => x = 0 /\ y = 0

Show(x, y, w, h) ==
    LET all == w = 0 /\ h = 0
        w1 == IF all THEN surface.w ELSE w
        h1 == IF all THEN surface.h ELSE h
    IN  NDL_DrawRect(Picture(x, y, w1, h1), x, y, w1, h1)

SDL_UpdateRect(x, y, w, h) ==
    /\ Idle /\ UpdateCall(x, y, w, h)
    /\ Show(x, y, w, h)
    /\ UNCHANGED <<screen, canvas, surface, palette, failed, overrun>>

\* SDL_SetPalette on the screen surface shows it with the new colours: the
\* picture is made after the colours are copied.
SDL_SetPalette(colors) ==
    /\ Idle /\ surface # NoSurface /\ surface.pal
    /\ palette' = colors
    /\ LET pix == [k \in 0 .. surface.w * surface.h - 1 |-> colors[surface.pixels[k]]]
       IN  NDL_DrawRect(pix, 0, 0, surface.w, surface.h)
    /\ UNCHANGED <<screen, canvas, surface, failed, overrun>>

\* Width and height of a rectangle within so many columns and rows.
Fit(x, w, limit) == IF x + w < limit THEN w ELSE limit - x

\* Where a loop over h rows and w columns of the surface from (x, y) on stores.
Loop(x, y, w, h) ==
    {y * surface.w + x + i * surface.w + j : i \in 0 .. h - 1, j \in 0 .. w - 1}

\* SDL_FillRect stores words of 32 bits whatever the format: on a surface with a
\* palette, whose pixels are bytes, those at four times the index become the
\* colour, which is a byte there, and the three behind each become 0.
SDL_FillRect(x, y, w, h, color) ==
    LET words == Loop(x, y, Fit(x, w, surface.w), Fit(y, h, surface.h))
        stored == IF surface.pal THEN {4 * k + b : k \in words, b \in 0 .. 3} ELSE words
        value(k) == IF surface.pal /\ k % 4 # 0 THEN 0 ELSE color
    IN  /\ Idle /\ surface # NoSurface
        /\ x <= surface.w /\ y <= surface.h
        /\ draw' = NoDraw
        /\ UNCHANGED <<vars, screen, canvas, palette, failed>>
        /\ surface' = [surface EXCEPT !.pixels =
              [k \in DOMAIN @ |-> IF k \in stored THEN value(k) ELSE @[k]]]
        /\ overrun' = ~(stored \subseteq DOMAIN surface.pixels)

BlitLenSource(sx, sw, slimit, dx, dw, dlimit) == Fit(sx, sw, slimit)

\* Columns or rows that SDL_BlitSurface copies: those of the source rectangle
\* within the source, unless they do not fit; then those of the destination
\* rectangle within the destination.
BlitLen(sx, sw, slimit, dx, dw, dlimit) ==
    IF Fit(sx, sw, slimit) <= dlimit - dx THEN Fit(sx, sw, slimit) ELSE Fit(dx, dw, dlimit)

\* Source and destination have the same format, and a pixel of either is what
\* SDL_BlitSurface copies.
SDL_BlitSurface(src, s, d) ==
    LET stored == Loop(d[1], d[2], BlitLen(s[1], s[3], src.w, d[1], d[3], surface.w),
                                   BlitLen(s[2], s[4], src.h, d[2], d[4], surface.h))
        from(e) == s[2] * src.w + s[1] + (e \div surface.w) * src.w + (e % surface.w)
    IN  /\ Idle /\ surface # NoSurface
        /\ s[1] <= src.w /\ s[2] <= src.h /\ d[1] <= surface.w /\ d[2] <= surface.h
        /\ draw' = NoDraw
        /\ UNCHANGED <<vars, screen, canvas, palette, failed>>
        /\ surface' = [surface EXCEPT !.pixels =
              [k \in DOMAIN @ |-> IF k \in stored
                                  THEN src.pixels[from(k - (d[2] * surface.w + d[1]))]
                                  ELSE @[k]]]
        /\ overrun' = ~(stored \subseteq DOMAIN surface.pixels)

-----------------------------------------------------------------------------
VideoNext ==
    \/ NDL_Init
    \/ \E m \in Modes, pal \in BOOLEAN : SDL_SetVideoMode(m[1], m[2], pal)
    \/ \E r \in Rects : SDL_UpdateRect(r[1], r[2], r[3], r[4])
    \/ \E colors \in [Byte -> Byte] : SDL_SetPalette(colors)
    \/ \E r \in Rects, c \in Byte : SDL_FillRect(r[1], r[2], r[3], r[4], c)
    \/ \E src \in Sprites, s, d \in Rects : SDL_BlitSurface(src, s, d)
    \/ DrawSeek \/ DrawWrite \/ DrawEnd

VideoSpec == VideoInit /\ [][VideoNext]_vvars

-----------------------------------------------------------------------------
(***************************************************************************)
(* Properties                                                              *)
(***************************************************************************)
Between(n, a, len) == a <= n /\ n < a + len

Colour(x, y) ==
    LET c == surface.pixels[y * surface.w + x] IN IF surface.pal THEN palette[c] ELSE c

\* When SDL_UpdateRect or SDL_SetPalette is done, the rectangle shows the
\* surface in its present colours at its place on the centred canvas, and every
\* other pixel of the screen is as it was, though the rectangle went through as
\* many seeks and writes on one file as it has rows.
SurfaceShown ==
    draw.step = "done" =>
        \A p \in Pixels :
            LET x == (p % Width) - canvas.x
                y == p \div Width - canvas.y
            IN  fb[p] = IF Between(x, draw.x, draw.w) /\ Between(y, draw.y, draw.h)
                        THEN Colour(x, y) ELSE draw.before[p]

\* The assertions of NDL_DrawRect never fail: each lseek and each write on
\* /dev/fb returns what was asked for.  Only a canvas larger than the screen
\* stops a program.
OnlyCanvasAsserts == failed => canvas.x < 0 \/ canvas.y < 0

\* SDL_BlitSurface on every surface, and SDL_FillRect on one without a palette,
\* touch, of the flat array of pixels, only those whose column and row lie in the
\* rectangle, never the next row, and nothing behind the array.  The comment at
\* video.c:135 promises it of every fill; on a surface with a palette it is not so.
InRectangle(d, w, h) ==
    /\ \A k \in DOMAIN surface.pixels :
          ~(Between(k % surface.w, d[1], w) /\ Between(k \div surface.w, d[2], h))
              => surface'.pixels[k] = surface.pixels[k]
    /\ ~overrun'

DrawsInRectangle ==
    [][\A d \in Rects :
          /\ \A c \in Byte :
                SDL_FillRect(d[1], d[2], d[3], d[4], c) /\ ~surface.pal => InRectangle(d, d[3], d[4])
          /\ \A src \in Sprites, s \in Rects :
                SDL_BlitSurface(src, s, d) =>
                    InRectangle(d, Fit(s[1], s[3], src.w), Fit(s[2], s[4], src.h))]_vvars

-----------------------------------------------------------------------------
(***************************************************************************)
(* What makes these properties inductive.                                  *)
(***************************************************************************)
VideoTypeOK ==
    /\ FB_DEV \in DOMAIN open_offset
    /\ screen \in {[w |-> 0, h |-> 0], [w |-> Width, h |-> Height]}
    /\ canvas \in [x : Int, y : Int, w : Nat, h : Nat]
    /\ surface = [w |-> surface.w, h |-> surface.h, pal |-> surface.pal, pixels |-> surface.pixels]
    /\ surface.w \in Nat /\ surface.h \in Nat /\ surface.pal \in BOOLEAN
    /\ DOMAIN surface.pixels = 0 .. surface.w * surface.h - 1
    /\ failed \in BOOLEAN /\ overrun \in BOOLEAN

\* The canvas has the size of the surface and lies on the screen.
CanvasFits ==
    ~failed => /\ canvas.w = surface.w /\ canvas.h = surface.h
               /\ canvas.x >= 0 /\ canvas.x + canvas.w <= screen.w
               /\ canvas.y >= 0 /\ canvas.y + canvas.h <= screen.h

Drawing == draw.step # "none"

\* The rectangle being drawn lies on the canvas, and between lseek and write the
\* offset of /dev/fb is at the beginning of the row.
DrawingFits ==
    Drawing =>
        /\ ~failed
        /\ draw = [step |-> draw.step, i |-> draw.i, pix |-> draw.pix, x |-> draw.x, y |-> draw.y,
                   w |-> draw.w, h |-> draw.h, before |-> draw.before]
        /\ draw.step \in {"seek", "write", "done"}
        /\ draw.x \in Nat /\ draw.y \in Nat /\ draw.w \in Nat /\ draw.h \in Nat
        /\ draw.x + draw.w <= canvas.w /\ draw.y + draw.h <= canvas.h
        /\ draw.i \in 0 .. draw.h
        /\ draw.step = "write" => draw.i < draw.h /\ open_offset[FB_DEV] = RowOffset * 4
        /\ draw.step = "done" => draw.i = draw.h

\* The first rows rows of the rectangle show the surface, and the rest of the
\* screen is as it was.
ShownUpTo(rows) ==
    \A p \in Pixels :
        LET x == (p % Width) - canvas.x
            y == p \div Width - canvas.y
        IN  fb[p] = IF Between(x, draw.x, draw.w) /\ Between(y, draw.y, rows)
                    THEN Colour(x, y) ELSE draw.before[p]

PictureRight ==
    \A j \in 0 .. draw.h - 1, k \in 0 .. draw.w - 1 :
        draw.pix[j * draw.w + k] = Colour(draw.x + k, draw.y + j)

RowsShown == Drawing => PictureRight /\ ShownUpTo(draw.i)

VideoIInv == VideoTypeOK /\ CanvasFits /\ DrawingFits /\ RowsShown /\ OnlyCanvasAsserts

=============================================================================

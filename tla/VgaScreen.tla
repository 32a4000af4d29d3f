----------------------------- MODULE VgaScreen -----------------------------
(***************************************************************************)
(* Drawing in mode 13h (vga.c): pixels and clipped rectangles in either    *)
(* buffer, the copy of the back buffer to the screen in 32-bit words, and  *)
(* the palette through the DAC's two ports.  A step is one turn of a loop. *)
(* Every cell starts with a colour of its own, and one call is made, with  *)
(* arguments that reach up to Margin beyond the screen on every side.      *)
(***************************************************************************)
EXTENDS Integers, Sequences

CONSTANTS Width, Height, PaletteSize, Margin
ASSUME ScreenAssumption == /\ {Width, Height, PaletteSize, Margin} \subseteq Nat
                           /\ (Width * Height) % 4 = 0    \* VGA_SCREEN_SIZE / 4

VARIABLES
    vgaCall,       \* the call made: its function and arguments
    vgaPc,         \* "idle", the loop under way, or "done"
    rect,          \* vga_draw_rect's parameters after clipping
    cx, cy, word,  \* loop counters; word counts what rep movsd copied
    front, back,   \* by offset from the start of the buffer; other memory next to it
    got,           \* what a read returned
    dac            \* the adapter's palette with its index and component counters

vgaVars == <<vgaCall, vgaPc, rect, cx, cy, word, front, back, got, dac>>

ScreenSize == Width * Height
Offset == -(Margin + 1) * (Width + 1) .. (Height + Margin + 1) * (Width + 1)
Cell(x, y) == y * Width + x
OnScreen(x, y) == x >= 0 /\ x < Width /\ y >= 0 /\ y < Height

Ink == 999                                   \* the colour drawn
FrontAtFirst == [a \in Offset |-> 100 + a]
BackAtFirst == [a \in Offset |-> 200 + a]
Colours == {0, 3, 4, 255}
PaletteByte(i) == (37 * i + 5) % 256         \* palette_data
EntriesAtFirst == [e \in 0 .. PaletteSize - 1 |-> <<63, 0, 63>>]

ScreenInit ==
    /\ vgaCall = [fn |-> "none"] /\ vgaPc = "idle"
    /\ rect = [x |-> 0, y |-> 0, width |-> 0, height |-> 0]
    /\ cx = 0 /\ cy = 0 /\ word = 0 /\ got = 0
    /\ front = FrontAtFirst /\ back = BackAtFirst
    /\ dac = [index |-> 0, held |-> <<>>, entry |-> EntriesAtFirst]

-----------------------------------------------------------------------------
(* The pixel functions.  The arguments that are not on the screen are      *)
(* ignored; a read of them returns 0.                                      *)
Column == -Margin .. Width + Margin
Row == -Margin .. Height + Margin

vga_write_pixel(x, y) ==
    /\ vgaCall' = [fn |-> "write_pixel", x |-> x, y |-> y] /\ vgaPc' = "done"
    /\ front' = IF OnScreen(x, y) THEN [front EXCEPT ![Cell(x, y)] = Ink] ELSE front
    /\ UNCHANGED <<rect, cx, cy, word, back, got, dac>>

vga_write_back_pixel(x, y) ==
    /\ vgaCall' = [fn |-> "write_back_pixel", x |-> x, y |-> y] /\ vgaPc' = "done"
    /\ back' = IF OnScreen(x, y) THEN [back EXCEPT ![Cell(x, y)] = Ink] ELSE back
    /\ UNCHANGED <<rect, cx, cy, word, front, got, dac>>

Read(fn, buffer, x, y) ==
    /\ vgaCall' = [fn |-> fn, x |-> x, y |-> y] /\ vgaPc' = "done"
    /\ got' = IF OnScreen(x, y) THEN buffer[Cell(x, y)] ELSE 0
    /\ UNCHANGED <<rect, cx, cy, word, front, back, dac>>
vga_read_pixel(x, y) == Read("read_pixel", front, x, y)
vga_read_back_pixel(x, y) == Read("read_back_pixel", back, x, y)

Pixel ==
    /\ vgaPc = "idle"
    /\ \E x \in Column, y \in Row :
        \/ vga_write_pixel(x, y) \/ vga_write_back_pixel(x, y)
        \/ vga_read_pixel(x, y) \/ vga_read_back_pixel(x, y)

-----------------------------------------------------------------------------
(* Rectangles.  The near sides are clipped first; the far ones are then    *)
(* measured from the moved corner.  A width or height that is negative, or *)
(* becomes so, leaves the loops without a turn.                            *)
(*                                                                         *)
(* Mutant: the corner is moved and the side keeps its length.              *)
ClipKeepsLength(at, length, limit) ==
    LET at0 == IF at < 0 THEN 0 ELSE at
    IN  [at |-> at0, length |-> IF at0 + length > limit THEN limit - at0 ELSE length]
Clip(at, length, limit) ==
    LET at0 == IF at < 0 THEN 0 ELSE at
        length0 == IF at < 0 THEN length + at ELSE length
    IN  [at |-> at0, length |-> IF at0 + length0 > limit THEN limit - at0 ELSE length0]

vga_draw_rect ==
    /\ vgaPc = "idle"
    /\ \E fn \in {"draw_rect", "draw_rect_back"}, x \in Column, y \in Row,
          width \in -1 .. Width + 2 * Margin, height \in -1 .. Height + 2 * Margin :
        LET across == Clip(x, width, Width)
            down == Clip(y, height, Height)
        IN  /\ vgaCall' = [fn |-> fn, x |-> x, y |-> y, width |-> width, height |-> height]
            /\ rect' = [x |-> across.at, y |-> down.at,
                        width |-> across.length, height |-> down.length]
            /\ cy' = down.at /\ cx' = across.at
    /\ vgaPc' = "rect"
    /\ UNCHANGED <<word, front, back, got, dac>>

DrawCell ==
    /\ vgaPc = "rect" /\ cy < rect.y + rect.height /\ cx < rect.x + rect.width
    /\ IF vgaCall.fn = "draw_rect"
       THEN front' = [front EXCEPT ![Cell(cx, cy)] = Ink] /\ UNCHANGED back
       ELSE back' = [back EXCEPT ![Cell(cx, cy)] = Ink] /\ UNCHANGED front
    /\ cx' = cx + 1
    /\ UNCHANGED <<vgaCall, vgaPc, rect, cy, word, got, dac>>

NextRow ==
    /\ vgaPc = "rect" /\ cy < rect.y + rect.height /\ cx >= rect.x + rect.width
    /\ cy' = cy + 1 /\ cx' = rect.x
    /\ UNCHANGED <<vgaCall, vgaPc, rect, word, front, back, got, dac>>

-----------------------------------------------------------------------------
vga_blit ==
    /\ vgaPc = "idle"
    /\ vgaCall' = [fn |-> "blit"] /\ vgaPc' = "blit"
    /\ UNCHANGED <<rect, cx, cy, word, front, back, got, dac>>

Movsd ==
    /\ vgaPc = "blit" /\ word < ScreenSize \div 4
    /\ front' = [a \in Offset |-> IF a \in 4 * word .. 4 * word + 3 THEN back[a] ELSE front[a]]
    /\ word' = word + 1
    /\ UNCHANGED <<vgaCall, vgaPc, rect, cx, cy, back, got, dac>>

-----------------------------------------------------------------------------
(* The palette.  A write to port 0x3C8 chooses the entry; the third byte   *)
(* written to 0x3C9 after it completes the entry and moves on to the next. *)
(* A component is the upper six bits of the byte.                          *)
DacIndex(e) == [dac EXCEPT !.index = e, !.held = <<>>]
DacData(v) ==
    LET held == Append(dac.held, v)
    IN  IF Len(held) < 3 THEN [dac EXCEPT !.held = held]
        ELSE [index |-> (dac.index + 1) % PaletteSize, held |-> <<>>,
              entry |-> [dac.entry EXCEPT ![dac.index] = held]]
Scaled(v) == v \div 4

vga_set_palette ==
    /\ vgaPc = "idle"
    /\ vgaCall' = [fn |-> "set_palette"] /\ vgaPc' = "palette"
    /\ dac' = DacIndex(0) /\ cx' = 0
    /\ UNCHANGED <<rect, cy, word, front, back, got>>

vga_set_palette_entry ==
    /\ vgaPc = "idle"
    /\ \E e \in 0 .. PaletteSize - 1, r, g, b \in Colours :
        /\ vgaCall' = [fn |-> "set_palette_entry", index |-> e, rgb |-> <<r, g, b>>]
        /\ dac' = DacIndex(e)
    /\ vgaPc' = "palette" /\ cx' = 0
    /\ UNCHANGED <<rect, cy, word, front, back, got>>

Bytes == IF vgaCall.fn = "set_palette" THEN 3 * PaletteSize ELSE 3

NextComponent ==
    /\ vgaPc = "palette" /\ cx < Bytes
    /\ dac' = DacData(Scaled(IF vgaCall.fn = "set_palette" THEN PaletteByte(cx)
                                                           ELSE vgaCall.rgb[cx + 1]))
    /\ cx' = cx + 1
    /\ UNCHANGED <<vgaCall, vgaPc, rect, cy, word, front, back, got>>

LoopEnds ==
    /\ \/ vgaPc = "rect" /\ cy >= rect.y + rect.height
       \/ vgaPc = "blit" /\ word = ScreenSize \div 4
       \/ vgaPc = "palette" /\ cx = Bytes
    /\ vgaPc' = "done"
    /\ UNCHANGED <<vgaCall, rect, cx, cy, word, front, back, got, dac>>

ScreenNext ==
    \/ Pixel \/ vga_draw_rect \/ DrawCell \/ NextRow \/ vga_blit \/ Movsd
    \/ vga_set_palette \/ vga_set_palette_entry \/ NextComponent \/ LoopEnds

-----------------------------------------------------------------------------
(* The cells a call should ink, in the terms of its caller: those of the   *)
(* rectangle that are on the screen.                                       *)
Asked(fns, a) ==
    /\ vgaCall.fn \in fns
    /\ \E x \in 0 .. Width - 1, y \in 0 .. Height - 1 :
        /\ a = Cell(x, y)
        /\ IF vgaCall.fn \in {"write_pixel", "write_back_pixel"}
           THEN x = vgaCall.x /\ y = vgaCall.y
           ELSE /\ vgaCall.x <= x /\ x < vgaCall.x + vgaCall.width
                /\ vgaCall.y <= y /\ y < vgaCall.y + vgaCall.height

(* When a drawing function returns, exactly the cells of the shape that    *)
(* are on the screen are inked, in the buffer it names: nothing wraps to   *)
(* the next row, nothing is written beside the buffer, a blit copies the   *)
(* screen and no more, and the palette has every entry that was sent, six  *)
(* bits a component, and no other.                                         *)
DrawnAsAsked ==
    vgaPc = "done" =>
        /\ front = [a \in Offset |->
                IF Asked({"write_pixel", "draw_rect"}, a) THEN Ink
                ELSE IF vgaCall.fn = "blit" /\ a \in 0 .. ScreenSize - 1 THEN BackAtFirst[a]
                ELSE FrontAtFirst[a]]
        /\ back = [a \in Offset |->
                IF Asked({"write_back_pixel", "draw_rect_back"}, a) THEN Ink ELSE BackAtFirst[a]]
        /\ \A e \in 0 .. PaletteSize - 1 :
                dac.entry[e] =
                    CASE vgaCall.fn = "set_palette" ->
                            [c \in 1 .. 3 |-> Scaled(PaletteByte(3 * e + c - 1))]
                      [] vgaCall.fn = "set_palette_entry" /\ vgaCall.index = e ->
                            [c \in 1 .. 3 |-> Scaled(vgaCall.rgb[c])]
                      [] OTHER -> EntriesAtFirst[e]

=============================================================================

------------------------------- MODULE Pcd8544 ------------------------------
(***************************************************************************)
(* The graphic display PCD8544 behind the SPI port (dev_pcd8544.c) and its *)
(* driver, which keeps the position of the text and never asks the display *)
(* for it.                                                                 *)
(***************************************************************************)
EXTENDS Spi

CONSTANTS Width, Banks,  \* columns and banks of 8 lines of the display (bound)
          FontLength,    \* columns of a character (bound)
          Letters,       \* characters
          Patterns,      \* bytes of pcd8544_fill and pcd8544_putblock
          MaxCalls       \* calls after the initialisation (bound)

ASSUME ShapeAssumption == /\ Width \in 2..84 /\ Banks \in 1..6
                          /\ FontLength \in 1..Width - 1
                          /\ Letters \subseteq 0..255 /\ Patterns \subseteq 0..255
                          /\ MaxCalls \in Nat

VARIABLES glcd,    \* the display
          pos,     \* x, y of struct dev_pcd8544_ctx
          image,   \* what the calls so far should have made of its memory
          stale,   \* pos is not the position of the display
          garbled, \* SCE or DC changed during a transfer
          calls    \* calls since the initialisation, -1 before it

graphic == <<glcd, pos, image, stale, garbled, calls>>

Filled(b) == [y \in 0..Banks - 1 |-> [x \in 0..Width - 1 |-> b]]

(* Column i of the character c in _font. *)
Glyph(c, i) == (c + i) % 256

-----------------------------------------------------------------------------
(* The driver. *)

ByteOps(mode, b) ==
    <<IF mode = "data" THEN High("dc") ELSE Low("dc"), Low("sce")>>
    \o BusSendOps(b) \o <<High("sce")>>

Byte(mode, b) == [op |-> "pcd8544_write", pin |-> mode, val |-> b]
Command(b) == <<Byte("cmd", b)>>
Data(b) == <<Byte("data", b)>>

GraphicFunctionSet(pd, v, h) == 32 + 4 * pd + 2 * v + h
SetX(x) == 128 + x
SetY(y) == 64 + (y % 8)

GotoOps(x, y) == Command(SetX(x)) \o Command(SetY(y))

(* _pcd8544_fill; value is a function of bank and column. *)
RowOp(value, y, i) == CASE i = 0 -> Byte("cmd", SetX(0))
                        [] i = 1 -> Byte("cmd", SetY(y))
                        [] OTHER -> Byte("data", value[y][i - 2])
FillOps(value) == [i \in 1..Banks * (Width + 2) |->
                      RowOp(value, (i - 1) \div (Width + 2), (i - 1) % (Width + 2))]

(* fault: the extended instructions are left before the voltage is set *)
SettingsSwapped == <<GraphicFunctionSet(0, 0, 1), 4 + 1, 16 + 4, GraphicFunctionSet(0, 0, 0), 128 + 64, 8 + 4>>

(* settings of pcd8544_init: temperature, bias, voltage, display control *)
Settings == <<GraphicFunctionSet(0, 0, 1), 4 + 1, 16 + 4, 128 + 64, GraphicFunctionSet(0, 0, 0), 8 + 4>>

GraphicInitOps ==
    <<Output("res"), Output("dc"), Output("sce"), Low("res"), Delay(10000), High("res")>>
    \o [i \in 1..2 * Len(Settings) |-> IF i % 2 = 1 THEN Byte("cmd", Settings[(i + 1) \div 2])
                                                    ELSE Delay(1000)]

(* fault: the empty column before a character is forgotten *)
NoRoomWithoutGap == pos.x + FontLength > Width

(* A character does not fit in what is left of the line. *)
NoRoom == pos.x + FontLength + 1 > Width

(* fault: the empty column is forgotten *)
AfterCharWithoutGap(x) == x + FontLength

AfterChar(x) == x + FontLength + 1

CharAt == IF NoRoom THEN [x |-> 0, y |-> pos.y + 1] ELSE pos
CharOps(c) == (IF NoRoom THEN GotoOps(0, pos.y + 1) ELSE <<>>)
              \o [i \in 1..FontLength + 1 |-> Byte("data", IF i = 1 THEN 0 ELSE Glyph(c, i - 1))]

-----------------------------------------------------------------------------
(* The display. *)
GlcdOff == [x |-> 0, y |-> 0, h |-> 0, mode |-> 0, vop |-> 0, bias |-> 0, tc |-> 0,
            ram |-> Filled(-1)]

Instruction(d, b) ==
    CASE b >= 128 /\ d.h = 1 -> [d EXCEPT !.vop = b - 128]
      [] b >= 128 /\ d.h = 0 -> [d EXCEPT !.x = (b - 128) % Width]
      [] b \in 64..127 /\ d.h = 0 -> [d EXCEPT !.y = (b - 64) % Banks]
      [] b \in 32..39 -> [d EXCEPT !.h = b % 2]
      [] b \in 16..23 /\ d.h = 1 -> [d EXCEPT !.bias = b % 8]
      [] b \in 4..7 /\ d.h = 1 -> [d EXCEPT !.tc = b % 4]
      [] b \in 8..15 /\ d.h = 0 -> [d EXCEPT !.mode = b % 8]
      [] OTHER -> d

(* The position after a byte of data: from bank to bank, and around. *)
Advanced(p) == IF p.x + 1 < Width THEN [x |-> p.x + 1, y |-> p.y]
               ELSE [x |-> 0, y |-> (p.y + 1) % Banks]

Shown(d, b) == LET next == Advanced([x |-> d.x, y |-> d.y])
               IN [d EXCEPT !.ram[d.y][d.x] = b, !.x = next.x, !.y = next.y]

GraphicInit == /\ glcd = GlcdOff /\ pos = [x |-> 0, y |-> 0] /\ image = Filled(-1)
               /\ stale = TRUE /\ garbled = FALSE /\ calls = -1

(* A byte has been shifted out: the display takes it when it is selected. *)
Transfer == /\ \E b \in Answers : Shifted(b)
            /\ glcd' = CASE "sce" \in port -> glcd
                         [] "dc" \in port -> Shown(glcd, spi.spdr)
                         [] OTHER -> Instruction(glcd, spi.spdr)
            /\ UNCHANGED <<pos, image, stale, garbled, calls>>

SetGraphicLine ==
    /\ Store
    /\ glcd' = IF "res" \in port /\ "res" \notin port' THEN [GlcdOff EXCEPT !.ram = glcd.ram] ELSE glcd
    /\ garbled' = (garbled \/ (spi.shifting /\ port # port'))
    /\ UNCHANGED <<bus, pos, image, stale, calls>>

GraphicStep ==
    \/ SetGraphicLine
    \/ Transfer
    \/ (SendByte \/ AwaitEnd \/ RecvByte) /\ UNCHANGED graphic
    \/ (Load \/ Configure \/ Pause) /\ UNCHANGED <<bus, graphic>>
    \/ Doing("pcd8544_write") /\ Becomes(ByteOps(Head(todo).pin, Head(todo).val))
                              /\ UNCHANGED <<bus, graphic>>

GraphicBegin(ops, p, img, st) ==
    /\ todo = <<>> /\ todo' = ops /\ pos' = p /\ image' = img /\ stale' = st
    /\ UNCHANGED <<port, ddr, held, bus, glcd, garbled>>

(* A byte is sent before the display is set up, and its answer read. *)
Exchange == /\ todo = <<>> /\ calls = -1 /\ spi.spe /\ spi.mstr /\ got = -1
            /\ todo' = BusSendOps(0) \o <<Recv>>
            /\ UNCHANGED <<port, ddr, held, bus, graphic>>

(* pcd8544_init leaves x and y of the context as they are. *)
pcd8544_init == /\ calls = -1 /\ calls' = 0
                /\ GraphicBegin(GraphicInitOps, pos, image, TRUE)

Counted == calls \in 0..MaxCalls /\ calls' = calls + 1

pcd8544_clrscr == /\ Counted
                  /\ GraphicBegin(FillOps(Filled(0)) \o GotoOps(0, 0), [x |-> 0, y |-> 0],
                                  Filled(0), FALSE)

(* The calls after the screen is cleared. *)
Counting == calls > 0 /\ Counted

pcd8544_gotoxy(x, y) == /\ Counting
                        /\ GraphicBegin(GotoOps(x, y), [x |-> x, y |-> y], image, FALSE)

(* Text is written where the context knows the position and a line is left  *)
(* (bound).                                                                 *)
pcd8544_putc(c) ==
    /\ Counting /\ ~stale /\ CharAt.y < Banks
    /\ GraphicBegin(CharOps(c), [x |-> AfterChar(CharAt.x), y |-> CharAt.y],
                    [image EXCEPT ![CharAt.y] =
                        [x \in 0..Width - 1 |->
                            CASE x = CharAt.x -> 0
                              [] x \in CharAt.x + 1 .. CharAt.x + FontLength -> Glyph(c, x - CharAt.x)
                              [] OTHER -> image[CharAt.y][x]]], FALSE)

pcd8544_putblock(x, y, b) ==
    /\ Counting
    /\ GraphicBegin(GotoOps(x, y) \o Data(b), [x |-> x, y |-> y], [image EXCEPT ![y][x] = b], TRUE)

pcd8544_fill(b) == /\ Counting
                   /\ GraphicBegin(FillOps(Filled(b)), pos, Filled(b), TRUE)

Picture == [y \in 0..Banks - 1 |-> [x \in 0..Width - 1 |-> (Width * y + x) % 256]]
pcd8544_blit == /\ Counting
                /\ GraphicBegin(GotoOps(0, 0) \o FillOps(Picture), [x |-> 0, y |-> 0], Picture, FALSE)

GraphicCalls ==
    \/ pcd8544_clrscr \/ pcd8544_blit
    \/ \E x \in 0..Width - 1, y \in 0..Banks - 1 : pcd8544_gotoxy(x, y)
    \/ \E c \in Letters : pcd8544_putc(c)
    \/ \E b \in Patterns : pcd8544_fill(b) \/ pcd8544_putblock(Width - 1, 0, b)

-----------------------------------------------------------------------------
Settled == calls >= 0 /\ todo = <<>>

(* The position the driver keeps is that of the display, where no call has  *)
(* left it behind; a line that is full is the start of the next             *)
(* (pcd8544_putc, pcd8544_gotoxy, pcd8544_blit).                            *)
PointerTracked ==
    Settled /\ ~stale =>
        [x |-> glcd.x, y |-> glcd.y] = IF pos.x < Width THEN pos
                                       ELSE [x |-> 0, y |-> (pos.y + 1) % Banks]

(* The memory of the display holds what the calls wrote, each character in  *)
(* one piece and nothing else changed (pcd8544_putc, _pcd8544_fill).        *)
CellsAsCalled == Settled /\ calls > 0 => glcd.ram = image

(* The display works as pcd8544_init asked, also after a reset that found   *)
(* it in any state.                                                         *)
ConfiguredAfterInit ==
    Settled => /\ glcd.mode = 4 /\ glcd.vop = 64 /\ glcd.bias = 4 /\ glcd.tc = 1 /\ glcd.h = 0

(* The display is as the calls asked for.                                   *)
DrawnAsCalled == PointerTracked /\ CellsAsCalled /\ ConfiguredAfterInit

(* SCE and DC stay while a byte is shifted out, and the byte read is the    *)
(* one that answered the byte sent (pcd8544_write, spi_hw_poll_send).       *)
BytesFramed == ~garbled /\ (got # -1 /\ calls = -1 => got = answer)
=============================================================================

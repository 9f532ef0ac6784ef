---------------------------- MODULE Boot_proofs ----------------------------
(***************************************************************************)
(* Proofs about Boot, for every machine, text, screen size and bound of    *)
(* scancodes that the assumptions allow.  The three invariants have        *)
(* disjoint state and three inductive invariants: the keyboard's KeyInv,   *)
(* the screen's ScreenInv, and RouteInv of the tables and cores.           *)
(***************************************************************************)
EXTENDS Boot, NatSets

-----------------------------------------------------------------------------
(* The keyboard                                                            *)

SeenType ==
  /\ seen = [lf |-> seen.lf, touched |-> seen.touched, one_up |-> seen.one_up, fake |-> seen.fake]
  /\ seen.lf \in BOOLEAN /\ seen.touched \in BOOLEAN /\ seen.one_up \in BOOLEAN /\ seen.fake \in BOOLEAN

KeyInv ==
  /\ state = [shift |-> state.shift, caps |-> state.caps] /\ state.shift \in BOOLEAN
  /\ SeenType
  /\ ShiftHeld

(* The steps of the boot core and of the others leave the keys alone, and  *)
(* of seen they change at most lf and touched.                             *)
LEMMA OthersKeepKeys ==
  ASSUME SeenType, BootCore \/ (\E c \in Core : CoreInit(c))
  PROVE  /\ UNCHANGED keys
         /\ SeenType' /\ seen'.one_up = seen.one_up /\ seen'.fake = seen.fake
<1>1. CASE \E c \in Core : CoreInit(c)
  BY <1>1 DEF CoreInit, SeenType
<1>2. CASE BootCore
  <2> USE DEF SeenType
  <2>1. CASE VideoInit \/ InitIdt \/ VmmInit \/ KeyboardInit
    BY <2>1 DEF VideoInit, InitIdt, VmmInit, KeyboardInit
  <2>2. CASE RouteIsa \/ RouteIsos \/ MaskLines \/ UnmaskKeyboard \/ LocalApic \/ Sti
    BY <2>2 DEF RouteIsa, RouteIsos, MaskLines, ApicStep, UnmaskKeyboard, LocalApic, Sti
  <2>3. CASE NewLine \/ Glyph \/ IncrementX \/ LoadY \/ CharDone \/ PrintDone
    BY <2>3 DEF NewLine, Glyph, IncrementX, LoadY, Load, CharDone, PrintDone
  <2>4. CASE CarriageReturn \/ StoreX \/ NoWrap \/ Wrap \/ StoreY \/ Pixel \/ NextRow
    BY <2>4 DEF CarriageReturn, StoreX, NoWrap, Wrap, StoreY, Pixel, NextRow, PrintStep, RectStep
  <2>5. CASE LineFeed
    BY <2>5 DEF LineFeed, PrintStep
  <2>6. CASE InsideScreen \/ ClearScreen \/ Rect
    BY <2>6 DEF InsideScreen, ClearScreen, Rect, PrintStep, RectStep
  <2>7. CASE RectDone
    BY <2>7 DEF RectDone, PrintStep
  <2>8. CASE BootstrapCore \/ AllReleased \/ PassBarrier
    BY <2>8 DEF BootstrapCore, AllReleased, PassBarrier
  <2> QED  BY <1>2, <2>1, <2>2, <2>3, <2>4, <2>5, <2>6, <2>7, <2>8 DEF BootCore, PrintChar
<1> QED  BY <1>1, <1>2

LEMMA StepKeys == KeyInv /\ [Next]_vars => KeyInv'
<1> SUFFICES ASSUME KeyInv, [Next]_vars PROVE KeyInv'
  OBVIOUS
<1>1. CASE UNCHANGED vars
  BY <1>1 DEF vars, KeyInv, SeenType, ShiftHeld
<1>2. CASE BootCore \/ (\E c \in Core : CoreInit(c))
  BY <1>2, OthersKeepKeys DEF KeyInv, ShiftHeld, keys
<1>3. ASSUME NEW k, PressShift(k)
      PROVE  KeyInv'
  <2>1. /\ held' = held \cup {k} /\ state'.shift = TRUE
        /\ seen'.one_up = FALSE /\ seen'.fake = FALSE
        /\ state' = [shift |-> state'.shift, caps |-> state'.caps] /\ SeenType'
    BY <1>3 DEF PressShift, KeyInv, SeenType
  <2> QED  BY <2>1 DEF KeyInv, ShiftHeld
<1>4. ASSUME NEW k, ReleaseShift(k)
      PROVE  KeyInv'
  <2>1. /\ held' = held \ {k} /\ k \in held /\ state'.shift = FALSE
        /\ state' = [shift |-> state'.shift, caps |-> state'.caps]
    BY <1>4 DEF ReleaseShift, KeyInv
  <2>2. SeenType' /\ seen'.one_up = (held # {k}) /\ seen'.fake = FALSE
    BY <1>4 DEF ReleaseShift, KeyInv, SeenType
  <2> QED  BY <2>1, <2>2 DEF KeyInv, ShiftHeld
<1>5. CASE PressCaps
  <2>1. /\ UNCHANGED held /\ state'.shift = state.shift
        /\ seen'.one_up = seen.one_up /\ seen'.fake = seen.fake
        /\ state' = [shift |-> state'.shift, caps |-> state'.caps] /\ SeenType'
    BY <1>5 DEF PressCaps, KeyInv, SeenType
  <2> QED  BY <2>1 DEF KeyInv, ShiftHeld
<1>6. ASSUME NEW scancode, PressKey(scancode)
      PROVE  KeyInv'
  <2>1. PICK char \in {"glyph", "newline"} :
          seen' = [seen EXCEPT !.lf = char = "newline", !.touched = print.at = "pixel"]
    BY <1>6 DEF PressKey
  <2>2. SeenType' /\ seen'.one_up = seen.one_up /\ seen'.fake = seen.fake
    BY <2>1 DEF KeyInv, SeenType
  <2>3. UNCHANGED <<state, held>>
    BY <1>6 DEF PressKey, keys
  <2> QED  BY <2>2, <2>3 DEF KeyInv, ShiftHeld
<1>7. ASSUME NEW down \in BOOLEAN, FakeShift(down)
      PROVE  KeyInv'
  <2>1. state'.shift = down /\ state' = [shift |-> state'.shift, caps |-> state'.caps]
    BY <1>7 DEF FakeShift, KeyInv
  <2>2. SeenType' /\ seen'.fake = TRUE
    BY <1>7 DEF FakeShift, KeyInv, SeenType
  <2> QED  BY <2>1, <2>2 DEF KeyInv, ShiftHeld
<1>8. CASE ReleaseKey
  <2>1. UNCHANGED <<state, held>> /\ seen'.one_up = seen.one_up /\ seen'.fake = seen.fake /\ SeenType'
    BY <1>8 DEF ReleaseKey, keys, KeyInv, SeenType
  <2> QED  BY <2>1 DEF KeyInv, ShiftHeld
<1> QED  BY <1>1, <1>2, <1>3, <1>4, <1>5, <1>6, <1>7, <1>8 DEF Next, Keyboard

LEMMA SpecKeys == Spec => []KeyInv
<1>1. Init => KeyInv
  BY DEF Init, KeyInv, SeenType, ShiftHeld
<1> QED  BY <1>1, StepKeys, PTL DEF Spec

(* Whatever the boot core does between two scancodes, the shift bit says   *)
(* that a shift key is down, but for one of two that came up and for the   *)
(* shift that other keys send.                                             *)
THEOREM KeysShiftHeld == Spec => []ShiftHeld
<1>1. KeyInv => ShiftHeld
  BY DEF KeyInv
<1> QED  BY <1>1, SpecKeys, PTL

-----------------------------------------------------------------------------
(* The screen                                                              *)

ScreenType ==
  /\ cursor_x \in Nat /\ cursor_y \in Nat
  /\ print = [at |-> print.at, text |-> print.text, reg |-> print.reg] /\ print.reg \in Nat
  /\ rect = [h |-> rect.h, w |-> rect.w, painted |-> rect.painted]
  /\ rect.h \in Nat /\ rect.w \in Nat

(* After which accesses of print_char a coordinate is known to be good.    *)
XKnown == {"next", "load_y", "store_y", "bottom", "done"}
YKnown == {"next", "cr", "done"}

CursorInv ==
  /\ print.at # "next" => pc \in {"before", "after"}
  /\ print.at \in XKnown => cursor_x < Width
  /\ print.at \in YKnown => cursor_y < Height \/ seen.lf = TRUE

(* What the loops of rect have painted, when no key moved their cursor.    *)
RectInv ==
  /\ print.at # "pixel" => seen.touched = FALSE
  /\ print.at = "rect" => rect.h = 0 /\ rect.w = 0 /\ rect.painted = {}
  /\ print.at = "pixel" /\ seen.touched = FALSE =>
       /\ print.reg = 0 /\ cursor_x = rect.w /\ cursor_y = rect.h
       /\ rect.w <= Width /\ rect.h <= Height /\ (rect.h = Height => rect.w = 0)
       /\ rect.painted = 0 .. rect.h * Width + rect.w - 1

ScreenInv == SeenType /\ ScreenType /\ CursorInv /\ RectInv

LEMMA Sizes ==
  /\ Width \in Nat /\ Height \in Nat /\ Advance \in Nat /\ Line \in Nat
  /\ 0 < Width /\ 0 < Height /\ Width < Modulus /\ Height < Modulus
BY BootAssumption

LEMMA Unsigned ==
  ASSUME NEW n \in Nat
  PROVE  uint16(n) \in Nat /\ (n < Modulus => uint16(n) = n)
<1>1. Modulus \in Nat /\ 0 < Modulus
  BY SMT DEF Modulus
<1> QED  BY <1>1, SMT DEF uint16

(* What the stub gives back to print_char: another argument, and nothing   *)
(* else of it changes.                                                     *)
LEMMA StubKeeps ==
  ASSUME ScreenInv, StubReturns
  PROVE  /\ print' = [at |-> print.at, text |-> print'.text, reg |-> print'.reg] /\ print'.reg \in Nat
         /\ print.at \notin {"call", "rect"} => print'.reg = print.reg
<1>0. \A a \in Stray : a \in Nat
  BY BootAssumption
<1> USE DEF ScreenInv, ScreenType
<1>1. CASE UNCHANGED print
  BY <1>1
<1>2. ASSUME NEW a \in Stray, print' = [print EXCEPT !.reg = a], print.at \in {"call", "rect"}
      PROVE  print' = [at |-> print.at, text |-> print'.text, reg |-> print'.reg] /\ print'.reg \in Nat
  BY <1>0, <1>2
<1>3. CASE print' = [print EXCEPT !.text = <<"glyph">> \o Tail(@)]
  BY <1>3
<1> QED  BY <1>1, <1>2, <1>3 DEF StubReturns

(* isr_keyboard leaves a cursor that is good for every access.             *)
LEMMA TypedGood ==
  ASSUME ScreenInv, NEW scancode, PressKey(scancode)
  PROVE  ScreenInv'
<1> USE Sizes
<1>1. PICK char \in {"glyph", "newline"} :
        /\ Typed(char)
        /\ seen' = [seen EXCEPT !.lf = char = "newline", !.touched = print.at = "pixel"]
  BY DEF PressKey
<1>2. /\ print' = [at |-> print.at, text |-> print'.text, reg |-> print'.reg] /\ print'.reg \in Nat
      /\ UNCHANGED <<rect, pc>>
  BY StubKeeps DEF PressKey, Interrupt
<1>3. SeenType' /\ seen'.lf = (char = "newline") /\ seen'.touched = (print.at = "pixel")
  BY <1>1 DEF ScreenInv, SeenType
<1>4. /\ cursor_x' \in Nat /\ cursor_y' \in Nat
      /\ cursor_x' < Width /\ (cursor_y' < Height \/ char = "newline")
  <2>1. uint16(cursor_x + Advance) \in Nat /\ uint16(cursor_y + Line) \in Nat
    BY Unsigned DEF ScreenInv, ScreenType
  <2> QED  BY <1>1, <2>1 DEF Typed, ScreenInv, ScreenType
<1>7. print'.at = print.at
  BY <1>2
<1>5. CursorInv'
  <2>1. print.at # "next" => pc' \in {"before", "after"}
    BY <1>2 DEF CursorInv, ScreenInv
  <2>2. cursor_y' < Height \/ seen'.lf = TRUE
    BY <1>3, <1>4
  <2> QED  BY <1>4, <1>7, <2>1, <2>2 DEF CursorInv
<1>6. RectInv'
  <2>1. print.at = "rect" => rect'.h = 0 /\ rect'.w = 0 /\ rect'.painted = {}
    BY <1>2 DEF RectInv, ScreenInv
  <2>2. IF print.at = "pixel" THEN seen'.touched = TRUE ELSE seen'.touched = FALSE
    BY <1>3
  <2> QED  BY <1>7, <2>1, <2>2 DEF RectInv
<1> QED  BY <1>2, <1>3, <1>4, <1>5, <1>6 DEF ScreenInv, ScreenType

(* The steps of print_char.                                                *)
LEMMA PrintGood ==
  ASSUME ScreenInv, PrintChar
  PROVE  ScreenType' /\ CursorInv' /\ RectInv'
<1> USE Sizes
<1> USE DEF ScreenInv, ScreenType, CursorInv, XKnown, YKnown
<1>m. Modulus \in Nat
  BY SMT DEF Modulus
<1>0. ASSUME print.at # "pixel", UNCHANGED seen \/ seen' = [seen EXCEPT !.lf = TRUE]
                                                \/ seen' = [seen EXCEPT !.lf = FALSE]
      PROVE  seen'.touched = FALSE
  BY <1>0 DEF RectInv, SeenType
<1>1. CASE NewLine
  BY <1>0, <1>1 DEF NewLine, Load, RectInv
<1>2. CASE LineFeed
  <2>1. /\ print' = [at |-> "cr", text |-> print.text, reg |-> 0] /\ print.at = "lf"
        /\ cursor_y' = uint16(print.reg + Line) /\ seen' = [seen EXCEPT !.lf = TRUE]
        /\ UNCHANGED <<cursor_x, rect, pc>>
    BY <1>2 DEF LineFeed, PrintStep
  <2>2. seen'.lf = TRUE /\ seen'.touched = FALSE
    BY <1>0, <2>1 DEF SeenType
  <2>3. cursor_y' \in Nat
    BY <2>1, Unsigned
  <2> QED  BY <2>1, <2>2, <2>3 DEF RectInv
<1>3. CASE CarriageReturn
  BY <1>0, <1>3 DEF CarriageReturn, PrintStep, RectInv
<1>4. CASE Glyph
  BY <1>0, <1>4 DEF Glyph, Load, RectInv
<1>16. CASE IncrementX
  <2>1. /\ print' = [at |-> "store_x", text |-> print.text, reg |-> cursor_x + print.reg]
        /\ print.at = "call" /\ pc \in {"before", "after"}
        /\ UNCHANGED <<cursor_x, cursor_y, rect, seen, pc>>
    BY <1>16 DEF IncrementX, Load
  <2>2. RectInv'
    BY <1>0, <2>1 DEF RectInv
  <2> QED  BY <2>1, <2>2
<1>5. CASE StoreX
  <2>1. /\ print' = [at |-> "right", text |-> print.text, reg |-> 0] /\ print.at = "store_x"
        /\ cursor_x' = uint16(print.reg) /\ UNCHANGED <<cursor_y, rect, seen, pc>>
    BY <1>5 DEF StoreX, PrintStep
  <2>3. cursor_x' \in Nat
    BY <2>1, Unsigned
  <2>2. RectInv'
    BY <1>0, <2>1 DEF RectInv
  <2> QED  BY <2>1, <2>2, <2>3
<1>6. CASE NoWrap
  BY <1>0, <1>6 DEF NoWrap, PrintStep, RectInv
<1>7. CASE Wrap
  BY <1>0, <1>7 DEF Wrap, PrintStep, RectInv
<1>8. CASE LoadY
  BY <1>0, <1>8 DEF LoadY, Load, RectInv
<1>9. CASE StoreY
  <2>1. /\ print' = [at |-> "bottom", text |-> print.text, reg |-> 0] /\ print.at = "store_y"
        /\ cursor_y' = uint16(print.reg + Line) /\ UNCHANGED <<cursor_x, rect, seen, pc>>
    BY <1>9 DEF StoreY, PrintStep
  <2>2. RectInv'
    BY <1>0, <2>1 DEF RectInv
  <2>3. cursor_y' \in Nat
    BY <2>1, Unsigned
  <2> QED  BY <2>1, <2>2, <2>3
<1>10. CASE InsideScreen
  BY <1>0, <1>10 DEF InsideScreen, PrintStep, RectInv
<1>11. CASE ClearScreen
  BY <1>0, <1>11 DEF ClearScreen, PrintStep, RectInv
<1>17. CASE Rect
  <2>1. /\ print' = [at |-> "pixel", text |-> print.text, reg |-> print.reg] /\ print.at = "rect"
        /\ cursor_x' = print.reg /\ cursor_y' = 0 /\ UNCHANGED <<rect, pc>>
        /\ pc \in {"before", "after"}
    BY <1>17 DEF Rect, RectStep
  <2>2. seen'.touched = (print.reg # 0)
    BY <1>17 DEF Rect, SeenType
  <2>3. 0 * Width + 0 - 1 = -1 /\ 0 .. -1 = {}
    OBVIOUS
  <2>4. rect.h = 0 /\ rect.w = 0 /\ rect.painted = {}
    BY <2>1 DEF RectInv
  <2>5. rect'.painted = 0 .. rect'.h * Width + rect'.w - 1
    BY <2>1, <2>3, <2>4
  <2>6. ASSUME seen'.touched = FALSE
        PROVE  /\ print'.reg = 0 /\ cursor_x' = rect'.w /\ cursor_y' = rect'.h
               /\ rect'.w <= Width /\ rect'.h <= Height /\ (rect'.h = Height => rect'.w = 0)
    <3>1. print.reg = 0
      BY <2>2, <2>6
    <3> QED  BY <2>1, <2>4, <3>1
  <2>7. print'.at = "pixel"
    BY <2>1
  <2>8. RectInv'
    BY <2>5, <2>6, <2>7 DEF RectInv
  <2> QED  BY <2>1, <2>8
<1>12. CASE Pixel
  <2>1. /\ cursor_x' = uint16(cursor_x + 1) /\ rect.w < Width /\ rect.h < Height
        /\ UNCHANGED <<cursor_y, seen, pc>>
        /\ print' = [at |-> "pixel", text |-> print.text, reg |-> print.reg] /\ print.at = "pixel"
    BY <1>12 DEF Pixel, RectStep
  <2> DEFINE b == cursor_y * Width + cursor_x
  <2> HIDE DEF b
  <2>2. rect' = [h |-> rect.h, w |-> rect.w + 1, painted |-> rect.painted \cup {b}]
    BY <1>12 DEF b, Pixel
  <2>3. ScreenType' /\ CursorInv'
    BY <2>1, <2>2, Unsigned
  <2>4. ASSUME seen.touched = FALSE
        PROVE  rect'.painted = 0 .. rect'.h * Width + rect'.w - 1
    <3> DEFINE a == rect.h * Width
    <3>1. a \in Nat
      OBVIOUS
    <3>2. rect.painted = 0 .. a + rect.w - 1 /\ b = a + rect.w
      BY <2>1, <2>4 DEF RectInv, b
    <3>3. rect'.h * Width = a /\ rect'.w = rect.w + 1
      BY <2>2
    <3> HIDE DEF a
    <3>4. 0 .. a + (rect.w + 1) - 1 = (0 .. a + rect.w - 1) \cup {a + rect.w}
      BY <3>1
    <3> QED  BY <2>2, <3>2, <3>3, <3>4
  <2>5. seen.touched = FALSE => print.reg = 0 /\ cursor_x' = rect.w + 1 /\ cursor_y = rect.h
    <3> SUFFICES ASSUME seen.touched = FALSE PROVE print.reg = 0 /\ cursor_x' = rect.w + 1 /\ cursor_y = rect.h
      OBVIOUS
    <3>1. print.reg = 0 /\ cursor_x = rect.w /\ cursor_y = rect.h
      BY <2>1 DEF RectInv
    <3>2. rect.w + 1 \in Nat /\ rect.w + 1 < Modulus
      BY <2>1, <1>m
    <3> QED  BY <2>1, <3>1, <3>2, Unsigned
  <2>6. RectInv'
    <3> SUFFICES ASSUME seen'.touched = FALSE
                 PROVE  /\ print'.reg = 0 /\ cursor_x' = rect'.w /\ cursor_y' = rect'.h
                        /\ rect'.w <= Width /\ rect'.h <= Height
                        /\ rect'.h = Height => rect'.w = 0
      BY <2>1, <2>4 DEF RectInv
    <3> QED  BY <2>1, <2>2, <2>5
  <2> QED  BY <2>3, <2>6
<1>13. CASE NextRow
  <2>1. /\ rect' = [h |-> rect.h + 1, w |-> 0, painted |-> rect.painted]
        /\ cursor_x' = print.reg /\ cursor_y' = uint16(cursor_y + 1) /\ rect.w = Width /\ rect.h < Height
        /\ UNCHANGED <<seen, pc>>
        /\ print' = [at |-> "pixel", text |-> print.text, reg |-> print.reg] /\ print.at = "pixel"
    BY <1>13 DEF NextRow, RectStep
  <2>2. (rect.h + 1) * Width + 0 - 1 = rect.h * Width + Width - 1
    OBVIOUS
  <2>3. cursor_y' \in Nat
    BY <2>1, Unsigned
  <2>4. ASSUME seen.touched = FALSE PROVE cursor_y' = rect.h + 1 /\ print.reg = 0
    <3>1. print.reg = 0 /\ cursor_y = rect.h
      BY <2>1, <2>4 DEF RectInv
    <3>2. rect.h + 1 \in Nat /\ rect.h + 1 < Modulus
      BY <2>1, <1>m
    <3> QED  BY <2>1, <3>1, <3>2, Unsigned
  <2>5. ASSUME seen'.touched = FALSE
        PROVE  /\ print'.reg = 0 /\ cursor_x' = rect'.w /\ cursor_y' = rect'.h
               /\ rect'.w <= Width /\ rect'.h <= Height /\ (rect'.h = Height => rect'.w = 0)
               /\ rect'.painted = 0 .. rect'.h * Width + rect'.w - 1
    <3>1. seen.touched = FALSE /\ rect.painted = 0 .. rect.h * Width + rect.w - 1
      BY <2>1, <2>5 DEF RectInv
    <3>2. rect'.h = rect.h + 1 /\ rect'.w = 0 /\ print'.reg = print.reg
      BY <2>1
    <3>3. rect'.painted = 0 .. (rect.h + 1) * Width + 0 - 1
      BY <2>1, <2>2, <3>1
    <3>4. cursor_y' = rect.h + 1 /\ print.reg = 0
      BY <2>4, <3>1
    <3>5. rect.h + 1 <= Height
      BY <2>1
    <3> QED  BY <2>1, <3>2, <3>3, <3>4, <3>5
  <2>6. print'.at = "pixel"
    BY <2>1
  <2>7. RectInv'
    BY <2>5, <2>6 DEF RectInv
  <2>8. ScreenType' /\ CursorInv'
    BY <2>1, <2>3
  <2> QED  BY <2>7, <2>8
<1>14. CASE RectDone
  BY <1>14 DEF RectDone, PrintStep, SeenType, RectInv
<1>15. CASE CharDone
  BY <1>0, <1>15 DEF CharDone, RectInv
<1> QED  BY <1>1, <1>2, <1>3, <1>4, <1>5, <1>6, <1>7, <1>8, <1>9, <1>10, <1>11, <1>12, <1>13,
            <1>14, <1>15, <1>16, <1>17 DEF PrintChar

LEMMA StepScreen == ScreenInv /\ [Next]_vars => ScreenInv'
<1> SUFFICES ASSUME ScreenInv, [Next]_vars PROVE ScreenInv'
  OBVIOUS
<1> USE DEF ScreenInv
<1>1. CASE UNCHANGED vars
  BY <1>1 DEF vars, SeenType, ScreenType, CursorInv, RectInv
<1>2. ASSUME NEW scancode, PressKey(scancode)
      PROVE  ScreenInv'
  BY <1>2, TypedGood
<1>3. ASSUME UNCHANGED <<cursor_x, cursor_y, print, rect>>, UNCHANGED pc \/ print.at = "next",
             SeenType', seen'.lf = seen.lf, seen'.touched = seen.touched
      PROVE  ScreenInv'
  BY <1>3 DEF ScreenType, CursorInv, RectInv
<1>4. ASSUME NEW k, NEW down \in BOOLEAN,
             PressShift(k) \/ ReleaseShift(k) \/ FakeShift(down) \/ ReleaseKey \/ PressCaps
      PROVE  ScreenInv'
  <2>1. UNCHANGED <<cursor_x, cursor_y, rect, pc>> /\ StubReturns
    BY <1>4 DEF PressShift, ReleaseShift, FakeShift, ReleaseKey, PressCaps, Interrupt
  <2>2. SeenType' /\ seen'.lf = seen.lf /\ seen'.touched = seen.touched
    BY <1>4 DEF PressShift, ReleaseShift, FakeShift, ReleaseKey, PressCaps, SeenType
  <2>3. /\ print' = [at |-> print.at, text |-> print'.text, reg |-> print'.reg] /\ print'.reg \in Nat
        /\ print.at \notin {"call", "rect"} => print'.reg = print.reg
    BY <2>1, StubKeeps
  <2>4. ScreenType' /\ CursorInv'
    BY <2>1, <2>2, <2>3 DEF ScreenType, CursorInv
  <2>5. RectInv'
    BY <2>1, <2>2, <2>3 DEF RectInv
  <2> QED  BY <2>2, <2>4, <2>5
<1>5. CASE BootCore /\ PrintChar
  BY <1>5, PrintGood, OthersKeepKeys
<1>6. CASE BootCore /\ ~PrintChar
  <2>1. SeenType'
    BY <1>6, OthersKeepKeys
  <2>2. CASE VideoInit
    <3>1. UNCHANGED <<print, rect, seen>> /\ cursor_x' = 0 /\ cursor_y' = 0
      BY <2>2 DEF VideoInit
    <3>2. print.at = "next"
      BY <2>2 DEF VideoInit, CursorInv
    <3>3. ScreenType' /\ CursorInv'
      BY <3>1, <3>2, Sizes DEF ScreenType, CursorInv
    <3> QED  BY <2>1, <3>1, <3>2, <3>3 DEF RectInv
  <2>3. CASE InitIdt \/ VmmInit \/ KeyboardInit \/ RouteIsa \/ RouteIsos \/ MaskLines
             \/ UnmaskKeyboard \/ LocalApic
    BY <1>3, <2>1, <2>3 DEF CursorInv, InitIdt, VmmInit, KeyboardInit, RouteIsa, RouteIsos, MaskLines,
                            ApicStep, UnmaskKeyboard, LocalApic, screen
  <2>4. CASE Sti \/ PassBarrier
    BY <2>1, <2>4 DEF Sti, PassBarrier, ScreenType, CursorInv, RectInv
  <2>5. CASE PrintDone \/ BootstrapCore \/ AllReleased
    BY <1>3, <2>1, <2>5 DEF CursorInv, PrintDone, BootstrapCore, AllReleased, screen
  <2> QED  BY <1>6, <2>2, <2>3, <2>4, <2>5 DEF BootCore
<1>7. ASSUME NEW c \in Core, CoreInit(c)
      PROVE  ScreenInv'
  BY <1>3, <1>7, OthersKeepKeys DEF CoreInit, screen
<1> QED  BY <1>1, <1>2, <1>4, <1>5, <1>6, <1>7 DEF Next, Keyboard

LEMMA SpecScreen == Spec => []ScreenInv
<1>1. Init => ScreenInv
  BY Sizes DEF Init, ScreenInv, SeenType, ScreenType, CursorInv, RectInv, XKnown, YKnown
<1> QED  BY <1>1, StepScreen, PTL DEF Spec

(* Keys typed between any two accesses of print_char, and any arguments    *)
(* they replace in it, leave the cursor on the screen, a line feed apart,  *)
(* and a screen that was cleared in peace was painted exactly.             *)
THEOREM ScreenIsKept == Spec => []ScreenKept
<1>1. ScreenInv => ScreenKept
  <2>1. Height * Width + 0 - 1 = Width * Height - 1
    BY Sizes
  <2> QED  BY <2>1 DEF ScreenInv, SeenType, CursorInv, RectInv, XKnown, YKnown, ScreenKept
<1> QED  BY <1>1, SpecScreen, PTL

-----------------------------------------------------------------------------
(* The redirection tables and the cores                                    *)

MachineOK == \E m \in Machines : madt = m.madt /\ smp = m.smp

Late == {"sti", "before", "bootstrap", "barrier", "after", "sched"}
PC == {"video", "idt", "vmm", "keyboard", "isa", "isos", "mask", "unmask"} \cup Late

TableType ==
  /\ DOMAIN table = DOMAIN ioapics
  /\ \A n \in DOMAIN ioapics :
       table[n] \in [0 .. ioapics[n].max ->
                       [vector : Nat, flags : SUBSET {"low", "level"}, masked : BOOLEAN]]

(* An IO APIC that is done has no open line but the keyboard's and the     *)
(* ones that the masking loop does not reach.                              *)
Quiet(n) ==
  \A e \in 0 .. ioapics[n].max :
    table[n][e].masked = FALSE => table[n][e].vector = 33 \/ Unreached(n, e)

(* While IO APIC i is being set up: its entry 1, if it has one, leads to   *)
(* the keyboard's handler from the ISA lines on; after the masking loop    *)
(* the lines that are open are the ones the loop does not reach.           *)
SetUp ==
  /\ i \in DOMAIN ioapics
  /\ base = 0 /\ 1 <= max_gsi => table[i][1].vector = 33
  /\ pc = "unmask" => \A e \in 0 .. max_gsi : table[i][e].masked = FALSE => Unreached(i, e)

ApicInv ==
  /\ pc \in PC /\ i \in Nat /\ 1 <= i
  /\ pc \notin {"video", "idt", "vmm", "keyboard"} => 33 \in handlers
  /\ \A n \in DOMAIN ioapics : n < i /\ pc \notin Late => Quiet(n)
  /\ pc \in {"isos", "mask", "unmask"} => SetUp
  /\ pc \in Late => localApic = TRUE /\ smp.bsp \in apic_on /\ \A n \in DOMAIN ioapics : Quiet(n)

CoreInv ==
  /\ DOMAIN at = Core /\ DOMAIN gs = Core
  /\ pc \notin Late => released = {}
  /\ \A c \in Core : at[c] # "parked" => c \in released
  /\ pc = "bootstrap" /\ (\E k \in DOMAIN smp.smp_info : k < i /\ smp.smp_info[k] = smp.bsp) =>
       gs[smp.bsp] = smp.bsp
  /\ pc \in {"barrier", "after", "sched"} => gs[smp.bsp] = smp.bsp

RouteInv == MachineOK /\ TableType /\ ApicInv /\ CoreInv

LEMMA MachineFacts ==
  ASSUME MachineOK
  PROVE  /\ ioapics \in Seq([type : {"IOAPIC"}, gsib : Nat, max : 0 .. 119])
         /\ isos \in Seq([type : {"ISO"}, irq : 0 .. 255, gsi : Nat, flags : SUBSET {"low", "level"}])
         /\ \A k \in DOMAIN isos : isos[k].gsi = 1 => isos[k].irq = 1
         /\ smp.smp_info \in Seq(Nat)
         /\ smp.bsp \in Core
BY BootAssumption, FirmwareAssumption DEF MachineOK, ioapics, isos, Core

LEMMA IoapicFacts ==
  ASSUME MachineOK
  PROVE  /\ DOMAIN ioapics = 1 .. Len(ioapics) /\ Len(ioapics) \in Nat
         /\ \A n \in DOMAIN ioapics : ioapics[n].gsib \in Nat /\ ioapics[n].max \in 0 .. 119
<1> DEFINE R == [type : {"IOAPIC"}, gsib : Nat, max : 0 .. 119]
<1>1. ioapics \in Seq(R)
  BY MachineFacts
<1>2. DOMAIN ioapics = 1 .. Len(ioapics) /\ Len(ioapics) \in Nat
      /\ \A n \in DOMAIN ioapics : ioapics[n] \in R
  <2> HIDE DEF R
  <2> QED  BY <1>1
<1> QED  BY <1>2

LEMMA IsoFacts ==
  ASSUME MachineOK
  PROVE  /\ DOMAIN isos = 1 .. Len(isos) /\ Len(isos) \in Nat
         /\ \A k \in DOMAIN isos :
              isos[k] \in [type : {"ISO"}, irq : 0 .. 255, gsi : Nat, flags : SUBSET {"low", "level"}]
<1> DEFINE R == [type : {"ISO"}, irq : 0 .. 255, gsi : Nat, flags : SUBSET {"low", "level"}]
<1>1. isos \in Seq(R)
  BY MachineFacts
<1> HIDE DEF R
<1>2. DOMAIN isos = 1 .. Len(isos) /\ Len(isos) \in Nat /\ \A k \in DOMAIN isos : isos[k] \in R
  BY <1>1
<1> QED  BY <1>2 DEF R

(* A register number of eight bits is enough for the entries of a table.   *)
LEMMA EntryIs ==
  ASSUME MachineOK, i \in DOMAIN ioapics, NEW e \in 0 .. 119
  PROVE  EntryOf(base + e) = e
<1>1. base \in Nat
  BY IoapicFacts DEF base
<1>2. (base + e) - base = e
  BY <1>1
<1>3. (e * 2 + 16) % 256 = e * 2 + 16
  OBVIOUS
<1> QED  BY <1>2, <1>3 DEF EntryOf

(* The last of the lines that name an entry is one of them.                *)
LEMMA LastIn ==
  ASSUME NEW K \in SUBSET Nat, K # {}, NEW N \in Nat, \A k \in K : k <= N
  PROVE  (CHOOSE k \in K : \A j \in K : j <= k) \in K
<1> DEFINE S == {N - k : k \in K}
<1>1. S \in SUBSET Nat /\ S # {}
  <2>1. ASSUME NEW k \in K PROVE N - k \in Nat
    <3>1. k \in Nat /\ k <= N
      OBVIOUS
    <3> QED  BY <3>1
  <2>2. S \subseteq Nat
    BY <2>1
  <2> QED  BY <2>2
<1>2. PICK x \in S : \A y \in S : x <= y
  BY <1>1, Least
<1>3. PICK k \in K : x = N - k
  OBVIOUS
<1>4. \A j \in K : j <= k
  <2> TAKE j \in K
  <2>1. N - k <= N - j
    BY <1>2, <1>3
  <2> QED  BY <2>1
<1> QED  BY <1>3, <1>4

(* What calls of set_redirection leave in an entry: what was there, or one *)
(* of the lines that name it.                                              *)
Rewrites(t, r, u) ==
  /\ DOMAIN u = DOMAIN t
  /\ \A e \in DOMAIN t :
       \/ u[e] = t[e] /\ \A k \in DOMAIN r : EntryOf(r[k].gsi) # e
       \/ \E k \in DOMAIN r :
            /\ EntryOf(r[k].gsi) = e
            /\ u[e] = [vector |-> (r[k].irq + 32) % 256, flags |-> r[k].flags, masked |-> FALSE]

LEMMA Redirected ==
  ASSUME NEW t, NEW r, DOMAIN r \in SUBSET Nat, NEW N \in Nat, \A k \in DOMAIN r : k <= N
  PROVE  Rewrites(t, r, set_redirection(t, r))
<1> DEFINE u == set_redirection(t, r)
<1>1. DOMAIN u = DOMAIN t
  BY DEF set_redirection
<1>2. ASSUME NEW e \in DOMAIN t
      PROVE  \/ u[e] = t[e] /\ \A k \in DOMAIN r : EntryOf(r[k].gsi) # e
             \/ \E k \in DOMAIN r :
                  /\ EntryOf(r[k].gsi) = e
                  /\ u[e] = [vector |-> (r[k].irq + 32) % 256, flags |-> r[k].flags, masked |-> FALSE]
  <2> DEFINE K == {k \in DOMAIN r : EntryOf(r[k].gsi) = e}
             last == CHOOSE k \in K : \A j \in K : j <= k
  <2>1. u[e] = IF K = {} THEN t[e]
               ELSE [vector |-> (r[last].irq + 32) % 256, flags |-> r[last].flags, masked |-> FALSE]
    BY DEF set_redirection
  <2>2. K # {} => last \in K
    BY LastIn
  <2> QED  BY <2>1, <2>2
<1> HIDE DEF u
<1>3. Rewrites(t, r, u)
  BY <1>1, <1>2 DEF Rewrites
<1> QED  BY <1>3 DEF u

(* Lines of the right types keep the type of a table.                      *)
LEMMA RewritesType ==
  ASSUME NEW t, NEW r, NEW u, NEW D, Rewrites(t, r, u), u = [e \in DOMAIN u |-> u[e]],
         t \in [D -> [vector : Nat, flags : SUBSET {"low", "level"}, masked : BOOLEAN]],
         \A k \in DOMAIN r : r[k].irq \in Nat /\ r[k].flags \in SUBSET {"low", "level"}
  PROVE  u \in [D -> [vector : Nat, flags : SUBSET {"low", "level"}, masked : BOOLEAN]]
<1> DEFINE E == [vector : Nat, flags : SUBSET {"low", "level"}, masked : BOOLEAN]
<1>1. ASSUME NEW e \in D
      PROVE  u[e] \in E
  <2>1. CASE u[e] = t[e]
    BY <2>1
  <2>2. ASSUME NEW k \in DOMAIN r,
               u[e] = [vector |-> (r[k].irq + 32) % 256, flags |-> r[k].flags, masked |-> FALSE]
        PROVE  u[e] \in E
    <3>1. (r[k].irq + 32) % 256 \in Nat /\ r[k].flags \in SUBSET {"low", "level"}
      OBVIOUS
    <3> QED  BY <2>2, <3>1
  <2>3. e \in DOMAIN t
    OBVIOUS
  <2> QED  BY <2>1, <2>2, <2>3 DEF Rewrites
<1>2. DOMAIN u = D
  BY DEF Rewrites
<1> HIDE DEF E
<1>3. u \in [D -> E]
  BY <1>1, <1>2
<1> QED  BY <1>3 DEF E

(* A step of the setup of IO APIC i leaves the other tables alone.         *)
LEMMA ApicFrame ==
  ASSUME RouteInv, NEW from, NEW to, NEW t, ApicStep(from, to, t),
         pc \in {"isa", "isos", "mask"}, to \in {"isos", "mask", "unmask"},
         t \in [0 .. max_gsi -> [vector : Nat, flags : SUBSET {"low", "level"}, masked : BOOLEAN]],
         base = 0 /\ 1 <= max_gsi => t[1].vector = 33,
         to = "unmask" => \A e \in 0 .. max_gsi : t[e].masked = FALSE => Unreached(i, e)
  PROVE  RouteInv'
<1>1. i \in DOMAIN ioapics
  BY IoapicFacts DEF RouteInv, ApicInv, ApicStep
<1>2. /\ pc' = to /\ table' = [table EXCEPT ![i] = t]
      /\ UNCHANGED <<madt, smp, i, handlers, localApic, apic_on, gs, released, at, cpus>>
  BY DEF ApicStep, inputs, cores
<1>3. UNCHANGED <<ioapics, isos, Core, base, max_gsi>>
  BY <1>2 DEF ioapics, isos, Core, base, max_gsi
<1>4. /\ DOMAIN table' = DOMAIN ioapics /\ table'[i] = t
      /\ \A n \in DOMAIN ioapics : n # i => table'[n] = table[n]
  BY <1>1, <1>2 DEF RouteInv, TableType
<1>5. MachineOK'
  BY <1>2 DEF RouteInv, MachineOK
<1>6. TableType'
  BY <1>3, <1>4 DEF RouteInv, TableType, max_gsi
<1>7. \A n \in DOMAIN ioapics : \A e : Unreached(n, e)' <=> Unreached(n, e)
  BY <1>3 DEF Unreached
<1>8. ASSUME NEW n \in DOMAIN ioapics, n < i
      PROVE  Quiet(n)'
  <2>1. n # i /\ Quiet(n)
    BY <1>8 DEF RouteInv, ApicInv, Late
  <2> QED  BY <1>3, <1>4, <1>7, <2>1 DEF Quiet
<1>9. SetUp'
  BY <1>1, <1>2, <1>3, <1>4, <1>7 DEF SetUp
<1>10. ApicInv'
  BY <1>2, <1>3, <1>8, <1>9 DEF RouteInv, ApicInv, PC, Late
<1>11. CoreInv'
  BY <1>2, <1>3 DEF RouteInv, CoreInv, Late
<1> QED  BY <1>5, <1>6, <1>10, <1>11 DEF RouteInv

(* What the setup of IO APIC i starts from.                                *)
LEMMA ApicStart ==
  ASSUME RouteInv, i <= Len(ioapics)
  PROVE  /\ i \in DOMAIN ioapics /\ base \in Nat /\ max_gsi \in 0 .. 119
         /\ table[i] \in [0 .. max_gsi ->
                            [vector : Nat, flags : SUBSET {"low", "level"}, masked : BOOLEAN]]
<1>1. i \in DOMAIN ioapics
  BY IoapicFacts DEF RouteInv, ApicInv
<1> QED  BY <1>1, IoapicFacts DEF RouteInv, TableType, base, max_gsi

LEMMA RouteIsaGood ==
  ASSUME RouteInv, RouteIsa
  PROVE  RouteInv'
<1> DEFINE E == [vector : Nat, flags : SUBSET {"low", "level"}, masked : BOOLEAN]
           u == set_redirection(table[i], IsaLines)
           t == IF base # 0 THEN table[i] ELSE u
<1>1. i <= Len(ioapics) /\ ApicStep("isa", "isos", t) /\ pc = "isa"
  BY DEF RouteIsa, ApicStep
<1>2. i \in DOMAIN ioapics /\ base \in Nat /\ max_gsi \in 0 .. 119 /\ table[i] \in [0 .. max_gsi -> E]
  BY <1>1, ApicStart
<1>3. /\ DOMAIN IsaLines = 0 .. 15
      /\ \A k \in 0 .. 15 : IsaLines[k] = [irq |-> k, gsi |-> k, flags |-> {}]
  BY DEF IsaLines
<1>4. Rewrites(table[i], IsaLines, u)
  <2>1. DOMAIN IsaLines \in SUBSET Nat /\ \A k \in DOMAIN IsaLines : k <= 15
    BY <1>3
  <2> QED  BY <2>1, Redirected, 15 \in Nat
<1>5. u \in [0 .. max_gsi -> E]
  <2>1. u = [e \in DOMAIN u |-> u[e]]
    BY DEF set_redirection
  <2>2. \A k \in DOMAIN IsaLines : IsaLines[k].irq \in Nat /\ IsaLines[k].flags \in SUBSET {"low", "level"}
    BY <1>3
  <2> HIDE DEF u
  <2> QED  BY <1>2, <1>4, <2>1, <2>2, RewritesType
<1> HIDE DEF u
<1>6. ASSUME base = 0, 1 <= max_gsi
      PROVE  u[1].vector = 33
  <2>1. ASSUME NEW k \in 0 .. 15 PROVE EntryOf(IsaLines[k].gsi) = k
    <3>1. k \in 0 .. 119 /\ base + k = k /\ IsaLines[k].gsi = k
      BY <1>3, <1>6
    <3> QED  BY <1>2, <3>1, EntryIs DEF RouteInv
  <2>2. 1 \in 0 .. max_gsi /\ 1 \in 0 .. 15 /\ DOMAIN table[i] = 0 .. max_gsi
    BY <1>2, <1>6
  <2>3. PICK k \in DOMAIN IsaLines :
          /\ EntryOf(IsaLines[k].gsi) = 1
          /\ u[1] = [vector |-> (IsaLines[k].irq + 32) % 256, flags |-> IsaLines[k].flags, masked |-> FALSE]
    BY <1>3, <1>4, <2>1, <2>2 DEF Rewrites
  <2>4. k = 1
    BY <1>3, <2>1, <2>3
  <2> QED  BY <1>3, <2>2, <2>3, <2>4
<1>7. t \in [0 .. max_gsi -> E] /\ (base = 0 /\ 1 <= max_gsi => t[1].vector = 33)
  BY <1>2, <1>5, <1>6
<1> HIDE DEF t
<1> QED  BY <1>1, <1>7, ApicFrame

LEMMA RouteIsosGood ==
  ASSUME RouteInv, RouteIsos
  PROVE  RouteInv'
<1> DEFINE E == [vector : Nat, flags : SUBSET {"low", "level"}, masked : BOOLEAN]
           Here == {k \in DOMAIN isos : isos[k].gsi >= base /\ isos[k].gsi < base + max_gsi}
           r == [k \in Here |-> isos[k]]
           t == set_redirection(table[i], r)
<1>1. i <= Len(ioapics) /\ ApicStep("isos", "mask", t) /\ pc = "isos"
  BY DEF RouteIsos, ApicStep
<1>2. i \in DOMAIN ioapics /\ base \in Nat /\ max_gsi \in 0 .. 119 /\ table[i] \in [0 .. max_gsi -> E]
  BY <1>1, ApicStart
<1>3. /\ DOMAIN r = Here
      /\ \A k \in Here : /\ r[k] = isos[k] /\ k \in DOMAIN isos /\ k \in Nat /\ k <= Len(isos)
                         /\ isos[k].gsi < base + max_gsi
  BY IsoFacts DEF RouteInv
<1>4. \A k \in Here : /\ isos[k].irq \in Nat /\ isos[k].gsi \in Nat
                      /\ isos[k].flags \in SUBSET {"low", "level"}
  <2> TAKE k \in Here
  <2>1. isos[k].irq \in 0 .. 255 /\ isos[k].gsi \in Nat /\ isos[k].flags \in SUBSET {"low", "level"}
    BY IsoFacts DEF RouteInv
  <2> QED  BY <2>1
<1> HIDE DEF r, Here
<1>5. Rewrites(table[i], r, t)
  <2>1. DOMAIN r \in SUBSET Nat /\ \A k \in DOMAIN r : k <= Len(isos)
    BY <1>3
  <2>2. Len(isos) \in Nat
    BY IsoFacts DEF RouteInv
  <2> QED  BY <2>1, <2>2, Redirected
<1>6. t \in [0 .. max_gsi -> E]
  <2>1. t = [e \in DOMAIN t |-> t[e]]
    BY DEF set_redirection
  <2>2. \A k \in DOMAIN r : r[k].irq \in Nat /\ r[k].flags \in SUBSET {"low", "level"}
    BY <1>3, <1>4
  <2> HIDE DEF t
  <2> QED  BY <1>2, <1>5, <2>1, <2>2, RewritesType
<1> HIDE DEF t
<1>7. ASSUME base = 0, 1 <= max_gsi
      PROVE  t[1].vector = 33
  <2>1. ASSUME NEW k \in Here, EntryOf(r[k].gsi) = 1
        PROVE  r[k].irq = 1
    <3> DEFINE g == isos[k].gsi
    <3>1. g \in Nat /\ g < base + max_gsi
      BY <1>3, <1>4
    <3> HIDE DEF g
    <3>2. g \in 0 .. 119 /\ base + g = g
      BY <1>2, <1>7, <3>1
    <3>3. EntryOf(g) = g
      BY <1>2, <3>2, EntryIs DEF RouteInv
    <3>4. isos[k].gsi = 1
      BY <1>3, <2>1, <3>3 DEF g
    <3> QED  BY <1>3, <3>4, MachineFacts DEF RouteInv
  <2>2. 1 \in 0 .. max_gsi /\ table[i][1].vector = 33 /\ DOMAIN table[i] = 0 .. max_gsi
    BY <1>1, <1>2, <1>7 DEF RouteInv, ApicInv, SetUp
  <2>3. CASE t[1] = table[i][1]
    BY <2>2, <2>3
  <2>4. ASSUME NEW k \in DOMAIN r, EntryOf(r[k].gsi) = 1,
               t[1] = [vector |-> (r[k].irq + 32) % 256, flags |-> r[k].flags, masked |-> FALSE]
        PROVE  t[1].vector = 33
    BY <1>3, <2>1, <2>4
  <2> QED  BY <1>5, <2>2, <2>3, <2>4 DEF Rewrites
<1> QED  BY <1>1, <1>6, <1>7, ApicFrame

LEMMA MaskLinesGood ==
  ASSUME RouteInv, MaskLines
  PROVE  RouteInv'
<1> DEFINE E == [vector : Nat, flags : SUBSET {"low", "level"}, masked : BOOLEAN]
           t == mask_gsi(table[i], 0 .. max_gsi - 1)
<1>1. i <= Len(ioapics) /\ ApicStep("mask", "unmask", t) /\ pc = "mask"
  BY DEF MaskLines, ApicStep
<1>2. i \in DOMAIN ioapics /\ base \in Nat /\ max_gsi \in 0 .. 119 /\ table[i] \in [0 .. max_gsi -> E]
  BY <1>1, ApicStart
<1>3. /\ t = [e \in 0 .. max_gsi |-> t[e]]
      /\ \A e \in 0 .. max_gsi :
           /\ t[e] \in E /\ t[e].vector = table[i][e].vector
           /\ (\E g \in 0 .. max_gsi - 1 : e = EntryOf(g)) => t[e].masked = TRUE
  BY <1>2 DEF mask_gsi
<1> HIDE DEF t
<1>4. t \in [0 .. max_gsi -> E]
  <2> HIDE DEF E
  <2> QED  BY <1>3
<1>5. base = 0 /\ 1 <= max_gsi => t[1].vector = 33
  BY <1>1, <1>2, <1>3 DEF RouteInv, ApicInv, SetUp
<1>6. ASSUME NEW e \in 0 .. max_gsi, ~Unreached(i, e)
      PROVE  t[e].masked = TRUE
  <2>0. base \in Nat /\ max_gsi \in Nat /\ max_gsi <= 119 /\ e \in Nat /\ e <= max_gsi
    BY <1>2
  <2>1. base + e < max_gsi
    <3>1. IF base = 0 THEN e # max_gsi ELSE ~(base + e >= max_gsi)
      BY <1>6 DEF Unreached, base, max_gsi
    <3> QED  BY <2>0, <3>1
  <2>2. base + e \in 0 .. max_gsi - 1 /\ e \in 0 .. 119
    BY <2>0, <2>1
  <2>3. EntryOf(base + e) = e
    BY <1>2, <2>2, EntryIs DEF RouteInv
  <2> QED  BY <1>3, <2>2, <2>3
<1> QED  BY <1>1, <1>4, <1>5, <1>6, ApicFrame

LEMMA UnmaskGood ==
  ASSUME RouteInv, UnmaskKeyboard
  PROVE  RouteInv'
<1> DEFINE t == unmask_gsi(table[i], 1)
<1>1. /\ pc = "unmask" /\ pc' = "isa" /\ i' = i + 1
      /\ table' = IF base # 0 THEN table ELSE [table EXCEPT ![i] = t]
      /\ UNCHANGED <<madt, smp, handlers, localApic, apic_on, gs, released, at, cpus>>
  BY DEF UnmaskKeyboard, inputs, cores
<1>2. SetUp /\ i \in DOMAIN ioapics
  BY <1>1 DEF RouteInv, ApicInv, SetUp
<1>3. i <= Len(ioapics)
  BY <1>2, IoapicFacts DEF RouteInv
<1>4. UNCHANGED <<ioapics, isos, Core>>
  BY <1>1 DEF ioapics, isos, Core
<1>5. \A n \in DOMAIN ioapics : \A e : Unreached(n, e)' <=> Unreached(n, e)
  BY <1>4 DEF Unreached
<1> DEFINE E == [vector : Nat, flags : SUBSET {"low", "level"}, masked : BOOLEAN]
<1>6. base \in Nat /\ max_gsi \in 0 .. 119 /\ table[i] \in [0 .. max_gsi -> E]
  BY <1>3, ApicStart
<1>7. t \in [0 .. max_gsi -> E] /\ \A e \in 0 .. max_gsi : e # EntryOf(1) => t[e] = table[i][e]
  BY <1>6 DEF unmask_gsi
<1>8. \A e \in 0 .. max_gsi : t[e].vector = table[i][e].vector
  BY <1>6 DEF unmask_gsi
<1> HIDE DEF t
<1>9. /\ DOMAIN table' = DOMAIN ioapics
      /\ \A n \in DOMAIN ioapics : n # i => table'[n] = table[n]
      /\ table'[i] = IF base # 0 THEN table[i] ELSE t
  BY <1>1, <1>2 DEF RouteInv, TableType
<1>10. TableType'
  BY <1>4, <1>6, <1>7, <1>9 DEF RouteInv, TableType, max_gsi
<1>11. \A e \in 0 .. max_gsi : table'[i][e].masked = FALSE => table'[i][e].vector = 33 \/ Unreached(i, e)
  <2>1. \A e \in 0 .. max_gsi : table[i][e].masked = FALSE => Unreached(i, e)
    BY <1>1, <1>2 DEF SetUp
  <2>2. CASE base # 0
    BY <1>9, <2>1, <2>2
  <2>3. CASE base = 0
    <3> TAKE e \in 0 .. max_gsi
    <3>1. CASE e = EntryOf(1)
      <4>1. EntryOf(base + 1) = 1
        BY <1>2, EntryIs, 1 \in 0 .. 119 DEF RouteInv
      <4>2. base + 1 = 1
        BY <2>3
      <4>3. e = 1
        BY <3>1, <4>1, <4>2
      <4>4. 1 <= max_gsi
        BY <1>6, <4>3
      <4> QED  BY <1>2, <1>8, <1>9, <2>3, <4>3, <4>4 DEF SetUp
    <3>2. CASE e # EntryOf(1)
      BY <1>7, <1>9, <2>1, <2>3, <3>2
    <3> QED  BY <3>1, <3>2
  <2> QED  BY <2>2, <2>3
<1>12. ASSUME NEW n \in DOMAIN ioapics, n < i + 1
       PROVE  Quiet(n)'
  <2>1. CASE n = i
    BY <1>4, <1>5, <1>11, <2>1 DEF Quiet, max_gsi
  <2>2. CASE n # i
    <3>1. n < i
      BY <1>12, <2>2, IoapicFacts DEF RouteInv, ApicInv
    <3>2. Quiet(n)
      BY <1>1, <3>1 DEF RouteInv, ApicInv, Late
    <3> QED  BY <1>4, <1>5, <1>9, <2>2, <3>2 DEF Quiet
  <2> QED  BY <2>1, <2>2
<1>13. ApicInv'
  BY <1>1, <1>4, <1>12 DEF RouteInv, ApicInv, PC, Late
<1>14. CoreInv' /\ MachineOK'
  BY <1>1, <1>4 DEF RouteInv, CoreInv, MachineOK, Late
<1> QED  BY <1>10, <1>13, <1>14 DEF RouteInv

(* The steps that leave the tables alone.                                  *)
LEMMA TablesKept ==
  ASSUME MachineOK, TableType, UNCHANGED <<madt, smp, table>>
  PROVE  /\ MachineOK' /\ TableType' /\ UNCHANGED <<ioapics, Core>>
         /\ \A n \in DOMAIN ioapics : Quiet(n) => Quiet(n)'
<1>1. UNCHANGED <<ioapics, Core>>
  BY DEF ioapics, Core
<1>2. MachineOK' /\ TableType'
  BY <1>1 DEF MachineOK, TableType
<1>3. \A n \in DOMAIN ioapics : \A e : Unreached(n, e)' <=> Unreached(n, e)
  BY <1>1 DEF Unreached
<1> QED  BY <1>1, <1>2, <1>3 DEF Quiet

LEMMA StepRoute == RouteInv /\ [Next]_vars => RouteInv'
<1> SUFFICES ASSUME RouteInv, [Next]_vars PROVE RouteInv'
  OBVIOUS
<1> USE DEF RouteInv
<1>1. ASSUME UNCHANGED <<madt, smp, pc, i, handlers, table, localApic, apic_on, gs, released, at>>
      PROVE  RouteInv'
  <2>1. MachineOK' /\ TableType' /\ UNCHANGED <<ioapics, Core>>
        /\ \A n \in DOMAIN ioapics : Quiet(n) => Quiet(n)'
    BY <1>1, TablesKept
  <2>2. SetUp => SetUp'
    BY <1>1, <2>1 DEF SetUp, base, max_gsi, Unreached
  <2>3. ApicInv'
    BY <1>1, <2>1, <2>2 DEF ApicInv
  <2>4. CoreInv'
    BY <1>1, <2>1 DEF CoreInv
  <2> QED  BY <2>1, <2>3, <2>4
<1>2. CASE UNCHANGED vars
  BY <1>1, <1>2 DEF vars
<1>3. CASE Keyboard
  BY <1>1, <1>3 DEF Keyboard, PressShift, ReleaseShift, FakeShift, ReleaseKey, PressCaps, PressKey, Interrupt,
                    inputs, tables, cores
<1>4. CASE PrintChar
  <2>1. (\E a, b : PrintStep(a, b)) \/ (\E a : RectStep(a)) \/ (\E a, b, v : Load(a, b, v)) \/ CharDone
    BY <1>4 DEF PrintChar, NewLine, LineFeed, CarriageReturn, Glyph, IncrementX, StoreX, NoWrap, Wrap, LoadY,
                StoreY, InsideScreen, ClearScreen, Rect, Pixel, NextRow, RectDone
  <2> QED  BY <1>1, <2>1 DEF PrintStep, RectStep, Load, CharDone, inputs, tables, cores
<1>5. CASE VideoInit \/ InitIdt \/ VmmInit \/ KeyboardInit
  <2>1. /\ UNCHANGED <<madt, smp, i, table, localApic, apic_on, gs, released, at>>
        /\ pc \in {"video", "idt", "vmm", "keyboard"} /\ pc' \in {"idt", "vmm", "keyboard", "isa"}
        /\ pc' = "isa" => 33 \in handlers'
    BY <1>5 DEF VideoInit, InitIdt, VmmInit, KeyboardInit, inputs, tables, cores
  <2>2. MachineOK' /\ TableType' /\ UNCHANGED <<ioapics, Core>>
        /\ \A n \in DOMAIN ioapics : Quiet(n) => Quiet(n)'
    BY <2>1, TablesKept
  <2>3. ApicInv'
    BY <2>1, <2>2 DEF ApicInv, PC, Late
  <2>4. CoreInv'
    BY <2>1, <2>2 DEF CoreInv, Late
  <2> QED  BY <2>2, <2>3, <2>4
<1>6. CASE RouteIsa \/ RouteIsos \/ MaskLines \/ UnmaskKeyboard
  BY <1>6, RouteIsaGood, RouteIsosGood, MaskLinesGood, UnmaskGood
<1>7. CASE LocalApic
  <2>1. /\ UNCHANGED <<madt, smp, i, handlers, table, gs, released, at>>
        /\ pc = "isa" /\ i > Len(ioapics) /\ pc' = "sti" /\ localApic' = TRUE /\ smp.bsp \in apic_on'
    BY <1>7 DEF LocalApic, inputs
  <2>2. MachineOK' /\ TableType' /\ UNCHANGED <<ioapics, Core>>
        /\ \A n \in DOMAIN ioapics : Quiet(n) => Quiet(n)'
    BY <2>1, TablesKept
  <2>3. \A n \in DOMAIN ioapics : Quiet(n)
    BY <2>1, IoapicFacts DEF ApicInv, Late
  <2>4. ApicInv'
    BY <2>1, <2>2, <2>3 DEF ApicInv, PC, Late
  <2>5. CoreInv'
    BY <2>1, <2>2 DEF CoreInv, Late
  <2> QED  BY <2>2, <2>4, <2>5
<1>8. ASSUME UNCHANGED <<madt, smp, handlers, table, localApic>>, pc \in Late, pc' \in Late,
             apic_on \subseteq apic_on', i' \in Nat, 1 <= i'
      PROVE  MachineOK' /\ TableType' /\ ApicInv' /\ UNCHANGED Core
  <2>1. MachineOK' /\ TableType' /\ UNCHANGED <<ioapics, Core>>
        /\ \A n \in DOMAIN ioapics : Quiet(n) => Quiet(n)'
    BY <1>8, TablesKept
  <2> QED  BY <1>8, <2>1 DEF ApicInv, PC, Late
<1>9. CASE Sti \/ PrintDone \/ PassBarrier \/ AllReleased
  <2>1. /\ UNCHANGED <<madt, smp, handlers, table, localApic, apic_on, gs, released, at>>
        /\ i' = i \/ i' = 1
        /\ \/ pc = "sti" /\ pc' = "before"
           \/ pc = "before" /\ pc' = "bootstrap" /\ i' = 1
           \/ pc = "after" /\ pc' = "sched"
           \/ pc = "barrier" /\ pc' = "after"
           \/ pc = "bootstrap" /\ pc' = "barrier" /\ i > Len(smp.smp_info)
    BY <1>9 DEF Sti, PrintDone, PassBarrier, AllReleased, inputs, tables, cores
  <2>2. MachineOK' /\ TableType' /\ ApicInv' /\ UNCHANGED Core
    <3>1. i' \in Nat /\ 1 <= i'
      BY <2>1 DEF ApicInv
    <3>2. pc \in Late /\ pc' \in Late
      BY <2>1 DEF Late
    <3> QED  BY <1>8, <2>1, <3>1, <3>2
  <2>3. DOMAIN smp.smp_info = 1 .. Len(smp.smp_info)
    BY MachineFacts
  <2>4. pc' = "barrier" => gs[smp.bsp] = smp.bsp
    <3>1. PICK k \in DOMAIN smp.smp_info : smp.smp_info[k] = smp.bsp
      BY MachineFacts DEF Core, Range
    <3> QED  BY <2>1, <2>3, <3>1 DEF CoreInv, ApicInv
  <2>5. CoreInv'
    BY <2>1, <2>2, <2>3, <2>4 DEF CoreInv, Late
  <2> QED  BY <2>2, <2>5
<1>10. CASE BootstrapCore
  <2> DEFINE c == smp.smp_info[i]
  <2>1. /\ UNCHANGED <<madt, smp, pc, handlers, table, localApic, apic_on, at>>
        /\ pc = "bootstrap" /\ i <= Len(smp.smp_info) /\ i' = i + 1
        /\ IF c = smp.bsp THEN gs' = [gs EXCEPT ![c] = c] /\ released' = released
           ELSE released' = released \cup {c} /\ gs' = gs
    BY <1>10 DEF BootstrapCore, inputs, tables
  <2>2. i \in Nat /\ 1 <= i
    BY DEF ApicInv
  <2>3. MachineOK' /\ TableType' /\ ApicInv' /\ UNCHANGED Core
    BY <1>8, <2>1, <2>2 DEF Late
  <2>4. DOMAIN smp.smp_info \subseteq Nat /\ smp.bsp \in Core
    BY MachineFacts
  <2>5. DOMAIN gs' = Core /\ (gs[smp.bsp] = smp.bsp \/ c = smp.bsp => gs'[smp.bsp] = smp.bsp)
    BY <2>1, <2>4 DEF CoreInv
  <2>6. ASSUME NEW k \in DOMAIN smp.smp_info, k < i + 1, smp.smp_info[k] = smp.bsp
        PROVE  gs'[smp.bsp] = smp.bsp
    <3>1. k < i \/ k = i
      BY <2>2, <2>4, <2>6
    <3> QED  BY <2>1, <2>5, <2>6, <3>1 DEF CoreInv
  <2>7. CoreInv'
    BY <2>1, <2>3, <2>5, <2>6 DEF CoreInv, Late
  <2> QED  BY <2>3, <2>7
<1>11. ASSUME NEW c \in Core, CoreInit(c)
       PROVE  RouteInv'
  <2>1. /\ UNCHANGED <<madt, smp, pc, i, handlers, table, localApic, released>>
        /\ apic_on \subseteq apic_on'
        /\ at' = [at EXCEPT ![c] = at'[c]] /\ (at[c] = "parked" => c \in released)
        /\ gs' = gs \/ gs' = [gs EXCEPT ![c] = c]
    BY <1>11 DEF CoreInit, CoreTables, CoreSetGs, CoreEnable, CoreCount, inputs, tables, CoreInv
  <2>2. c \in released
    BY <2>1 DEF CoreInv
  <2>3. pc \in Late
    BY <2>2 DEF CoreInv
  <2>4. MachineOK' /\ TableType' /\ ApicInv' /\ UNCHANGED Core
    BY <1>8, <2>1, <2>3 DEF ApicInv
  <2>5. DOMAIN gs' = Core /\ (gs[smp.bsp] = smp.bsp => gs'[smp.bsp] = smp.bsp)
    BY <2>1, MachineFacts DEF CoreInv
  <2>6. DOMAIN at' = Core /\ \A d \in Core : d # c => at'[d] = at[d]
    BY <2>1 DEF CoreInv
  <2>7. CoreInv'
    BY <2>1, <2>2, <2>3, <2>4, <2>5, <2>6 DEF CoreInv
  <2> QED  BY <2>4, <2>7
<1> QED  BY <1>2, <1>3, <1>4, <1>5, <1>6, <1>7, <1>9, <1>10, <1>11 DEF Next, BootCore

LEMMA SpecRoute == Spec => []RouteInv
<1>1. ASSUME Init PROVE RouteInv
  <2>1. MachineOK
    BY <1>1 DEF Init, MachineOK
  <2>2. TableType
    BY <1>1, <2>1, IoapicFacts DEF Init, TableType
  <2>3. \A n \in DOMAIN ioapics : ~(n < 1)
    BY <2>1, IoapicFacts
  <2>4. ApicInv
    BY <1>1, <2>3 DEF Init, ApicInv, PC, Late
  <2>5. CoreInv
    BY <1>1 DEF Init, CoreInv, Late
  <2> QED  BY <2>1, <2>2, <2>4, <2>5 DEF RouteInv
<1> QED  BY <1>1, StepRoute, PTL DEF Spec

(* From sti on an open line leads to a handler, the lines that the masking *)
(* loop misses apart; localApic is there for the cores that use it, and    *)
(* the boot core has its cpu structure when the scheduler starts.          *)
THEOREM LinesServed == Spec => []InterruptsServed
<1>1. ASSUME RouteInv PROVE InterruptsServed
  <2>1. (\E c \in Core : at[c] = "enable") => localApic
    BY <1>1 DEF RouteInv, CoreInv, ApicInv
  <2>2. ASSUME Interruptible
        PROVE  /\ localApic /\ smp.bsp \in apic_on
               /\ pc = "sched" => gs[smp.bsp] = smp.bsp
               /\ \A n \in DOMAIN ioapics : Quiet(n) /\ 33 \in handlers
    BY <1>1, <2>2 DEF RouteInv, CoreInv, ApicInv, Interruptible, Late
  <2>3. ASSUME Interruptible, NEW n \in DOMAIN table, NEW e \in DOMAIN table[n], ~table[n][e].masked
        PROVE  table[n][e].vector \in handlers \/ Unreached(n, e)
    <3>1. n \in DOMAIN ioapics /\ e \in 0 .. ioapics[n].max /\ table[n][e].masked \in BOOLEAN
      BY <1>1 DEF RouteInv, TableType
    <3>2. table[n][e].masked = FALSE
      BY <2>3, <3>1
    <3> QED  BY <2>2, <2>3, <3>1, <3>2 DEF Quiet
  <2> QED  BY <2>1, <2>2, <2>3 DEF InterruptsServed
<1> QED  BY <1>1, SpecRoute, PTL
=============================================================================

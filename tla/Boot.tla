-------------------------------- MODULE Boot --------------------------------
(***************************************************************************)
(* Boot: _start on the boot core from the interrupt tables to Sched::init, *)
(* core_init on the others, and the keyboard interrupt, which comes        *)
(* between any two steps once Apic::init has executed sti.                 *)
(*                                                                         *)
(* A core is its lapic_id.  The interrupt handler runs with interrupts off *)
(* and is one step.  The boot core's print_char is as many steps as it has *)
(* accesses to the cursor, for the build has no optimisation: `cursor_x += *)
(* amount` loads, adds and stores.  The loops of rect are one step for a   *)
(* pixel and one for a row: once a key moved their cursor nothing is said  *)
(* of what they paint.                                                     *)
(*                                                                         *)
(* The stub of the keyboard interrupt overwrites rdi before it saves it    *)
(* (idt_.asm, the prologue), so a scancode that comes between the setting  *)
(* of a call's first argument and its use replaces the argument by the     *)
(* stack pointer.                                                          *)
(***************************************************************************)
EXTENDS Integers, FiniteSets, Sequences, SequencesExt

CONSTANTS Machines,   \* the firmware's table, a sequence of entries, and what
                      \*   the bootloader says of the cores: bsp and smp_info
          Before,     \* the characters printed between sti and bootstrap_cores,
          After,      \*   and after it
          Width,      \* screen_width and screen_height
          Height,
          Advance,    \* what increment_cursor_x and a line feed add
          Line,
          Stray,      \* what the stack pointer may be as an argument of 16 bits
          MaxKeys     \* bound: scancodes

(* The cursor, the sizes of the screen and the arguments of video.cpp have *)
(* sixteen bits.                                                           *)
Modulus == 65536
uint16(n) == n % Modulus

EntriesOf(madt_table, type) == SelectSeq(madt_table, LAMBDA e : e.type = type)

ASSUME BootAssumption ==
  /\ \A n \in {Width, Height, Advance, Line} : n \in Nat /\ 0 < n /\ n < Modulus
  /\ \A n \in Stray : n \in Nat /\ n < Modulus
  /\ MaxKeys \in Nat
  /\ \A m \in Machines :
       /\ m.smp.smp_info \in Seq(Nat) /\ IsInjective(m.smp.smp_info)
       /\ m.smp.bsp \in Range(m.smp.smp_info)

(* The registers of an IO APIC have numbers of eight bits, of which the    *)
(* entries take two each from 16 on.  The firmware redirects no line but   *)
(* the keyboard's own to the interrupt that Apic::init unmasks for it.     *)
ASSUME FirmwareAssumption ==
  \A m \in Machines :
    /\ EntriesOf(m.madt, "IOAPIC") \in Seq([type : {"IOAPIC"}, gsib : Nat, max : 0 .. 119])
    /\ LET isos == EntriesOf(m.madt, "ISO")
       IN  /\ isos \in Seq([type : {"ISO"}, irq : 0 .. 255, gsi : Nat, flags : SUBSET {"low", "level"}])
           /\ \A k \in DOMAIN isos : isos[k].gsi = 1 => isos[k].irq = 1

VARIABLES madt, smp,
          pc,         \* where _start is
          i,          \* the index of its loop
          handlers,   \* the vectors with a gate in the idt
          table,      \* table[n][e]: redirection entry e of IO APIC n
          localApic,  \* whether localApic points to the local APIC
          apic_on,    \* the cores whose local APIC is enabled
          gs,         \* gs[c]: the cpu structure of core c, by its lapic_id
          released,   \* the cores whose goto_address is set
          at,         \* at[c]: where core c is in core_init
          cpus,
          cursor_x, cursor_y,
          print,      \* where print_char is: at, the text left, and a register,
                      \*   which is also the argument of what it calls
          rect,       \* the loops of rect: h, w, and what was painted
          lost,       \* a scancode replaced an argument that the model does not
                      \*   have: from here on the machine is not followed
          state,      \* the keyboard's shift and caps
          held,       \* the shift keys that are down
          scancodes,  \* how many there were
          seen        \* what the properties remember

vars == <<madt, smp, pc, i, handlers, table, localApic, apic_on, gs, released, at, cpus,
          cursor_x, cursor_y, print, rect, lost, state, held, scancodes, seen>>
screen == <<cursor_x, cursor_y, print, rect>>
keys   == <<state, held>>
cores  == <<apic_on, gs, released, at, cpus>>
tables == <<handlers, table, localApic>>
inputs == <<madt, smp>>

None == -1
Core == Range(smp.smp_info)
ioapics == EntriesOf(madt, "IOAPIC")
isos == EntriesOf(madt, "ISO")

Init ==
  /\ \E m \in Machines : madt = m.madt /\ smp = m.smp
  /\ pc = "video" /\ i = 1
  /\ handlers = {} /\ localApic = FALSE
  \* after reset every entry is masked
  /\ table = [n \in DOMAIN ioapics |->
                [e \in 0 .. ioapics[n].max |-> [vector |-> 0, flags |-> {}, masked |-> TRUE]]]
  /\ apic_on = {} /\ released = {} /\ cpus = 1
  /\ gs = [c \in Core |-> None]
  /\ at = [c \in Core |-> "parked"]
  /\ cursor_x = 0 /\ cursor_y = 0
  /\ print = [at |-> "next", text |-> <<>>, reg |-> 0]
  /\ rect = [h |-> 0, w |-> 0, painted |-> {}]
  /\ lost = FALSE
  /\ state = [shift |-> FALSE, caps |-> FALSE]
  /\ held = {}
  /\ scancodes = 0
  /\ seen = [lf |-> FALSE, touched |-> FALSE, one_up |-> FALSE, fake |-> FALSE]

-----------------------------------------------------------------------------
(* _start up to Keyboard::init                                             *)

VideoInit ==
  /\ pc = "video" /\ pc' = "idt"
  /\ cursor_x' = 0 /\ cursor_y' = 0
  /\ UNCHANGED <<inputs, i, tables, cores, print, rect, keys, seen>>

InitIdt ==
  /\ pc = "idt" /\ pc' = "vmm"
  /\ handlers' = {0, 3, 8, 13, 32, 128}
  /\ UNCHANGED <<inputs, i, table, localApic, cores, screen, keys, seen>>

VmmInit ==
  /\ pc = "vmm" /\ pc' = "keyboard"
  /\ handlers' = handlers \cup {14}
  /\ UNCHANGED <<inputs, i, table, localApic, cores, screen, keys, seen>>

(* Seeded change: the keyboard gets the vector of its line number.         *)
KeyboardInitRaw ==
  /\ pc = "keyboard" /\ pc' = "isa"
  /\ handlers' = handlers \cup {1}
  /\ UNCHANGED <<inputs, i, table, localApic, cores, screen, keys, seen>>

KeyboardInit ==
  /\ pc = "keyboard" /\ pc' = "isa"
  /\ handlers' = handlers \cup {33}
  /\ UNCHANGED <<inputs, i, table, localApic, cores, screen, keys, seen>>

-----------------------------------------------------------------------------
(* Apic::init: one IO APIC after the other                                 *)

base == ioapics[i].gsib
max_gsi == ioapics[i].max       \* the register holds the index of the last entry

(* The entry that the register of a gsi belongs to; register numbers have  *)
(* eight bits, and what is outside of the table is not written.            *)
EntryOf(gsi) == ((((gsi - base) * 2 + 16) % 256) - 16) \div 2

(* Calls of set_redirection for the lines of r in turn: what an entry gets *)
(* is what the last of them that names it says.                            *)
set_redirection(t, r) ==
  [e \in DOMAIN t |->
     LET K == {k \in DOMAIN r : EntryOf(r[k].gsi) = e}
         last == CHOOSE k \in K : \A j \in K : j <= k
     IN  IF K = {} THEN t[e]
         ELSE [vector |-> (r[last].irq + 32) % 256, flags |-> r[last].flags, masked |-> FALSE]]

mask_gsi(t, gsis) ==
  [e \in DOMAIN t |-> IF \E g \in gsis : e = EntryOf(g) THEN [t[e] EXCEPT !.masked = TRUE]
                      ELSE t[e]]

unmask_gsi(t, gsi) ==
  [e \in DOMAIN t |-> IF e = EntryOf(gsi) THEN [t[e] EXCEPT !.masked = FALSE] ELSE t[e]]

ApicStep(from, to, t) ==
  /\ pc = from /\ pc' = to
  /\ i <= Len(ioapics)
  /\ table' = [table EXCEPT ![i] = t]
  /\ UNCHANGED <<inputs, i, handlers, localApic, cores, screen, keys, seen>>

IsaLines == [q \in 0 .. 15 |-> [irq |-> q, gsi |-> q, flags |-> {}]]

RouteIsa ==
  i <= Len(ioapics) /\
  ApicStep("isa", "isos", IF base # 0 THEN table[i] ELSE set_redirection(table[i], IsaLines))

RouteIsos ==
  i <= Len(ioapics) /\
  LET Here == {k \in DOMAIN isos : isos[k].gsi >= base /\ isos[k].gsi < base + max_gsi}
  IN  ApicStep("isos", "mask", set_redirection(table[i], [k \in Here |-> isos[k]]))

MaskLines == i <= Len(ioapics) /\ ApicStep("mask", "unmask", mask_gsi(table[i], 0 .. max_gsi - 1))

UnmaskKeyboard ==
  /\ pc = "unmask" /\ pc' = "isa" /\ i' = i + 1
  /\ table' = IF base # 0 THEN table ELSE [table EXCEPT ![i] = unmask_gsi(@, 1)]
  /\ UNCHANGED <<inputs, handlers, localApic, cores, screen, keys, seen>>

(* remap_pic masks both PICs; then the xapic object, which enables the     *)
(* local APIC of the boot core; then sti.                                  *)
LocalApic ==
  /\ pc = "isa" /\ i > Len(ioapics)
  /\ pc' = "sti" /\ localApic' = TRUE
  /\ apic_on' = apic_on \cup {smp.bsp}
  /\ UNCHANGED <<inputs, i, handlers, table, gs, released, at, cpus, screen, keys, seen>>

Sti ==
  /\ pc = "sti" /\ pc' = "before"
  /\ print' = [print EXCEPT !.text = Before]
  /\ UNCHANGED <<inputs, i, tables, cores, cursor_x, cursor_y, rect, keys, seen>>

Interruptible == pc \in {"before", "bootstrap", "barrier", "after", "sched"}

-----------------------------------------------------------------------------
(* print and print_char on the boot core                                   *)

PrintStep(from, to) ==
  /\ pc \in {"before", "after"}
  /\ print.at = from
  /\ print' = [print EXCEPT !.at = to, !.reg = 0]
  /\ UNCHANGED <<inputs, pc, i, tables, cores, keys>>

Load(from, to, value) ==
  /\ pc \in {"before", "after"}
  /\ print.at = from
  /\ print' = [print EXCEPT !.at = to, !.reg = value]
  /\ UNCHANGED <<inputs, pc, i, tables, cores, cursor_x, cursor_y, rect, keys, seen>>

NewLine == print.text # <<>> /\ Head(print.text) = "newline" /\ Load("next", "lf", cursor_y)

LineFeed ==
  /\ PrintStep("lf", "cr")
  /\ cursor_y' = uint16(print.reg + Line)
  /\ seen' = [seen EXCEPT !.lf = TRUE]
  /\ UNCHANGED <<cursor_x, rect>>

CarriageReturn ==
  /\ PrintStep("cr", "done")
  /\ cursor_x' = 0
  /\ UNCHANGED <<cursor_y, rect, seen>>

(* The glyph is drawn; then increment_cursor_x, called with the amount.    *)
Glyph == print.text # <<>> /\ Head(print.text) = "glyph" /\ Load("next", "call", Advance)

IncrementX == Load("call", "store_x", cursor_x + print.reg)

StoreX ==
  /\ PrintStep("store_x", "right")
  /\ cursor_x' = uint16(print.reg)
  /\ UNCHANGED <<cursor_y, rect, seen>>

NoWrap ==
  /\ PrintStep("right", "bottom")
  /\ cursor_x < Width
  /\ UNCHANGED <<cursor_x, cursor_y, rect, seen>>

Wrap ==
  /\ PrintStep("right", "load_y")
  /\ cursor_x >= Width
  /\ cursor_x' = 0
  /\ UNCHANGED <<cursor_y, rect, seen>>

LoadY == Load("load_y", "store_y", cursor_y)

StoreY ==
  /\ PrintStep("store_y", "bottom")
  /\ cursor_y' = uint16(print.reg + Line)
  /\ UNCHANGED <<cursor_x, rect, seen>>

InsideScreen ==
  /\ PrintStep("bottom", "done")
  /\ cursor_y < Height
  /\ seen' = [seen EXCEPT !.lf = FALSE]
  /\ UNCHANGED <<cursor_x, cursor_y, rect>>

(* clear_screen calls rect with x = 0, which the register keeps; the loops *)
(* of rect use the cursor.                                                 *)
ClearScreen ==
  /\ PrintStep("bottom", "rect")
  /\ cursor_y >= Height
  /\ rect' = [h |-> 0, w |-> 0, painted |-> {}]
  /\ UNCHANGED <<cursor_x, cursor_y, seen>>

RectStep(from) ==
  /\ pc \in {"before", "after"}
  /\ print.at = from
  /\ print' = [print EXCEPT !.at = "pixel"]
  /\ UNCHANGED <<inputs, pc, i, tables, cores, keys>>

Rect ==
  /\ RectStep("rect")
  /\ cursor_x' = print.reg /\ cursor_y' = 0
  /\ seen' = [seen EXCEPT !.touched = print.reg # 0]
  /\ UNCHANGED rect

Pixel ==
  /\ RectStep("pixel")
  /\ rect.h < Height /\ rect.w < Width
  /\ rect' = [rect EXCEPT !.w = @ + 1, !.painted = @ \cup {cursor_y * Width + cursor_x}]
  /\ cursor_x' = uint16(cursor_x + 1)
  /\ UNCHANGED <<cursor_y, seen>>

(* Seeded change: the next row starts where the last one ended.            *)
NextRowFromHere ==
  /\ RectStep("pixel")
  /\ rect.h < Height /\ rect.w = Width
  /\ rect' = [rect EXCEPT !.w = 0, !.h = @ + 1]
  /\ cursor_y' = uint16(cursor_y + 1)
  /\ UNCHANGED <<cursor_x, seen>>

NextRow ==
  /\ RectStep("pixel")
  /\ rect.h < Height /\ rect.w = Width
  /\ rect' = [rect EXCEPT !.w = 0, !.h = @ + 1]
  /\ cursor_x' = print.reg /\ cursor_y' = uint16(cursor_y + 1)
  /\ UNCHANGED seen

RectDone ==
  /\ PrintStep("pixel", "done")
  /\ rect.h = Height
  /\ cursor_x' = 0 /\ cursor_y' = 0
  /\ rect' = [h |-> 0, w |-> 0, painted |-> {}]
  /\ seen' = [seen EXCEPT !.lf = FALSE, !.touched = FALSE]

CharDone ==
  /\ pc \in {"before", "after"} /\ print.at = "done"
  /\ print' = [print EXCEPT !.at = "next", !.text = Tail(@)]
  /\ UNCHANGED <<inputs, pc, i, tables, cores, cursor_x, cursor_y, rect, keys, seen>>

PrintChar ==
  \/ NewLine \/ LineFeed \/ CarriageReturn \/ Glyph \/ IncrementX \/ StoreX \/ NoWrap
  \/ Wrap \/ LoadY \/ StoreY \/ InsideScreen \/ ClearScreen \/ Rect \/ Pixel \/ NextRow
  \/ RectDone \/ CharDone

PrintDone ==
  /\ pc \in {"before", "after"} /\ print.at = "next" /\ print.text = <<>>
  /\ pc' = IF pc = "before" THEN "bootstrap" ELSE "sched"
  /\ i' = 1
  /\ UNCHANGED <<inputs, tables, cores, screen, keys, seen>>

-----------------------------------------------------------------------------
(* bootstrap_cores                                                         *)

(* Seeded change: every entry is skipped once the boot core's was met.     *)
BootstrapCoreStops ==
  /\ pc = "bootstrap" /\ i <= Len(smp.smp_info)
  /\ LET c == smp.smp_info[i]
     IN  IF c = smp.bsp
         THEN gs' = [gs EXCEPT ![c] = c] /\ i' = Len(smp.smp_info) + 1 /\ UNCHANGED released
         ELSE released' = released \cup {c} /\ i' = i + 1 /\ UNCHANGED gs
  /\ UNCHANGED <<inputs, pc, tables, apic_on, at, cpus, screen, keys, seen>>

(* The boot core gets its TSS and its gs at its own entry; another core    *)
(* gets its stack and structure, and last its goto_address.                *)
BootstrapCore ==
  /\ pc = "bootstrap" /\ i <= Len(smp.smp_info)
  /\ i' = i + 1
  /\ LET c == smp.smp_info[i]
     IN  IF c = smp.bsp
         THEN gs' = [gs EXCEPT ![c] = c] /\ UNCHANGED released
         ELSE released' = released \cup {c} /\ UNCHANGED gs
  /\ UNCHANGED <<inputs, pc, tables, apic_on, at, cpus, screen, keys, seen>>

AllReleased ==
  /\ pc = "bootstrap" /\ i > Len(smp.smp_info)
  /\ pc' = "barrier"
  /\ UNCHANGED <<inputs, i, tables, cores, screen, keys, seen>>

PassBarrier ==
  /\ pc = "barrier" /\ cpus = Len(smp.smp_info)
  /\ pc' = "after"
  /\ print' = [print EXCEPT !.text = After]
  /\ UNCHANGED <<inputs, i, tables, cores, cursor_x, cursor_y, rect, keys, seen>>

(* core_init: load_gdt, load_idt and init_features; set_gs; enable; count. *)
CoreTables(c) ==
  /\ c \in released /\ at[c] = "parked"
  /\ at' = [at EXCEPT ![c] = "gs"]
  /\ UNCHANGED <<apic_on, gs, cpus>>

CoreSetGs(c) ==
  /\ at[c] = "gs"
  /\ at' = [at EXCEPT ![c] = "enable"]
  /\ gs' = [gs EXCEPT ![c] = c]
  /\ UNCHANGED <<apic_on, cpus>>

CoreEnable(c) ==
  /\ at[c] = "enable"
  /\ at' = [at EXCEPT ![c] = "count"]
  /\ apic_on' = apic_on \cup {c}
  /\ UNCHANGED <<gs, cpus>>

CoreCount(c) ==
  /\ at[c] = "count"
  /\ at' = [at EXCEPT ![c] = "hang"]
  /\ cpus' = cpus + 1
  /\ UNCHANGED <<apic_on, gs>>

CoreInit(c) ==
  /\ ~lost
  /\ \/ CoreTables(c)
     \/ CoreSetGs(c)
     \/ CoreEnable(c)
     \/ CoreCount(c)
  /\ UNCHANGED <<inputs, pc, i, tables, released, screen, lost, scancodes, keys, seen>>

-----------------------------------------------------------------------------
(* isr_keyboard                                                            *)

(* The whole of print_char for the typed character.                        *)
Typed(char) ==
  LET x == uint16(cursor_x + Advance)
      y == IF x >= Width THEN uint16(cursor_y + Line) ELSE cursor_y
  IN  IF char = "newline" THEN cursor_y' = uint16(cursor_y + Line) /\ cursor_x' = 0
      ELSE IF y >= Height THEN cursor_y' = 0 /\ cursor_x' = 0
      ELSE cursor_y' = y /\ cursor_x' = IF x >= Width THEN 0 ELSE x

(* The lines of vector 33 go to the core with lapic_id 0: the destination  *)
(* that set_redirection writes is always 0.                                *)
KeyboardLine(n, e) == ioapics[n].gsib + e = 1 /\ table[n][e].vector = 33 /\ ~table[n][e].masked

(* The interrupted code gets the stack pointer in rdi, in the low byte of  *)
(* which is no line feed.  It is an argument of increment_cursor_x, rect   *)
(* or print_char that is replaced; or one of print, of the calls that set  *)
(* up the file systems and load the ramdisk between two texts, of          *)
(* bootstrap_cores or of Sched::init, and the core is lost; or none, as in *)
(* the wait for the other cores, which calls nothing.                      *)
StubReturns ==
  \/ UNCHANGED <<print, lost>>
  \/ /\ print.at \in {"call", "rect"}
     /\ \E a \in Stray : print' = [print EXCEPT !.reg = a]
     /\ UNCHANGED lost
  \/ /\ print.at = "next" /\ pc \in {"before", "after"} /\ print.text # <<>>
     /\ print' = [print EXCEPT !.text = <<"glyph">> \o Tail(@)]
     /\ UNCHANGED lost
  \/ /\ print.at = "next" /\ pc # "barrier"
     /\ lost' = TRUE
     /\ UNCHANGED print

Interrupt ==
  /\ Interruptible /\ ~lost
  /\ smp.bsp = 0
  /\ \E n \in DOMAIN table : \E e \in DOMAIN table[n] : KeyboardLine(n, e)
  /\ scancodes < MaxKeys /\ scancodes' = scancodes + 1
  /\ StubReturns
  /\ UNCHANGED <<inputs, pc, i, tables, cores, rect>>

PressShift(k) ==
  /\ Interrupt
  /\ held' = held \cup {k}
  /\ state' = [state EXCEPT !.shift = TRUE]
  /\ seen' = [seen EXCEPT !.one_up = FALSE, !.fake = FALSE]
  /\ UNCHANGED <<cursor_x, cursor_y>>

(* Seeded change: the release of the right key is taken for another key.   *)
ReleaseShiftLeft(k) ==
  /\ Interrupt /\ k \in held
  /\ held' = held \ {k}
  /\ state' = [state EXCEPT !.shift = @ /\ k # "LSHIFT"]
  /\ seen' = [seen EXCEPT !.one_up = held # {k}, !.fake = FALSE]
  /\ UNCHANGED <<cursor_x, cursor_y>>

ReleaseShift(k) ==
  /\ Interrupt /\ k \in held
  /\ held' = held \ {k}
  /\ state' = [state EXCEPT !.shift = FALSE]
  /\ seen' = [seen EXCEPT !.one_up = held # {k}, !.fake = FALSE]
  /\ UNCHANGED <<cursor_x, cursor_y>>

(* Print Screen and others send the scancodes of a shift key behind an E0, *)
(* which the handler takes for the release of some key.                    *)
FakeShift(down) ==
  /\ Interrupt
  /\ state' = [state EXCEPT !.shift = down]
  /\ seen' = [seen EXCEPT !.fake = TRUE]
  /\ UNCHANGED <<held, cursor_x, cursor_y>>

ReleaseKey ==
  /\ Interrupt
  /\ UNCHANGED <<keys, cursor_x, cursor_y, seen>>

PressCaps ==
  /\ Interrupt
  /\ state' = [state EXCEPT !.caps = ~@]
  /\ UNCHANGED <<held, cursor_x, cursor_y, seen>>

(* scNormal and scCaps end at the space bar, scShift and scShiftCaps       *)
(* before the right shift: what is read behind them is any character.      *)
LastKey == IF state.shift THEN 53 ELSE 57

PressKey(scancode) ==
  /\ Interrupt
  /\ \E char \in IF scancode > LastKey THEN {"glyph", "newline"} ELSE {"glyph"} :
       /\ Typed(char)
       /\ seen' = [seen EXCEPT !.lf = char = "newline", !.touched = print.at = "pixel"]
  /\ UNCHANGED keys

Keyboard ==
  \/ \E k \in {"LSHIFT", "RSHIFT"} : PressShift(k) \/ ReleaseShift(k)
  \/ \E down \in BOOLEAN : FakeShift(down)
  \/ ReleaseKey
  \/ PressCaps
  \/ \E scancode \in {30, 57, 88} : PressKey(scancode)

-----------------------------------------------------------------------------
BootCore ==
  /\ ~lost /\ UNCHANGED <<lost, scancodes>>
  /\ \/ VideoInit \/ InitIdt \/ VmmInit \/ KeyboardInit
     \/ RouteIsa \/ RouteIsos \/ MaskLines \/ UnmaskKeyboard \/ LocalApic \/ Sti
     \/ PrintChar \/ PrintDone
     \/ BootstrapCore \/ AllReleased \/ PassBarrier

Next == BootCore \/ Keyboard \/ \E c \in Core : CoreInit(c)

(* Every core keeps executing; an interrupt handler ends.                  *)
Spec == Init /\ [][Next]_vars /\ WF_vars(BootCore)
             /\ \A c \in UNION {Range(m.smp.smp_info) : m \in Machines} : WF_vars(c \in Core /\ CoreInit(c))

-----------------------------------------------------------------------------
(* From sti on a line that is not masked leads to a handler that can       *)
(* acknowledge it.  The exceptions: the last line of the IO APIC of the    *)
(* ISA lines, when it is one of the sixteen, since the masking loop ends   *)
(* before it; and a redirected line of another IO APIC, since the loop     *)
(* counts from 0 and not from its base and meets other registers.  Before  *)
(* the scheduler starts the timer the boot core has its cpu structure, and *)
(* before another core uses localApic it is there; of a machine that is    *)
(* lost this says how it was until then.                                   *)
Unreached(n, e) ==
  LET b == ioapics[n].gsib IN IF b = 0 THEN e = ioapics[n].max ELSE b + e >= ioapics[n].max

InterruptsServed ==
  /\ (\E c \in Core : at[c] = "enable") => localApic
  /\ Interruptible =>
       /\ localApic /\ smp.bsp \in apic_on
       /\ \A n \in DOMAIN table : \A e \in DOMAIN table[n] :
            ~table[n][e].masked => table[n][e].vector \in handlers \/ Unreached(n, e)
       /\ pc = "sched" => gs[smp.bsp] = smp.bsp

(* Whatever keys are typed in the middle of a print_char, and whatever     *)
(* amount increment_cursor_x or x rect gets instead of its own, between    *)
(* two characters the cursor is on the screen, except that a line feed     *)
(* leaves it below the last line until the next character; and a           *)
(* clear_screen in which nothing was typed paints the screen and nothing   *)
(* else.                                                                   *)
ScreenKept ==
  /\ print.at = "next" => cursor_x < Width /\ (cursor_y < Height \/ seen.lf)
  /\ print.at = "pixel" /\ rect.h = Height /\ ~seen.touched =>
       rect.painted = 0 .. Width * Height - 1

(* state.shift says that a shift key is down, except when both were and    *)
(* one came up, for the two keys share one bit, and after the scancode of  *)
(* a shift key that no shift key sent, for the handler drops the E0 before *)
(* it.                                                                     *)
ShiftHeld == seen.fake \/ (state.shift <=> (held # {} /\ ~seen.one_up))

(* The boot core gets past its wait for the counter and to the scheduler,  *)
(* and then every core has its own cpu structure and an enabled local      *)
(* APIC, unless a scancode replaced an argument of one of its calls.       *)
AllUp ==
  <>(lost \/ (pc = "sched" /\ apic_on = Core /\ \A c \in Core : gs[c] = c))
=============================================================================

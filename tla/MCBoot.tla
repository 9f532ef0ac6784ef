------------------------------- MODULE MCBoot -------------------------------
EXTENDS Boot

IOAPIC(b, m) == [type |-> "IOAPIC", gsib |-> b, max |-> m]
ISO(q, g, f) == [type |-> "ISO", irq |-> q, gsi |-> g, flags |-> f]
Other(t) == [type |-> t]

(* A PC; two IO APICs with a line redirected in the second, on a machine   *)
(* whose boot core is not core 0; an IO APIC of sixteen lines and one      *)
(* whose base lies inside of the masking loop.                             *)
MCMachines ==
  { [madt |-> <<Other("LAPIC"), IOAPIC(0, 23), ISO(0, 2, {}), ISO(9, 9, {"low", "level"})>>,
     smp  |-> [bsp |-> 0, smp_info |-> <<0, 1, 2>>]],
    [madt |-> <<ISO(0, 2, {}), ISO(10, 30, {"low"}), IOAPIC(0, 23), IOAPIC(24, 23), Other("AO")>>,
     smp  |-> [bsp |-> 1, smp_info |-> <<0, 1>>]],
    [madt |-> <<IOAPIC(0, 15), IOAPIC(16, 23), ISO(11, 17, {}), ISO(5, 30, {"level"})>>,
     smp  |-> [bsp |-> 0, smp_info |-> <<1, 0>>]] }

MCBefore == <<"glyph", "newline", "glyph", "glyph">>
MCAfter  == <<"glyph", "newline">>
=============================================================================

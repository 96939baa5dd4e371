----------------------------- MODULE Interrupts -----------------------------
(***************************************************************************)
(* Interrupt handling: src/src/CPUControl/interrupts.cpp (vector table,    *)
(* the two PICs, end of interrupt) and the IOAPIC part of                  *)
(* src/src/ACPI/APIC.cpp, together with the controllers they program.      *)
(*                                                                         *)
(* The boot processor runs the operations; devices raise PIC lines and     *)
(* IOAPIC pins at any time.  An operation that disables interrupts, or     *)
(* writes one register, is one step; APIC::mapInterrupt writes the two     *)
(* halves of a redirection entry in two steps with interrupts enabled.     *)
(***************************************************************************)
EXTENDS Integers, Sequences, FiniteSetsExt

CONSTANTS
  Offset,        \* PICData.offset, the vector of PIC line 0
  Half,          \* lines of one PIC (8)
  Cascade,       \* the first PIC's line to which the second is connected
  IOAPICs,       \* sequence of [base, max]: first interrupt, last pin's index
  PinWindow,     \* 24: interrupts looked for at one IOAPIC
  Overrides,     \* PIC line -> global interrupt, of the MADT's type-2 entries
  Routed,        \* vectors mapInterrupt is called with
  DeviceLines,   \* PIC lines devices are connected to
  BootCpu, OtherCpu,
  MaxRaises      \* bound on the interrupts devices raise

Lines == 0 .. 2 * Half - 1
Slave == Half .. 2 * Half - 1
Vectors == 0 .. Offset + 2 * Half - 1
Slots == UNION {{<<k, i>> : i \in 0 .. IOAPICs[k].max} : k \in 1 .. Len(IOAPICs)}
LastPin(s) == s[2] = IOAPICs[s[1]].max
None == -1

ASSUME InterruptAssumption ==
  /\ Half \in Nat \ {0} /\ Cascade \in 0 .. Half - 1
  /\ Offset \in Nat /\ PinWindow \in Nat
  /\ IOAPICs \in Seq([base : Nat, max : Nat])
  /\ \A l \in DOMAIN Overrides : Overrides[l] \in Nat
  /\ Routed \subseteq Vectors /\ MaxRaises \in Nat
  /\ DeviceLines \subseteq Lines \ {Cascade}

\* The firmware gives every pin an interrupt of its own.
PinsDisjoint ==
  \A s \in Slots, t \in Slots :
    IOAPICs[s[1]].base + s[2] = IOAPICs[t[1]].base + t[2] => s = t

\* No IOAPIC has more pins than the window in which they are looked for.
PinsInWindow == \A k \in 1 .. Len(IOAPICs) : IOAPICs[k].max <= PinWindow

VARIABLES
  mode,       \* "none", "pic" (PICData.isActive), "apic" (APICEnabled)
  recorded,   \* PICData.hardwareInterruptMask, as the set of masked lines
  masked,     \* the lines the PICs really mask
  written,    \* history: the mask was written since the PICs were remapped
  callbacks,  \* vector -> "none", "systemError" or "handler"
  flag,       \* the processor's interrupt flag
  caller,     \* history: the flag as enable/disableInterrupts left it
  removed,    \* history: a handler was removed since
  lines,      \* PIC lines with a latched request
  service,    \* PIC lines in service
  redir,      \* IOAPIC k, pin i -> redirection entry
  torn,       \* <<slot, entry>> of a mapInterrupt between its two writes
  opened,     \* history: pins routed or enabled by a caller
  route,      \* history: pin -> entry of the last mapInterrupt, or <<>>
  irr,        \* vectors pending at the boot processor's local APIC
  isr,        \* vectors in service there
  active,     \* the vector being handled, None if there is none
  raises,     \* interrupts raised so far
  stopped     \* systemError, or a vector without a gate

pic == <<recorded, masked, written>>
cpu == <<callbacks, flag, caller, removed>>
apic == <<redir, torn, opened, route>>
pending == <<lines, service, irr, isr, active, raises, stopped>>
vars == <<mode, pic, cpu, apic, pending>>

RedirectionEntry == [mask : BOOLEAN, vector : Vectors, cpu : {BootCpu, OtherCpu}]
\* What the firmware may leave behind: an unmasked entry with a vector that
\* nothing in the kernel handles.
Firmware == [mask |-> FALSE, vector |-> 0, cpu |-> BootCpu]

Init ==
  /\ mode = "none" /\ recorded = {} /\ written = FALSE
  /\ masked \in {Lines, {}}
  /\ callbacks = [v \in Vectors |-> "none"]
  /\ flag = FALSE /\ caller = FALSE /\ removed = FALSE
  /\ lines = {} /\ service = {} /\ irr = {} /\ isr = {} /\ active = None
  /\ redir = [s \in Slots |-> Firmware]
  /\ torn = <<>> /\ opened = {} /\ route = [s \in Slots |-> <<>>]
  /\ raises = 0 /\ stopped = FALSE

-----------------------------------------------------------------------------
\* The processor is in the kernel's own code, between two operations.
Runs == ~stopped /\ active = None
Ready == Runs /\ torn = <<>>

(***************************************************************************)
(* Vector table and flag.                                                  *)
(***************************************************************************)
\* All lines are masked, then the PICs are initialised again, which clears
\* their masks on some chips; the recorded mask covers the first PIC only.
remapPICInterrupts ==
  /\ mode' = "pic"
  /\ recorded' = Lines \ Slave /\ written' = FALSE
  /\ masked' \in {Lines, {}}

setupInterruptVectorTable ==
  /\ Ready /\ mode = "none"
  /\ remapPICInterrupts
  /\ callbacks' = [v \in Vectors |-> "systemError"]
  /\ UNCHANGED <<flag, caller, removed, apic, pending>>

setupInterruptHandler(v) ==
  /\ Ready /\ mode # "none"
  /\ callbacks' = [callbacks EXCEPT ![v] = "handler"]
  /\ UNCHANGED <<mode, pic, flag, caller, removed, apic, pending>>

\* A null handler: the early return leaves interrupts disabled.
RemoveHandler(v) ==
  /\ Ready /\ mode # "none" /\ callbacks[v] = "handler"
  /\ callbacks' = [callbacks EXCEPT ![v] = "none"]
  /\ flag' = FALSE /\ removed' = TRUE
  /\ UNCHANGED <<mode, pic, caller, apic, pending>>

SetFlag(on) ==
  /\ Ready /\ mode # "none"
  /\ flag # on
  /\ flag' = on /\ caller' = on /\ removed' = FALSE
  /\ UNCHANGED <<mode, pic, callbacks, apic, pending>>

(***************************************************************************)
(* Looking up the IOAPIC of a global interrupt.  The index of the last pin *)
(* is taken for the number of pins.                                        *)
(***************************************************************************)
Owners(n) ==
  {k \in 1 .. Len(IOAPICs) :
     /\ IOAPICs[k].base <= n /\ n < IOAPICs[k].base + PinWindow
     /\ n < IOAPICs[k].base + IOAPICs[k].max}

\* Faulty: the IOAPIC's first interrupt is not subtracted.
SlotOfRaw(n) == <<Min(Owners(n)), n>>

SlotOf(n) == <<Min(Owners(n)), n - IOAPICs[Min(Owners(n))].base>>

getSourceOverride(line) ==
  IF line \in DOMAIN Overrides THEN Overrides[line] ELSE line

\* APIC::setInterruptEnabled; an interrupt no IOAPIC has is ignored.
APIC_setInterruptEnabled(n, on) ==
  IF Owners(n) = {} THEN UNCHANGED <<redir, opened>>
  ELSE /\ redir' = [redir EXCEPT ![SlotOf(n)].mask = ~on]
       /\ opened' = opened \cup {<<k, n - IOAPICs[k].base>> :
                                   k \in {j \in Owners(n) : on}}

\* Faulty: only the first PIC's mask is written.
PIC_setMaskFirst(line, on) ==
  /\ recorded' = IF on THEN recorded \ {line} ELSE recorded \cup {line}
  /\ masked' = (recorded' \ Slave) \cup (masked \cap Slave)

PIC_setMask(line, on) ==
  /\ recorded' = IF on THEN recorded \ {line} ELSE recorded \cup {line}
  /\ masked' = recorded'

\* The two queries about a PIC line.  In APIC mode they look at the pin the
\* line is connected to; for a pin that is not found the answers are `no' and
\* the spurious vector.
isHardwareInterruptEnabled(line) ==
  LET n == getSourceOverride(line) IN
  \/ mode = "pic" /\ line \notin recorded
  \/ mode = "apic" /\ Owners(n) # {} /\ ~redir[SlotOf(n)].mask

hardwareInterruptToVector(line) ==
  LET n == getSourceOverride(line) IN
  IF mode = "pic" THEN Offset + line
  ELSE IF Owners(n) = {} THEN Max(Vectors) ELSE redir[SlotOf(n)].vector

\* Faulty: interrupts are enabled at the end in any case.
RestoredOn == TRUE

Restored == flag

setHardwareInterruptEnabledPIC(line, on) ==
  /\ Ready /\ mode # "none"
  /\ IF mode = "pic"
     THEN /\ PIC_setMask(line, on) /\ written' = TRUE
          /\ UNCHANGED <<redir, opened>>
     ELSE /\ APIC_setInterruptEnabled(getSourceOverride(line), on)
          /\ UNCHANGED pic
  /\ flag' = Restored
  /\ UNCHANGED <<mode, callbacks, caller, removed, torn, route, pending>>

setHardwareInterruptEnabledAPIC(n, on) ==
  /\ Ready /\ mode = "apic"
  /\ APIC_setInterruptEnabled(n, on)
  /\ flag' = Restored
  /\ UNCHANGED <<mode, pic, callbacks, caller, removed, torn, route, pending>>

\* Faulty: the mask bit is not set in what is written back.
SpuriousMasksNothing == redir

\* setSpuriousInterruptVector masks the pins below redirectionCount.
SpuriousMasks ==
  [s \in Slots |-> IF LastPin(s) THEN redir[s]
                   ELSE [redir[s] EXCEPT !.mask = TRUE]]

\* When the MADT is parsed, with interrupts disabled (ACPI::init).
switchToAPICMode ==
  /\ Ready /\ mode = "pic" /\ ~flag
  /\ mode' = "apic"
  /\ masked' = Lines
  /\ redir' = SpuriousMasks
  /\ UNCHANGED <<recorded, written, cpu, torn, opened, route, pending>>

(***************************************************************************)
(* APIC::mapInterrupt reads the entry, then writes the half that holds     *)
(* vector and mask, then the half that holds the destination.              *)
(***************************************************************************)
mapInterrupt(n, v, c) ==
  /\ Ready /\ mode = "apic" /\ Owners(n) # {}
  /\ redir' = [redir EXCEPT ![SlotOf(n)].mask = FALSE, ![SlotOf(n)].vector = v]
  /\ torn' = <<SlotOf(n), c>>
  /\ opened' = opened \cup {<<k, n - IOAPICs[k].base>> : k \in Owners(n)}
  /\ route' = [s \in Slots |-> IF IOAPICs[s[1]].base + s[2] = n
                                THEN [vector |-> v, cpu |-> c] ELSE route[s]]
  /\ UNCHANGED <<mode, pic, cpu, pending>>

\* Faulty: the destination is taken from the entry that was read.
mapInterruptUpperOld ==
  /\ Runs /\ torn # <<>>
  /\ torn' = <<>>
  /\ UNCHANGED <<mode, pic, cpu, redir, opened, route, pending>>

mapInterruptUpper ==
  /\ Runs /\ torn # <<>>
  /\ redir' = [redir EXCEPT ![torn[1]].cpu = torn[2]]
  /\ torn' = <<>>
  /\ UNCHANGED <<mode, pic, cpu, opened, route, pending>>

-----------------------------------------------------------------------------
(***************************************************************************)
(* The controllers.                                                        *)
(***************************************************************************)
RaiseLine(line) ==
  /\ ~stopped /\ raises < MaxRaises
  /\ lines' = lines \cup {line} /\ raises' = raises + 1
  /\ UNCHANGED <<mode, pic, cpu, apic, service, irr, isr, active, stopped>>

\* A pin's edge is sent as a message unless the pin is masked.
RaisePin(s) ==
  /\ ~stopped /\ raises < MaxRaises /\ mode = "apic"
  /\ ~redir[s].mask
  /\ irr' = IF redir[s].cpu = BootCpu THEN irr \cup {redir[s].vector} ELSE irr
  /\ raises' = raises + 1
  /\ UNCHANGED <<mode, pic, cpu, apic, lines, service, isr, active, stopped>>

\* No line of the same or a higher priority is in service.
PicMayInterrupt(line) ==
  /\ \A l \in service : ~(l \in Slave <=> line \in Slave) \/ line < l
  /\ line \in Slave => \A l \in service \ Slave : Cascade < l

\* Entering an interrupt: the gate clears the flag and the stub calls the
\* callback; systemError stops, and so does a vector that has no gate.
Enter(v) ==
  /\ active' = v
  /\ flag' = FALSE
  /\ stopped' = (callbacks[v] # "handler")

DeliverLine(line) ==
  /\ ~stopped /\ flag /\ line \in lines \ masked
  /\ PicMayInterrupt(line)
  /\ lines' = lines \ {line}
  /\ service' = service \cup {line} \cup (IF line \in Slave THEN {Cascade} ELSE {})
  /\ Enter(Offset + line)
  /\ UNCHANGED <<mode, pic, callbacks, caller, removed, apic, irr, isr, raises>>

DeliverVector ==
  /\ ~stopped /\ flag /\ irr # {}
  /\ \A v \in isr : v < Max(irr)
  /\ irr' = irr \ {Max(irr)}
  /\ isr' = isr \cup {Max(irr)}
  /\ Enter(Max(irr))
  /\ UNCHANGED <<mode, pic, callbacks, caller, removed, apic, lines, service, raises>>

\* A non-specific end of interrupt, for one PIC.
Acknowledge(chip) == IF service \cap chip = {} THEN {} ELSE {Min(service \cap chip)}

\* Faulty: the second PIC is not told.
PicAcknowledgedFirst(v) ==
  IF v > Offset THEN Acknowledge(Lines \ Slave) ELSE {}

\* sendEOI in PIC mode; line 0 fails the comparison.
PicAcknowledged(v) ==
  IF v > Offset
  THEN Acknowledge(Lines \ Slave)
         \cup (IF v >= Offset + Half THEN Acknowledge(Slave) ELSE {})
  ELSE {}

\* Faulty: the local APIC is not told.
ApicServiceKept == isr

ApicService == IF isr = {} THEN {} ELSE isr \ {Max(isr)}

\* generic_interrupt_handler after the callback: sendEOI, then iret.
FinishInterrupt ==
  /\ ~stopped /\ active # None
  /\ IF mode = "pic"
     THEN service' = service \ PicAcknowledged(active) /\ UNCHANGED isr
     ELSE isr' = ApicService /\ UNCHANGED service
  /\ active' = None /\ flag' = TRUE
  /\ UNCHANGED <<mode, pic, callbacks, caller, removed, apic, lines, irr, raises, stopped>>

Halted == stopped /\ UNCHANGED vars

Deliver == DeliverVector \/ \E l \in DeviceLines : DeliverLine(l)

Devices == (\E l \in DeviceLines : RaiseLine(l)) \/ \E s \in Slots : RaisePin(s)

Operation ==
  \/ setupInterruptVectorTable \/ switchToAPICMode \/ mapInterruptUpper
  \/ \E v \in Routed \cup {Offset + l : l \in DeviceLines} :
       setupInterruptHandler(v)
  \/ \E v \in Routed : RemoveHandler(v)
  \/ \E on \in BOOLEAN :
       \/ SetFlag(on)
       \/ \E l \in DeviceLines : setHardwareInterruptEnabledPIC(l, on)
       \/ \E s \in Slots :
            setHardwareInterruptEnabledAPIC(IOAPICs[s[1]].base + s[2], on)
  \/ \E s \in Slots, v \in Routed, c \in {BootCpu, OtherCpu} :
       mapInterrupt(IOAPICs[s[1]].base + s[2], v, c)

Next == Operation \/ Devices \/ Deliver \/ FinishInterrupt \/ Halted

Spec == Init /\ [][Next]_vars /\ WF_vars(Deliver) /\ WF_vars(FinishInterrupt)
             /\ WF_vars(mapInterruptUpper)

-----------------------------------------------------------------------------
\* Types.
TypeOK ==
  /\ mode \in {"none", "pic", "apic"}
  /\ recorded \subseteq Lines /\ masked \subseteq Lines
  /\ callbacks \in [Vectors -> {"none", "systemError", "handler"}]
  /\ flag \in BOOLEAN /\ caller \in BOOLEAN /\ removed \in BOOLEAN
  /\ written \in BOOLEAN /\ stopped \in BOOLEAN
  /\ lines \subseteq Lines /\ service \subseteq Lines
  /\ redir \in [Slots -> RedirectionEntry]
  /\ torn # <<>> => torn[1] \in Slots /\ torn[2] \in {BootCpu, OtherCpu}
  /\ opened \subseteq Slots
  /\ route \in [Slots -> {<<>>} \cup [vector : Vectors, cpu : {BootCpu, OtherCpu}]]
  /\ irr \subseteq Vectors /\ isr \subseteq Vectors
  /\ active \in Vectors \cup {None}
  /\ raises \in 0 .. MaxRaises

\* isHardwareInterruptEnabled and hardwareInterruptToVector tell what the
\* controllers do: in PIC mode once the mask has been written (before that the
\* recorded mask need not be the real one), in APIC mode for every pin but the
\* last one of an IOAPIC.
EnabledAsTold ==
  \A l \in DeviceLines :
    /\ mode = "pic" /\ written =>
         (isHardwareInterruptEnabled(l) <=> l \notin masked)
    /\ mode = "apic" => \A s \in Slots :
         IOAPICs[s[1]].base + s[2] = getSourceOverride(l) /\ ~LastPin(s) =>
           /\ isHardwareInterruptEnabled(l) <=> ~redir[s].mask
           /\ hardwareInterruptToVector(l) = redir[s].vector

\* Outside handlers the interrupt flag is what the kernel last set it to,
\* except after a handler was removed.
FlagAsLeft == active = None => flag = caller \/ removed

\* Every interrupt that was handled is also acknowledged: with no handler
\* running nothing is left in service, but for PIC line 0, which never is.
NothingLeftInService ==
  active = None => isr = {} /\ (mode = "pic" => service \subseteq {0})

\* An interrupt leaves nothing behind: types, no vector in service, and the
\* interrupt flag as the kernel left it.
InterruptLeavesNothing == TypeOK /\ NothingLeftInService /\ FlagAsLeft

\* In APIC mode a pin is unmasked only if a caller routed or enabled it, or
\* if it is the last pin of its IOAPIC, which the kernel never touches.
OnlyAskedPinsOpen ==
  mode = "apic" => \A s \in Slots :
                     ~redir[s].mask => s \in opened \/ LastPin(s)

\* A pin that a caller routed keeps the vector and the processor asked for
\* through every later operation on it or on other pins.  Only between the two
\* writes of mapInterrupt the pin, open already, still has its old processor.
RoutesKept ==
  \A s \in Slots :
    route[s] # <<>> =>
      /\ redir[s].vector = route[s].vector
      /\ redir[s].cpu = route[s].cpu \/ (torn # <<>> /\ torn[1] = s)

\* The IOAPICs' pins are as asked for: open only on request, and with the route
\* of the last request.
PinsAsAsked == OnlyAskedPinsOpen /\ RoutesKept

\* A pending vector is delivered as long as interrupts stay enabled, and a
\* pending unmasked PIC line too as long as line 0 was never served.
PendingDelivered ==
  /\ \A v \in Routed :
       v \in irr ~> (v \notin irr \/ ~caller \/ removed \/ stopped)
  /\ \A l \in DeviceLines :
       (l \in lines /\ l \notin masked)
         ~> (l \notin lines \/ l \in masked \/ 0 \in service
               \/ ~caller \/ removed \/ stopped)
=============================================================================

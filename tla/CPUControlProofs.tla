-------------------------- MODULE CPUControlProofs --------------------------
(***************************************************************************)
(* Proofs about src/src/CPUControl: interrupt dispatch, for every number   *)
(* of PIC lines, every set of IOAPICs and overrides, and however often     *)
(* devices interrupt; sleep(), for every set of durations; and the start   *)
(* of the secondary processors, for every machine the start-up interrupts  *)
(* reach.                                                                  *)
(***************************************************************************)
EXTENDS Interrupts, Sleep, SmpBoot, CommonFacts, FiniteSetTheorems

\* The vector of the interrupt in progress is what is in service: one line of
\* the PICs with its cascade, or one vector of the local APIC.
PicService ==
  mode = "pic" =>
    IF active = None THEN service \subseteq {0}
    ELSE \E l \in DeviceLines :
           /\ active = Offset + l
           /\ service = {l} \cup (IF l \in Slave THEN {Cascade} ELSE {})

LapicService ==
  IF mode = "apic"
  THEN /\ masked = Lines
       /\ isr = IF active = None THEN {} ELSE {active}
  ELSE irr = {} /\ isr = {}

\* Before the vector table is set up nothing can interrupt.
NothingYet == mode = "none" => ~flag /\ active = None /\ service = {}

\* A handler runs with interrupts disabled, and was entered with them enabled.
FlagInHandler == active # None => ~flag /\ (caller \/ removed)

ServiceInv ==
  /\ TypeOK /\ PicService /\ LapicService
  /\ NothingYet /\ FlagInHandler /\ FlagAsLeft

\* The route being written is the one the caller asked for.
TornRoute ==
  torn # <<>> => route[torn[1]] # <<>> /\ route[torn[1]].cpu = torn[2]

PinInv == TypeOK /\ TornRoute /\ OnlyAskedPinsOpen /\ RoutesKept

\* In PIC mode the mask last written is the one recorded.
MaskInv == TypeOK /\ (mode = "pic" /\ written => masked = recorded)

-----------------------------------------------------------------------------
\* What the MADT says of an IOAPIC.
LEMMA IOAPICType ==
  ASSUME NEW k \in 1 .. Len(IOAPICs)
  PROVE  /\ IOAPICs[k] \in [base : Nat, max : Nat]
         /\ IOAPICs[k].base \in Nat /\ IOAPICs[k].max \in Nat
<1>1. IOAPICs \in Seq([base : Nat, max : Nat])
  BY InterruptAssumption, Zenon
<1>2. IOAPICs[k] \in [base : Nat, max : Nat]
  BY <1>1, ElementOfSeq, Zenon
<1> QED
  BY <1>2

\* An interrupt that is found has a pin in the table of redirection entries:
\* the lookup never goes beyond an IOAPIC's last pin.
LEMMA SlotFacts ==
  ASSUME NEW n \in Nat, NEW k \in Owners(n)
  PROVE  /\ k \in 1 .. Len(IOAPICs) /\ IOAPICs[k].base \in Nat
         /\ <<k, n - IOAPICs[k].base>> \in Slots
         /\ ~LastPin(<<k, n - IOAPICs[k].base>>)
<1>1. /\ k \in 1 .. Len(IOAPICs)
      /\ IOAPICs[k].base <= n /\ n < IOAPICs[k].base + IOAPICs[k].max
  BY DEF Owners
<1>2. IOAPICs[k] \in [base : Nat, max : Nat]
  BY <1>1, IOAPICType
<1>3. n - IOAPICs[k].base \in 0 .. IOAPICs[k].max /\ n - IOAPICs[k].base # IOAPICs[k].max
  BY <1>1, <1>2
<1>4. <<k, n - IOAPICs[k].base>> \in Slots
  <2> DEFINE p == n - IOAPICs[k].base
  <2>1. p \in 0 .. IOAPICs[k].max
    BY <1>3
  <2> HIDE DEF p
  <2>2. <<k, p>> \in {<<k, j>> : j \in 0 .. IOAPICs[k].max}
    BY <2>1, Zenon
  <2>3. <<k, p>> \in Slots
    BY <1>1, <2>2, Zenon DEF Slots
  <2> QED
    BY <2>3 DEF p
<1> QED
  BY <1>1, <1>2, <1>3, <1>4 DEF LastPin

\* So the entry that is written belongs to the interrupt asked for.
LEMMA SlotOfFacts ==
  ASSUME NEW n \in Nat, Owners(n) # {}
  PROVE  /\ SlotOf(n) \in Slots /\ ~LastPin(SlotOf(n))
         /\ SlotOf(n) \in {<<k, n - IOAPICs[k].base>> : k \in Owners(n)}
         /\ IOAPICs[SlotOf(n)[1]].base + SlotOf(n)[2] = n
<1>1. Owners(n) \subseteq Nat
  BY InterruptAssumption DEF Owners
<1>2. Min(Owners(n)) \in Owners(n)
  BY <1>1, MinFacts
<1> QED
  BY <1>2, SlotFacts DEF SlotOf

\* A pin is an IOAPIC of the MADT and an index up to its last pin's.
LEMMA SlotShape ==
  ASSUME NEW s \in Slots
  PROVE  /\ s[1] \in 1 .. Len(IOAPICs) /\ s[2] \in Nat /\ s = <<s[1], s[2]>>
         /\ s[2] <= IOAPICs[s[1]].max /\ IOAPICs[s[1]] \in [base : Nat, max : Nat]
         /\ IOAPICs[s[1]].base + s[2] \in Nat
<1>1. PICK k \in 1 .. Len(IOAPICs) : s \in {<<k, p>> : p \in 0 .. IOAPICs[k].max}
  BY DEF Slots
<1>2. PICK p \in 0 .. IOAPICs[k].max : s = <<k, p>>
  BY <1>1
<1>3. IOAPICs[k] \in [base : Nat, max : Nat]
  BY IOAPICType
<1> QED
  BY <1>2, <1>3

\* Writing the mask bit leaves the rest of a redirection entry alone.
LEMMA MaskWrite ==
  ASSUME NEW r \in RedirectionEntry, NEW b \in BOOLEAN
  PROVE  LET w == [r EXCEPT !.mask = b]
         IN  w \in RedirectionEntry /\ w.mask = b /\ w.vector = r.vector /\ w.cpu = r.cpu
BY DEF RedirectionEntry

\* Masking or unmasking an interrupt touches nothing but the mask of pins,
\* and opens only pins it was asked for.
LEMMA EnableFacts ==
  ASSUME TypeOK, NEW n \in Nat, NEW on \in BOOLEAN, APIC_setInterruptEnabled(n, on)
  PROVE  /\ redir' \in [Slots -> RedirectionEntry]
         /\ opened \subseteq opened' /\ opened' \subseteq Slots
         /\ \A s \in Slots : /\ redir'[s].vector = redir[s].vector
                             /\ redir'[s].cpu = redir[s].cpu
                             /\ ~redir'[s].mask => ~redir[s].mask \/ s \in opened'
<1>1. CASE Owners(n) = {}
  BY <1>1 DEF APIC_setInterruptEnabled, TypeOK
<1>2. CASE Owners(n) # {}
  <2> DEFINE s0 == SlotOf(n)
  <2>1. s0 \in Slots /\ s0 \in {<<k, n - IOAPICs[k].base>> : k \in Owners(n)}
    BY <1>2, SlotOfFacts
  <2>2. redir' = [redir EXCEPT ![s0] = [redir[s0] EXCEPT !.mask = ~on]]
    BY <1>2, Zenon DEF APIC_setInterruptEnabled
  <2>3. opened' = opened \cup {<<k, n - IOAPICs[k].base>> : k \in {j \in Owners(n) : on}}
    BY <1>2, Zenon DEF APIC_setInterruptEnabled
  <2>4. {<<k, n - IOAPICs[k].base>> : k \in {j \in Owners(n) : on}} \subseteq Slots
    BY SlotFacts
  <2>5. on => s0 \in opened'
    BY <2>1, <2>3
  <2>6. redir \in [Slots -> RedirectionEntry] /\ opened \subseteq Slots
    BY DEF TypeOK
  <2>7. redir[s0] \in RedirectionEntry
    BY <2>1, <2>6
  <2> DEFINE w == [redir[s0] EXCEPT !.mask = ~on]
  <2>w. w \in RedirectionEntry /\ w.mask = ~on /\ w.vector = redir[s0].vector /\ w.cpu = redir[s0].cpu
    <3>1. (~on) \in BOOLEAN
      OBVIOUS
    <3> QED
      BY <2>7, <3>1, MaskWrite, Zenon
  <2>e. redir' = [redir EXCEPT ![s0] = w]
    BY <2>2, Zenon
  <2> HIDE DEF s0, w
  <2>8. /\ redir' \in [Slots -> RedirectionEntry]
        /\ \A s \in Slots : s # s0 => redir'[s] = redir[s]
        /\ redir'[s0].vector = redir[s0].vector /\ redir'[s0].cpu = redir[s0].cpu
        /\ redir'[s0].mask = ~on
    BY <2>1, <2>e, <2>6, <2>w
  <2> QED
    BY <2>1, <2>3, <2>4, <2>5, <2>6, <2>8
<1> QED
  BY <1>1, <1>2

\* The first half of mapInterrupt opens the pin of the interrupt with the
\* vector asked for, and leaves its destination to the second half.
LEMMA MapFacts ==
  ASSUME TypeOK, NEW n \in Nat, NEW v \in Vectors, NEW c \in {BootCpu, OtherCpu},
         mapInterrupt(n, v, c)
  PROVE  /\ redir' \in [Slots -> RedirectionEntry]
         /\ SlotOf(n) \in Slots /\ torn' = <<SlotOf(n), c>>
         /\ \A s \in Slots : s # SlotOf(n) => redir'[s] = redir[s]
         /\ redir'[SlotOf(n)].vector = v
         /\ opened' \subseteq Slots /\ opened \subseteq opened' /\ SlotOf(n) \in opened'
         /\ route' \in [Slots -> {<<>>} \cup [vector : Vectors, cpu : {BootCpu, OtherCpu}]]
<1> DEFINE s0 == SlotOf(n)
<1>1. Owners(n) # {} /\ torn' = <<s0, c>>
  BY Zenon DEF mapInterrupt
<1>2. s0 \in Slots /\ s0 \in {<<k, n - IOAPICs[k].base>> : k \in Owners(n)}
  BY <1>1, SlotOfFacts
<1>3. redir' = [redir EXCEPT ![s0].mask = FALSE, ![s0].vector = v]
  BY Zenon DEF mapInterrupt
<1>4. opened' = opened \cup {<<k, n - IOAPICs[k].base>> : k \in Owners(n)}
  BY Zenon DEF mapInterrupt
<1>5. opened' \subseteq Slots /\ opened \subseteq opened' /\ s0 \in opened'
  BY <1>2, <1>4, SlotFacts DEF TypeOK
<1>6. route' = [s \in Slots |-> IF IOAPICs[s[1]].base + s[2] = n
                                THEN [vector |-> v, cpu |-> c] ELSE route[s]]
  BY Zenon DEF mapInterrupt
<1>7. route' \in [Slots -> {<<>>} \cup [vector : Vectors, cpu : {BootCpu, OtherCpu}]]
  BY <1>6 DEF TypeOK
<1>8. redir \in [Slots -> RedirectionEntry] /\ redir[s0] \in RedirectionEntry
  BY <1>2 DEF TypeOK
<1> HIDE DEF s0
<1>9. /\ redir' \in [Slots -> RedirectionEntry]
      /\ \A s \in Slots : s # s0 => redir'[s] = redir[s]
      /\ redir'[s0].vector = v
  BY <1>2, <1>3, <1>8 DEF RedirectionEntry
<1> QED
  BY <1>1, <1>2, <1>5, <1>7, <1>9 DEF s0

\* The state the kernel starts in has the types.
LEMMA TypeInit ==
  ASSUME Init
  PROVE  TypeOK
<1>1. Firmware \in RedirectionEntry
  BY InterruptAssumption DEF Firmware, RedirectionEntry, Vectors
<1>2. redir \in [Slots -> RedirectionEntry]
  BY <1>1 DEF Init
<1>3. /\ flag \in BOOLEAN /\ caller \in BOOLEAN /\ removed \in BOOLEAN
      /\ written \in BOOLEAN /\ stopped \in BOOLEAN
  BY Zenon DEF Init
<1>4. /\ mode \in {"none", "pic", "apic"}
      /\ callbacks \in [Vectors -> {"none", "systemError", "handler"}]
      /\ route \in [Slots -> {<<>>} \cup [vector : Vectors, cpu : {BootCpu, OtherCpu}]]
  BY DEF Init
<1>5. raises \in 0 .. MaxRaises
  BY InterruptAssumption DEF Init
<1> QED
  BY <1>2, <1>3, <1>4, <1>5 DEF Init, TypeOK

\* Every step keeps the types.
LEMMA TypeStep ==
  ASSUME TypeOK, [Next]_vars
  PROVE  TypeOK'
<1> USE DEF pic, cpu, apic, pending
<1>1. CASE setupInterruptVectorTable
  BY <1>1 DEF TypeOK, setupInterruptVectorTable, remapPICInterrupts
<1>2. CASE switchToAPICMode
  <2>1. redir' \in [Slots -> RedirectionEntry]
    BY <1>2, ZenonT(60) DEF TypeOK, switchToAPICMode, SpuriousMasks, RedirectionEntry
  <2> QED
    BY <1>2, <2>1 DEF TypeOK, switchToAPICMode
<1>3. CASE mapInterruptUpper
  <2>1. redir' \in [Slots -> RedirectionEntry]
    BY <1>3 DEF TypeOK, mapInterruptUpper, RedirectionEntry
  <2> QED
    BY <1>3, <2>1 DEF TypeOK, mapInterruptUpper
<1>4. ASSUME NEW v \in Vectors, setupInterruptHandler(v)
      PROVE  TypeOK'
  BY <1>4 DEF TypeOK, setupInterruptHandler
<1>5. ASSUME NEW v \in Vectors, RemoveHandler(v)
      PROVE  TypeOK'
  BY <1>5 DEF TypeOK, RemoveHandler
<1>6. ASSUME NEW on \in BOOLEAN, SetFlag(on)
      PROVE  TypeOK'
  BY <1>6 DEF TypeOK, SetFlag
<1>7. ASSUME NEW l \in DeviceLines, NEW on \in BOOLEAN,
             setHardwareInterruptEnabledPIC(l, on)
      PROVE  TypeOK'
  <2>1. CASE mode = "pic"
    BY <1>7, <2>1, InterruptAssumption
       DEF TypeOK, setHardwareInterruptEnabledPIC, PIC_setMask, Restored
  <2>2. CASE mode # "pic"
    <3>1. redir' \in [Slots -> RedirectionEntry] /\ opened' \subseteq Slots
      <4>1. getSourceOverride(l) \in Nat
        BY InterruptAssumption DEF getSourceOverride, Lines
      <4>2. APIC_setInterruptEnabled(getSourceOverride(l), on)
        BY <1>7, <2>2 DEF setHardwareInterruptEnabledPIC
      <4> QED
        BY <4>1, <4>2, EnableFacts
    <3> QED
      BY <1>7, <2>2, <3>1 DEF TypeOK, setHardwareInterruptEnabledPIC, Restored
  <2> QED
    BY <2>1, <2>2
<1>8. ASSUME NEW s \in Slots, NEW on \in BOOLEAN,
             setHardwareInterruptEnabledAPIC(IOAPICs[s[1]].base + s[2], on)
      PROVE  TypeOK'
  <2> DEFINE n == IOAPICs[s[1]].base + s[2]
  <2>1. n \in Nat
    BY SlotShape
  <2>2. APIC_setInterruptEnabled(n, on)
    BY <1>8 DEF setHardwareInterruptEnabledAPIC
  <2>3. redir' \in [Slots -> RedirectionEntry] /\ opened' \subseteq Slots
    BY <2>1, <2>2, EnableFacts
  <2> QED
    BY <1>8, <2>3 DEF TypeOK, setHardwareInterruptEnabledAPIC, Restored
<1>9. ASSUME NEW s \in Slots, NEW v \in Routed, NEW c \in {BootCpu, OtherCpu},
             mapInterrupt(IOAPICs[s[1]].base + s[2], v, c)
      PROVE  TypeOK'
  <2> DEFINE n == IOAPICs[s[1]].base + s[2]
  <2>1. n \in Nat /\ v \in Vectors
    BY SlotShape, InterruptAssumption
  <2> HIDE DEF n
  <2>2. mapInterrupt(n, v, c)
    BY <1>9 DEF n
  <2>3. /\ redir' \in [Slots -> RedirectionEntry] /\ opened' \subseteq Slots
        /\ torn'[1] \in Slots /\ torn'[2] \in {BootCpu, OtherCpu}
        /\ route' \in [Slots -> {<<>>} \cup [vector : Vectors, cpu : {BootCpu, OtherCpu}]]
    BY <2>1, <2>2, MapFacts
  <2>4. UNCHANGED <<mode, pic, cpu, pending>>
    BY <2>2 DEF mapInterrupt
  <2> QED
    BY <2>3, <2>4 DEF TypeOK
<1>10. ASSUME NEW l \in DeviceLines, RaiseLine(l)
       PROVE  TypeOK'
  BY <1>10, InterruptAssumption DEF TypeOK, RaiseLine
<1>11. ASSUME NEW s \in Slots, RaisePin(s)
       PROVE  TypeOK'
  BY <1>11, InterruptAssumption DEF TypeOK, RaisePin, RedirectionEntry
<1>12. ASSUME NEW l \in DeviceLines, DeliverLine(l)
       PROVE  TypeOK'
  <2>1. Offset + l \in Vectors /\ l \in Lines /\ Cascade \in Lines
    BY InterruptAssumption DEF Vectors, Lines
  <2> QED
    BY <1>12, <2>1 DEF TypeOK, DeliverLine, Enter
<1>13. CASE DeliverVector
  <2>1. Offset + 2 * Half - 1 \in Nat
    BY InterruptAssumption
  <2>2. Max(irr) \in irr
    BY <1>13, <2>1, MaxFacts DEF TypeOK, DeliverVector, Vectors
  <2> QED
    BY <1>13, <2>2 DEF TypeOK, DeliverVector, Enter
<1>14. CASE FinishInterrupt
  BY <1>14 DEF TypeOK, FinishInterrupt, ApicService
<1>15. CASE UNCHANGED vars
  BY <1>15 DEF TypeOK, vars
<1>16. Routed \subseteq Vectors /\ \A l \in DeviceLines : Offset + l \in Vectors
  BY InterruptAssumption DEF Vectors, Lines
<1> QED
  BY <1>1, <1>2, <1>3, <1>4, <1>5, <1>6, <1>7, <1>8, <1>9, <1>10, <1>11, <1>12,
     <1>13, <1>14, <1>15, <1>16 DEF Next, Operation, Devices, Deliver, Halted

-----------------------------------------------------------------------------
(***************************************************************************)
(* What is in service.                                                     *)
(***************************************************************************)
\* With at most line 0 in service, a line is delivered only if none is.
LEMMA FirstInService ==
  ASSUME NEW l \in DeviceLines, service \subseteq {0}, PicMayInterrupt(l)
  PROVE  service = {}
<1>1. l \in Nat /\ Cascade \in Nat /\ 0 \notin Slave
  BY InterruptAssumption DEF Lines, Slave
<1>2. SUFFICES ASSUME 0 \in service PROVE FALSE
  OBVIOUS
<1>3. CASE l \in Slave
  BY <1>1, <1>2, <1>3 DEF PicMayInterrupt
<1>4. CASE l \notin Slave
  BY <1>1, <1>2, <1>4 DEF PicMayInterrupt
<1> QED
  BY <1>3, <1>4

\* The end of a PIC interrupt takes the line that was delivered and the
\* cascade out of service; only line 0 stays.
LEMMA PicEnd ==
  ASSUME NEW l \in DeviceLines,
         service = {l} \cup (IF l \in Slave THEN {Cascade} ELSE {})
  PROVE  service \ PicAcknowledged(Offset + l) \subseteq {0}
<1>1. /\ l \in Nat /\ l \in Lines /\ Half \in Nat /\ Offset \in Nat
      /\ Cascade \in Lines \ Slave /\ Cascade \in Nat
  BY InterruptAssumption DEF Lines, Slave
<1>2. Min({l}) = l /\ Min({Cascade}) = Cascade
  BY <1>1, SingleFacts
<1>3. CASE l \in Slave
  <2>1. Offset + l > Offset /\ Offset + l >= Offset + Half
    BY <1>1, <1>3, InterruptAssumption DEF Slave
  <2>2. service \cap Slave = {l} /\ service \cap (Lines \ Slave) = {Cascade}
    BY <1>1, <1>3
  <2>3. Acknowledge(Slave) = {l} /\ Acknowledge(Lines \ Slave) = {Cascade}
    BY <1>2, <2>2, Zenon DEF Acknowledge
  <2>4. PicAcknowledged(Offset + l) = {Cascade} \cup {l}
    BY <2>1, <2>3 DEF PicAcknowledged
  <2> QED
    BY <2>4, <1>3
<1>4. CASE l \notin Slave /\ l > 0
  <2>1. Offset + l > Offset /\ ~(Offset + l >= Offset + Half)
    BY <1>1, <1>4 DEF Slave, Lines
  <2>2. service \cap (Lines \ Slave) = {l}
    BY <1>1, <1>4
  <2>3. Acknowledge(Lines \ Slave) = {l}
    BY <1>2, <2>2, Zenon DEF Acknowledge
  <2>4. PicAcknowledged(Offset + l) = {l}
    BY <2>1, <2>3 DEF PicAcknowledged
  <2> QED
    BY <2>4, <1>4
<1>5. CASE l \notin Slave /\ l = 0
  BY <1>5
<1> QED
  BY <1>1, <1>3, <1>4, <1>5

\* Every step keeps exactly the interrupt being handled in service.
LEMMA ServiceStep ==
  ASSUME ServiceInv, [Next]_vars
  PROVE  ServiceInv'
<1> USE DEF pic, cpu, apic, pending
<1>0. TypeOK /\ TypeOK'
  BY TypeStep DEF ServiceInv
<1> DEFINE Rest == PicService /\ LapicService /\ NothingYet /\ FlagInHandler /\ FlagAsLeft
<1> USE DEF PicService, LapicService, NothingYet, FlagInHandler, FlagAsLeft
<1>i. Rest
  BY DEF ServiceInv
<1> SUFFICES Rest'
  BY <1>0 DEF ServiceInv
<1>1. CASE setupInterruptVectorTable
  BY <1>0, <1>i, <1>1 DEF TypeOK, setupInterruptVectorTable, remapPICInterrupts, Ready, Runs
<1>2. CASE switchToAPICMode
  BY <1>0, <1>i, <1>2 DEF TypeOK, switchToAPICMode, Ready, Runs
<1>3. CASE mapInterruptUpper
  BY <1>0, <1>i, <1>3 DEF TypeOK, mapInterruptUpper
<1>4. ASSUME NEW v, setupInterruptHandler(v)
      PROVE  Rest'
  BY <1>0, <1>i, <1>4 DEF TypeOK, setupInterruptHandler
<1>5. ASSUME NEW v, RemoveHandler(v)
      PROVE  Rest'
  BY <1>0, <1>i, <1>5 DEF TypeOK, RemoveHandler, Ready, Runs
<1>6. ASSUME NEW on \in BOOLEAN, SetFlag(on)
      PROVE  Rest'
  BY <1>0, <1>i, <1>6 DEF TypeOK, SetFlag, Ready, Runs
<1>7. ASSUME NEW l \in DeviceLines, NEW on \in BOOLEAN,
             setHardwareInterruptEnabledPIC(l, on)
      PROVE  Rest'
  BY <1>0, <1>i, <1>7 DEF TypeOK, setHardwareInterruptEnabledPIC, Restored
<1>8. ASSUME NEW n, NEW on \in BOOLEAN, setHardwareInterruptEnabledAPIC(n, on)
      PROVE  Rest'
  BY <1>0, <1>i, <1>8 DEF TypeOK, setHardwareInterruptEnabledAPIC, Restored
<1>9. ASSUME NEW n, NEW v, NEW c, mapInterrupt(n, v, c)
      PROVE  Rest'
  BY <1>0, <1>i, <1>9 DEF TypeOK, mapInterrupt
<1>10. ASSUME NEW l \in DeviceLines, RaiseLine(l)
       PROVE  Rest'
  BY <1>0, <1>i, <1>10 DEF TypeOK, RaiseLine
<1>11. ASSUME NEW s \in Slots, RaisePin(s)
       PROVE  Rest'
  BY <1>0, <1>i, <1>11 DEF TypeOK, RaisePin
<1>12. ASSUME NEW l \in DeviceLines, DeliverLine(l)
       PROVE  Rest'
  <2>1. flag /\ active = None /\ active' = Offset + l /\ active' # None /\ flag' = FALSE
    BY <1>0, <1>i, <1>12, InterruptAssumption DEF TypeOK, DeliverLine, Enter, None, Lines
  <2>2. mode = "pic"
    BY <1>0, <1>i, <1>12, <2>1 DEF TypeOK, DeliverLine
  <2>3. service = {}
    BY <1>i, <1>12, <2>1, <2>2, FirstInService DEF DeliverLine
  <2>4. service' = {l} \cup (IF l \in Slave THEN {Cascade} ELSE {})
    BY <1>12, <2>3 DEF DeliverLine
  <2> QED
    BY <1>0, <1>i, <1>12, <2>1, <2>2, <2>4 DEF TypeOK, DeliverLine
<1>13. CASE DeliverVector
  <2>1. Offset + 2 * Half - 1 \in Nat
    BY InterruptAssumption
  <2>2. Max(irr) \in irr /\ Max(irr) # None
    BY <1>0, <1>13, <2>1, MaxFacts DEF TypeOK, DeliverVector, Vectors, None
  <2>3. flag /\ active = None /\ mode = "apic"
    BY <1>0, <1>i, <1>13 DEF TypeOK, DeliverVector
  <2> QED
    BY <1>0, <1>i, <1>13, <2>2, <2>3 DEF TypeOK, DeliverVector, Enter
<1>14. CASE FinishInterrupt
  <2>1. active # None /\ active' = None /\ flag' = TRUE /\ active \in Nat
    BY <1>0, <1>14, InterruptAssumption DEF TypeOK, FinishInterrupt, Vectors
  <2>2. CASE mode = "pic"
    <3>1. PICK l \in DeviceLines :
             /\ active = Offset + l
             /\ service = {l} \cup (IF l \in Slave THEN {Cascade} ELSE {})
      BY <1>i, <2>1, <2>2
    <3>2. service' \subseteq {0}
      <4>1. service' = service \ PicAcknowledged(Offset + l)
        BY <1>14, <2>2, <3>1 DEF FinishInterrupt
      <4> QED
        BY <3>1, <4>1, PicEnd
    <3> QED
      BY <1>0, <1>i, <1>14, <2>1, <2>2, <3>2 DEF TypeOK, FinishInterrupt
  <2>3. CASE mode = "apic"
    <3>1. isr' = {}
      BY <1>i, <1>14, <2>1, <2>3, SingleFacts DEF FinishInterrupt, ApicService
    <3> QED
      BY <1>0, <1>i, <1>14, <2>1, <2>3, <3>1 DEF TypeOK, FinishInterrupt
  <2> QED
    BY <1>0, <1>i, <2>1, <2>2, <2>3 DEF TypeOK
<1>15. CASE UNCHANGED vars
  BY <1>i, <1>15 DEF vars
<1> HIDE DEF Rest
<1> QED
  BY <1>1, <1>2, <1>3, <1>4, <1>5, <1>6, <1>7, <1>8, <1>9, <1>10, <1>11, <1>12,
     <1>13, <1>14, <1>15 DEF Next, Operation, Devices, Deliver, Halted

\* An interrupt leaves nothing behind, however often devices interrupt and
\* whatever the PICs and IOAPICs are: no vector stays in service after the end
\* of interrupt but PIC line 0, and the flag is the one the kernel left.
THEOREM InterruptsLeaveNothing == Spec => []InterruptLeavesNothing
<1>1. Init => ServiceInv
  <2> HAVE Init
  <2> QED
    BY TypeInit DEF Init, ServiceInv, PicService, LapicService, NothingYet, FlagInHandler,
       FlagAsLeft
<1>2. ServiceInv /\ [Next]_vars => ServiceInv'
  BY ServiceStep
<1>3. ServiceInv => InterruptLeavesNothing
  BY DEF ServiceInv, InterruptLeavesNothing, NothingLeftInService, PicService, LapicService
<1> QED
  BY <1>1, <1>2, <1>3, PTL DEF Spec

-----------------------------------------------------------------------------
(***************************************************************************)
(* The pins.                                                               *)
(***************************************************************************)
\* A step that leaves the IOAPICs, and what was asked of them, alone.
LEMMA PinsAlone ==
  ASSUME PinInv, TypeOK', UNCHANGED apic, mode' = mode \/ mode' # "apic"
  PROVE  PinInv'
BY DEF PinInv, TornRoute, OnlyAskedPinsOpen, RoutesKept, apic

\* Masking and unmasking keep routes, and open no pin that was not asked for.
LEMMA PinsEnabled ==
  ASSUME PinInv, TypeOK', NEW n \in Nat, NEW on \in BOOLEAN,
         APIC_setInterruptEnabled(n, on), UNCHANGED <<mode, torn, route>>
  PROVE  PinInv'
<1>1. TypeOK
  BY DEF PinInv
<1>2. /\ opened \subseteq opened'
      /\ \A s \in Slots : /\ redir'[s].vector = redir[s].vector
                          /\ redir'[s].cpu = redir[s].cpu
                          /\ ~redir'[s].mask => ~redir[s].mask \/ s \in opened'
  BY <1>1, EnableFacts
<1>u. mode' = mode /\ torn' = torn /\ route' = route
  OBVIOUS
<1>3. OnlyAskedPinsOpen'
  BY <1>2, <1>u DEF PinInv, OnlyAskedPinsOpen, LastPin
<1>4. RoutesKept' /\ TornRoute'
  BY <1>2, <1>u DEF PinInv, RoutesKept, TornRoute
<1> QED
  BY <1>3, <1>4 DEF PinInv

\* Every step keeps the pins as they were asked for.
LEMMA PinStep ==
  ASSUME PinsDisjoint, PinInv, [Next]_vars
  PROVE  PinInv'
<1>0. TypeOK /\ TypeOK'
  BY TypeStep DEF PinInv
<1>1. CASE setupInterruptVectorTable
  BY <1>0, <1>1, PinsAlone DEF setupInterruptVectorTable, remapPICInterrupts
<1>2. CASE switchToAPICMode
  <2>1. /\ redir' = SpuriousMasks /\ UNCHANGED <<torn, opened, route>>
    BY <1>2 DEF switchToAPICMode
  <2>2. \A s \in Slots : redir[s] \in RedirectionEntry
    BY <1>0 DEF TypeOK
  <2>3. \A s \in Slots : /\ redir'[s].vector = redir[s].vector
                         /\ redir'[s].cpu = redir[s].cpu
                         /\ ~LastPin(s) => redir'[s].mask = TRUE
    BY <2>1, <2>2 DEF SpuriousMasks, RedirectionEntry
  <2>4. OnlyAskedPinsOpen'
    BY <2>3 DEF OnlyAskedPinsOpen, LastPin
  <2>5. RoutesKept' /\ TornRoute'
    BY <2>1, <2>3 DEF PinInv, RoutesKept, TornRoute
  <2> QED
    BY <1>0, <2>4, <2>5 DEF PinInv
<1>3. CASE mapInterruptUpper
  <2> DEFINE s0 == torn[1]
  <2>1. /\ s0 \in Slots /\ torn # <<>> /\ torn' = <<>>
        /\ redir' = [redir EXCEPT ![s0].cpu = torn[2]]
        /\ UNCHANGED <<mode, opened, route>>
    BY <1>0, <1>3 DEF mapInterruptUpper, TypeOK
  <2>2. redir \in [Slots -> RedirectionEntry]
    BY <1>0 DEF TypeOK
  <2>3. /\ \A s \in Slots : redir'[s].vector = redir[s].vector
        /\ \A s \in Slots : redir'[s].mask = redir[s].mask
        /\ \A s \in Slots \ {s0} : redir'[s].cpu = redir[s].cpu
        /\ redir'[s0].cpu = torn[2]
    BY <2>1, <2>2 DEF RedirectionEntry
  <2>4. OnlyAskedPinsOpen'
    BY <2>1, <2>3 DEF PinInv, OnlyAskedPinsOpen, LastPin
  <2>5. RoutesKept' /\ TornRoute'
    BY <2>1, <2>3 DEF PinInv, RoutesKept, TornRoute
  <2> QED
    BY <1>0, <2>4, <2>5 DEF PinInv
<1>4. ASSUME NEW v, setupInterruptHandler(v)
      PROVE  PinInv'
  BY <1>0, <1>4, PinsAlone DEF setupInterruptHandler
<1>5. ASSUME NEW v, RemoveHandler(v)
      PROVE  PinInv'
  BY <1>0, <1>5, PinsAlone DEF RemoveHandler
<1>6. ASSUME NEW on \in BOOLEAN, SetFlag(on)
      PROVE  PinInv'
  BY <1>0, <1>6, PinsAlone DEF SetFlag
<1>7. ASSUME NEW l \in DeviceLines, NEW on \in BOOLEAN,
             setHardwareInterruptEnabledPIC(l, on)
      PROVE  PinInv'
  <2>1. CASE mode = "pic"
    BY <1>0, <1>7, <2>1, PinsAlone DEF setHardwareInterruptEnabledPIC, apic
  <2>2. CASE mode # "pic"
    <3>1. getSourceOverride(l) \in Nat
      BY InterruptAssumption DEF getSourceOverride, Lines
    <3>2. APIC_setInterruptEnabled(getSourceOverride(l), on) /\ UNCHANGED <<mode, torn, route>>
      BY <1>7, <2>2 DEF setHardwareInterruptEnabledPIC
    <3> QED
      BY <1>0, <3>1, <3>2, PinsEnabled
  <2> QED
    BY <2>1, <2>2
<1>8. ASSUME NEW s \in Slots, NEW on \in BOOLEAN,
             setHardwareInterruptEnabledAPIC(IOAPICs[s[1]].base + s[2], on)
      PROVE  PinInv'
  <2> DEFINE n == IOAPICs[s[1]].base + s[2]
  <2>1. n \in Nat
    BY SlotShape
  <2>2. APIC_setInterruptEnabled(n, on) /\ UNCHANGED <<mode, torn, route>>
    BY <1>8 DEF setHardwareInterruptEnabledAPIC
  <2> QED
    BY <1>0, <2>1, <2>2, PinsEnabled
<1>9. ASSUME NEW s \in Slots, NEW v \in Routed, NEW c \in {BootCpu, OtherCpu},
             mapInterrupt(IOAPICs[s[1]].base + s[2], v, c)
      PROVE  PinInv'
  <2> DEFINE n == IOAPICs[s[1]].base + s[2]
             s0 == SlotOf(n)
  <2>1. n \in Nat /\ v \in Vectors
    BY SlotShape, InterruptAssumption, SMTT(60)
  <2>2. Owners(n) # {} /\ torn = <<>> /\ UNCHANGED mode
    BY <1>9 DEF mapInterrupt, Ready
  <2>3. /\ s0 \in Slots /\ torn' = <<s0, c>>
        /\ \A t \in Slots : t # s0 => redir'[t] = redir[t]
        /\ redir'[s0].vector = v
        /\ opened \subseteq opened' /\ s0 \in opened'
    BY <1>0, <1>9, <2>1, MapFacts
  <2>4. \A t \in Slots : IOAPICs[t[1]].base + t[2] = n <=> t = s0
    BY <2>1, <2>2, SlotOfFacts, SMTT(60) DEF PinsDisjoint
  <2>5. route' = [t \in Slots |-> IF t = s0 THEN [vector |-> v, cpu |-> c] ELSE route[t]]
    BY <1>9, <2>4 DEF mapInterrupt
  <2> HIDE DEF n, s0
  <2>6. OnlyAskedPinsOpen'
    BY <2>2, <2>3 DEF PinInv, OnlyAskedPinsOpen, LastPin
  <2>7. /\ \A t \in Slots : t # s0 => route'[t] = route[t]
        /\ route'[s0] = [vector |-> v, cpu |-> c]
    BY <2>3, <2>5
  <2>8. [vector |-> v, cpu |-> c] # <<>>
    OBVIOUS
  <2>9. TornRoute'
    BY <2>3, <2>7, <2>8 DEF TornRoute
  <2>10. RoutesKept'
    BY <2>2, <2>3, <2>7 DEF PinInv, RoutesKept
  <2> QED
    BY <1>0, <2>6, <2>9, <2>10 DEF PinInv
<1>10. ASSUME NEW l \in DeviceLines, RaiseLine(l) \/ DeliverLine(l)
       PROVE  PinInv'
  BY <1>0, <1>10, PinsAlone DEF RaiseLine, DeliverLine
<1>11. ASSUME NEW s \in Slots, RaisePin(s)
       PROVE  PinInv'
  BY <1>0, <1>11, PinsAlone DEF RaisePin
<1>12. CASE DeliverVector \/ FinishInterrupt
  BY <1>0, <1>12, PinsAlone DEF DeliverVector, FinishInterrupt
<1>13. CASE UNCHANGED vars
  BY <1>0, <1>13, PinsAlone DEF vars
<1> QED
  BY <1>1, <1>2, <1>3, <1>4, <1>5, <1>6, <1>7, <1>8, <1>9, <1>10, <1>11, <1>12,
     <1>13 DEF Next, Operation, Devices, Deliver, Halted

\* Where the firmware numbers the pins without overlap, a pin is open only on
\* request and has the route of the last mapInterrupt, whatever is masked,
\* unmasked or routed in between.
THEOREM PinsStayAsAsked ==
  ASSUME PinsDisjoint
  PROVE  Spec => []PinsAsAsked
<1>1. Init => PinInv
  <2> HAVE Init
  <2>1. \A s \in Slots : route[s] = <<>>
    BY DEF Init
  <2> QED
    BY <2>1, TypeInit DEF Init, PinInv, TornRoute, OnlyAskedPinsOpen, RoutesKept
<1>2. PinInv /\ [Next]_vars => PinInv'
  BY PinStep
<1>3. PinInv => PinsAsAsked
  BY DEF PinInv, PinsAsAsked
<1> QED
  BY <1>1, <1>2, <1>3, PTL DEF Spec

-----------------------------------------------------------------------------
(***************************************************************************)
(* The queries.                                                            *)
(***************************************************************************)
\* A pin that is not an IOAPIC's last one is found again by its interrupt.
LEMMA PinFound ==
  ASSUME PinsDisjoint, PinsInWindow, NEW s \in Slots, ~LastPin(s)
  PROVE  LET n == IOAPICs[s[1]].base + s[2]
         IN  n \in Nat /\ Owners(n) # {} /\ SlotOf(n) = s
<1> DEFINE n == IOAPICs[s[1]].base + s[2]
<1>1. /\ s[1] \in 1 .. Len(IOAPICs) /\ s[2] \in Nat /\ n \in Nat
      /\ s[2] <= IOAPICs[s[1]].max /\ IOAPICs[s[1]] \in [base : Nat, max : Nat]
  BY SlotShape
<1>2. IOAPICs[s[1]].max <= PinWindow /\ s[2] # IOAPICs[s[1]].max
  BY <1>1 DEF PinsInWindow, LastPin
<1>3. IOAPICs[s[1]].max \in Nat /\ IOAPICs[s[1]].base \in Nat /\ PinWindow \in Nat
  BY <1>1, InterruptAssumption
<1>4. s[1] \in Owners(n)
  BY <1>1, <1>2, <1>3, SMTT(60) DEF Owners
<1>5. SlotOf(n) \in Slots /\ IOAPICs[SlotOf(n)[1]].base + SlotOf(n)[2] = n
  BY <1>1, <1>4, SlotOfFacts
<1> QED
  BY <1>1, <1>4, <1>5 DEF PinsDisjoint

\* Every step keeps the recorded mask the real one, once it was written.
LEMMA MaskStep ==
  ASSUME MaskInv, [Next]_vars
  PROVE  MaskInv'
<1> USE DEF pic, MaskInv
<1>0. TypeOK /\ TypeOK'
  BY TypeStep
<1>1. CASE setupInterruptVectorTable
  BY <1>0, <1>1 DEF setupInterruptVectorTable, remapPICInterrupts
<1>2. CASE switchToAPICMode
  BY <1>0, <1>2 DEF switchToAPICMode
<1>3. CASE mapInterruptUpper
  BY <1>0, <1>3 DEF mapInterruptUpper
<1>4. ASSUME NEW v, setupInterruptHandler(v) \/ RemoveHandler(v)
      PROVE  MaskInv'
  BY <1>0, <1>4 DEF setupInterruptHandler, RemoveHandler
<1>5. ASSUME NEW on \in BOOLEAN, SetFlag(on)
      PROVE  MaskInv'
  BY <1>0, <1>5 DEF SetFlag
<1>6. ASSUME NEW l, NEW on \in BOOLEAN, setHardwareInterruptEnabledPIC(l, on)
      PROVE  MaskInv'
  BY <1>0, <1>6 DEF setHardwareInterruptEnabledPIC, PIC_setMask
<1>7. ASSUME NEW n, NEW on \in BOOLEAN, setHardwareInterruptEnabledAPIC(n, on)
      PROVE  MaskInv'
  BY <1>0, <1>7 DEF setHardwareInterruptEnabledAPIC
<1>8. ASSUME NEW n, NEW v, NEW c, mapInterrupt(n, v, c)
      PROVE  MaskInv'
  BY <1>0, <1>8 DEF mapInterrupt
<1>9. ASSUME NEW l, RaiseLine(l) \/ DeliverLine(l)
      PROVE  MaskInv'
  BY <1>0, <1>9 DEF RaiseLine, DeliverLine
<1>10. ASSUME NEW s, RaisePin(s)
       PROVE  MaskInv'
  BY <1>0, <1>10 DEF RaisePin
<1>11. CASE DeliverVector \/ FinishInterrupt
  BY <1>0, <1>11 DEF DeliverVector, FinishInterrupt
<1>12. CASE UNCHANGED vars
  BY <1>0, <1>12 DEF vars
<1> QED
  BY <1>1, <1>2, <1>3, <1>4, <1>5, <1>6, <1>7, <1>8, <1>9, <1>10, <1>11, <1>12
     DEF Next, Operation, Devices, Deliver, Halted

\* isHardwareInterruptEnabled and hardwareInterruptToVector tell the truth
\* about every pin but an IOAPIC's last, wherever the firmware numbers pins
\* without overlap and no IOAPIC has more than fit the code's window of 24.
THEOREM QueriesTellTheTruth ==
  ASSUME PinsDisjoint, PinsInWindow
  PROVE  Spec => []EnabledAsTold
<1>1. Init => MaskInv
  BY TypeInit DEF Init, MaskInv
<1>2. MaskInv /\ [Next]_vars => MaskInv'
  BY MaskStep
<1>3. MaskInv => EnabledAsTold
  <2> SUFFICES ASSUME MaskInv, NEW l \in DeviceLines
               PROVE  /\ mode = "pic" /\ written =>
                           (isHardwareInterruptEnabled(l) <=> l \notin masked)
                      /\ mode = "apic" => \A s \in Slots :
                           IOAPICs[s[1]].base + s[2] = getSourceOverride(l) /\ ~LastPin(s) =>
                             /\ isHardwareInterruptEnabled(l) <=> ~redir[s].mask
                             /\ hardwareInterruptToVector(l) = redir[s].vector
    BY DEF EnabledAsTold
  <2>1. ASSUME mode = "pic", written
        PROVE  isHardwareInterruptEnabled(l) <=> l \notin masked
    BY <2>1 DEF MaskInv, isHardwareInterruptEnabled
  <2>2. ASSUME mode = "apic", NEW s \in Slots,
               IOAPICs[s[1]].base + s[2] = getSourceOverride(l), ~LastPin(s)
        PROVE  /\ isHardwareInterruptEnabled(l) <=> ~redir[s].mask
               /\ hardwareInterruptToVector(l) = redir[s].vector
    <3> DEFINE n == getSourceOverride(l)
    <3>1. Owners(n) # {} /\ SlotOf(n) = s
      BY <2>2, PinFound
    <3> QED
      BY <2>2, <3>1 DEF isHardwareInterruptEnabled, hardwareInterruptToVector
  <2> QED
    BY <2>1, <2>2
<1> QED
  BY <1>1, <1>2, <1>3, PTL DEF Spec

-----------------------------------------------------------------------------
(***************************************************************************)
(* sleep() never loses its wake-up, never returns early and hands the      *)
(* interrupt flag back, for every set of durations longer than the CPU's   *)
(* way from the counter to hlt and every HPET that has timer 2.            *)
(*                                                                         *)
(* The inductive invariant says, for every place in sleep(), where the one *)
(* wake-up of this sleep is: not yet requested, ahead in the comparator,   *)
(* pending at the local APIC, or taken.                                    *)
(***************************************************************************)

Before == {"idle", "spin", "setTimer"}
Armed == {"enable", "clear", "save"}

\* The wake-up has not been asked for.
NotRequested == ~armed /\ ~irq
\* The match lies ahead and within reach of the CPU's next steps.
Ahead == armed /\ ~irq /\ elapsed <= MaxDrift
\* The duration is over and the handler has run.
Taken == sleepDone /\ ~armed /\ ~irq /\ elapsed = ticks

WakeUp ==
  /\ place # "idle" => ticks \in Durations /\ count > 0
  /\ place \in Before => NotRequested
  /\ place = "program" => NotRequested /\ elapsed <= MaxDrift
  /\ place \in Armed => Ahead
  /\ place \in {"clear", "save", "check", "halt", "halted"} => timerEnabled
  /\ place \in {"save", "halt", "halted"} => ~sleepDone
  /\ place = "check" => Taken \/ (~sleepDone /\ Ahead)
  /\ place = "halt" => Ahead
  /\ place = "halted" => \/ armed /\ ~irq /\ elapsed < ticks
                         \/ ~armed /\ irq /\ elapsed = ticks
  /\ place = "restore" => Taken

\* Where the caller's interrupt flag is.
CallersFlag ==
  /\ place \notin {"idle", "check", "halt", "halted", "restore"} => IF_ = flagAtCall
  /\ place \in {"check", "halt", "halted", "restore"} =>
        IF_ /\ interruptEnabled = flagAtCall

SleepInv == SleepTypeOK /\ WakeUp /\ CallersFlag

\* One step of the CPU, the timer or the caller preserves the invariant.
LEMMA SleepStep ==
  ASSUME LongSleeps, Timer < NumberOfCounters, SleepInv, [SleepNext]_sleepVars
  PROVE  SleepInv'
<1> USE SleepAssumption DEF SleepTypeOK, Places
<1>0. MaxDrift \in Nat /\ Durations \subseteq Nat /\ (place # "idle" => MaxDrift < ticks)
  BY DEF LongSleeps, SleepInv, WakeUp
<1>1. CASE CallerTogglesInterrupts
  BY <1>1 DEF SleepInv, WakeUp, CallersFlag, CallerTogglesInterrupts, sleepCpu,
     Before, Armed, NotRequested, Ahead, Taken
<1>2. CASE Call
  <2>1. PICK d \in Durations, n \in 1 .. MaxCount : sleep(d, n)
    BY <1>2 DEF Call
  <2> QED
    BY <2>1 DEF SleepInv, WakeUp, CallersFlag, sleep,
       Before, Armed, NotRequested, Ahead, Taken
<1>3. CASE SpinUntilFree
  BY <1>3 DEF SleepInv, WakeUp, CallersFlag, SpinUntilFree, sleepCpu,
     Before, Armed, NotRequested, Ahead, Taken
<1>4. CASE ReadCounter
  BY <1>0, <1>4 DEF SleepInv, WakeUp, CallersFlag, ReadCounter, sleepCpu,
     Before, Armed, NotRequested, Ahead, Taken
<1>5. CASE ProgramComparator
  <2>0. elapsed < ticks
    BY <1>0, <1>5 DEF SleepInv, WakeUp, ProgramComparator
  <2>1. armed' = TRUE
    BY <1>5, <2>0, Zenon DEF ProgramComparator
  <2> QED
    BY <1>0, <1>5, <2>1 DEF SleepInv, WakeUp, CallersFlag, ProgramComparator, sleepCpu,
       Before, Armed, NotRequested, Ahead, Taken
<1>6. CASE EnableTimer
  BY <1>6 DEF SleepInv, WakeUp, CallersFlag, EnableTimer, sleepCpu,
     Before, Armed, NotRequested, Ahead, Taken
<1>7. CASE ClearSleepDone
  BY <1>7 DEF SleepInv, WakeUp, CallersFlag, ClearSleepDone, sleepCpu,
     Before, Armed, NotRequested, Ahead, Taken
<1>8. CASE SaveAndEnable
  BY <1>8 DEF SleepInv, WakeUp, CallersFlag, SaveAndEnable,
     Before, Armed, NotRequested, Ahead, Taken
<1>9. CASE CheckSleepDone
  BY <1>9 DEF SleepInv, WakeUp, CallersFlag, CheckSleepDone, sleepCpu,
     Before, Armed, NotRequested, Ahead, Taken
<1>10. CASE EnableAndHalt
  BY <1>0, <1>10 DEF SleepInv, WakeUp, CallersFlag, EnableAndHalt, sleepCpu,
     Before, Armed, NotRequested, Ahead, Taken
<1>11. CASE RestoreAndReturn
  <2>1. IF_' \in BOOLEAN /\ (place' # "idle" => IF_' = flagAtCall)
    BY <1>11 DEF SleepInv, CallersFlag, RestoreAndReturn
  <2>2. count' \in 0 .. MaxCount /\ (place' # "idle" => count' > 0)
    BY <1>11 DEF SleepInv, WakeUp, RestoreAndReturn
  <2> QED
    BY <1>11, <2>1, <2>2 DEF SleepInv, WakeUp, CallersFlag, RestoreAndReturn,
       Before, Armed, NotRequested, Ahead, Taken
<1>12. CASE handleSleep
  BY <1>0, <1>12 DEF SleepInv, WakeUp, CallersFlag, handleSleep, sleepCpu,
     Before, Armed, NotRequested, Ahead, Taken
<1>13. CASE Tick
  BY <1>0, <1>13 DEF SleepInv, WakeUp, CallersFlag, Tick, sleepCpu,
     Before, Armed, NotRequested, Ahead, Taken
<1>14. CASE UNCHANGED sleepVars
  BY <1>14 DEF SleepInv, WakeUp, CallersFlag, sleepVars, sleepCpu,
     Before, Armed, NotRequested, Ahead, Taken
<1> QED
  BY <1>1, <1>2, <1>3, <1>4, <1>5, <1>6, <1>7, <1>8, <1>9, <1>10, <1>11, <1>12,
     <1>13, <1>14 DEF SleepNext, Execute

\* The invariant holds throughout every execution.
THEOREM SleepInvariant ==
  ASSUME LongSleeps, Timer < NumberOfCounters
  PROVE  SleepSpec => []SleepInv
<1>1. SleepInit => SleepInv
  <2> HAVE SleepInit
  <2>1. SleepTypeOK
    <3>1. /\ hasInit \in BOOLEAN /\ sleepDone \in BOOLEAN
          /\ interruptEnabled \in BOOLEAN /\ IF_ \in BOOLEAN
          /\ flagAtCall \in BOOLEAN /\ armed \in BOOLEAN
          /\ timerEnabled \in BOOLEAN /\ irq \in BOOLEAN
      BY Zenon DEF SleepInit
    <3>2. /\ place \in Places /\ ticks \in Durations \cup {0}
          /\ count \in 0 .. MaxCount /\ elapsed \in Nat /\ elapsed <= ticks
      <4>1. place = "idle" /\ ticks = 0 /\ count = 0 /\ elapsed = 0
        BY DEF SleepInit
      <4> QED
        BY <4>1, SleepAssumption DEF Places
    <3> QED
      BY <3>1, <3>2 DEF SleepTypeOK
  <2>2. WakeUp
    BY DEF SleepInit, WakeUp, Before, Armed, NotRequested
  <2>3. CallersFlag
    BY DEF SleepInit, CallersFlag
  <2> QED
    BY <2>1, <2>2, <2>3 DEF SleepInv
<1>2. SleepInv /\ [SleepNext]_sleepVars => SleepInv'
  BY SleepStep
<1> QED
  BY <1>1, <1>2, PTL DEF SleepSpec

\* A halted CPU always has its wake-up ahead of it: no interleaving of the
\* timer with time.cpp:22-29 loses it when sleeps outlast the way to hlt.
THEOREM WakeupNeverLost ==
  ASSUME LongSleeps, Timer < NumberOfCounters
  PROVE  SleepSpec => []NoLostWakeup
<1>1. SleepInv => NoLostWakeup
  BY DEF SleepInv, WakeUp, CallersFlag, NoLostWakeup
<1> QED
  BY <1>1, SleepInvariant, PTL

\* sleep() leaves its wait loop only after the whole duration.
THEOREM NeverShort ==
  ASSUME LongSleeps, Timer < NumberOfCounters
  PROVE  SleepSpec => []SleepNotShort
<1>1. SleepInv => SleepNotShort
  BY DEF SleepInv, WakeUp, Taken, SleepNotShort
<1> QED
  BY <1>1, SleepInvariant, PTL

\* Every return of sleep() restores the caller's interrupt flag.
THEOREM FlagGivenBack ==
  ASSUME LongSleeps, Timer < NumberOfCounters
  PROVE  SleepSpec => FlagRestored
<1>1. SleepInv /\ [SleepNext]_sleepVars => (place # "idle" /\ place' = "idle" => IF_' = flagAtCall)
  <2> SUFFICES ASSUME SleepInv, SleepNext, place # "idle", place' = "idle"
               PROVE  IF_' = flagAtCall
    BY DEF sleepVars
  <2>1. RestoreAndReturn
    BY DEF SleepNext, Execute, CallerTogglesInterrupts, Call, sleep, SpinUntilFree,
       ReadCounter, ProgramComparator, EnableTimer, ClearSleepDone, SaveAndEnable,
       CheckSleepDone, EnableAndHalt, handleSleep, Tick
  <2> QED
    BY <2>1 DEF RestoreAndReturn, SleepInv, SleepTypeOK, CallersFlag
<1> QED
  BY <1>1, SleepInvariant, PTL DEF SleepSpec, FlagRestored

-----------------------------------------------------------------------------
(***************************************************************************)
(* The start of the secondary processors is a handshake over one flag and  *)
(* one stack, for every machine whose processors the interrupts reach.     *)
(*                                                                         *)
(* The inductive invariant says who may be on the trampoline at every      *)
(* place of initCPU: nobody until the start-up interrupt is sent, then     *)
(* only processor i, and only while the flag is set.                       *)
(***************************************************************************)

Preparing == {"assert", "deassert", "setId", "start"}
Started == {"sleep", "wait"}

\* The destination register holds an id that was started before, or i.
TargetBehind == target \in Secondaries \cup {0} /\ target <= i

Trampolined ==
  /\ pc \in {"begin"} \cup Preparing \cup Started => i \in Secondaries
  /\ pc \in Preparing => secondaryCpuInInit
  /\ pc \in {"start"} \cup Started => secondaryCpuId = i
  /\ pc \notin Started => OnTrampolineStack = {}
  /\ \A c \in OnTrampolineStack : c = i /\ secondaryCpuInInit

IdRead == \A c \in Secondaries : cpus[c] = "print" => cpuid[c] = c

BootInv == SmpTypeOK /\ TargetBehind /\ Trampolined /\ IdRead /\ ReportsOwnId

-----------------------------------------------------------------------------
\* While initCPU runs for processor i, sendInterrupt reaches exactly it.
LEMMA ReachesTarget ==
  ASSUME IdsNest, BootInv, i \in Secondaries
  PROVE  Destination(i) = i
<1>1. /\ cpuBitmap \in Machines /\ i \in cpuBitmap \ {Self}
      /\ target \in (cpuBitmap \ {Self}) \cup {0} /\ target <= i
  BY DEF BootInv, SmpTypeOK, TargetBehind, Secondaries
<1> QED
  BY <1>1 DEF IdsNest, Destination

\* So an interrupt changes the state of processor i only, as the processor
\* answers to it.
LEMMA SentToTarget ==
  ASSUME IdsNest, BootInv, i \in Secondaries, NEW m, sendInterrupt(i, m)
  PROVE  /\ target' = i
         /\ cpus' = [d \in Secondaries |-> IF d = i THEN Effect(m, cpus[i]) ELSE cpus[d]]
BY ReachesTarget DEF sendInterrupt

\* Every step of the boot processor or of a secondary keeps the handshake.
LEMMA BootStep ==
  ASSUME IdsNest, BootInv, [SmpNext]_smpVars
  PROVE  BootInv'
<1> USE DEF bsp, aps, Preparing, Started
<1>0. SmpTypeOK /\ TargetBehind /\ Trampolined /\ IdRead /\ ReportsOwnId
  BY DEF BootInv
<1>m. Secondaries \subseteq 0 .. 63 /\ i \in Nat /\ target \in Nat
  BY <1>0, SmpAssumption DEF SmpTypeOK, Secondaries, LastId
<1>1. CASE NextCpu
  <2>1. Secondaries' = Secondaries /\ OnTrampolineStack' = OnTrampolineStack
    BY <1>1 DEF NextCpu, Secondaries, OnTrampolineStack
  <2>n. /\ pc = "next" /\ OnTrampolineStack = {}
        /\ UNCHANGED <<cpuBitmap, target, secondaryCpuInInit, secondaryCpuId, cpus, aps>>
    BY <1>0, <1>1 DEF NextCpu, Trampolined
  <2>2. CASE {c \in Secondaries : c >= i} = {}
    <3>1. i' = LastId + 1 /\ pc' = "done"
      BY <1>1, <2>2 DEF NextCpu
    <3> QED
      BY <1>0, <1>m, <2>1, <2>n, <3>1 DEF BootInv, SmpTypeOK, LastId, TargetBehind,
         Trampolined, IdRead, ReportsOwnId
  <2>3. CASE {c \in Secondaries : c >= i} # {}
    <3>1. i' = Min({c \in Secondaries : c >= i}) /\ pc' = "begin"
      BY <1>1, <2>3 DEF NextCpu
    <3>2. i' \in Secondaries /\ i' >= i
      <4> DEFINE rest == {c \in Secondaries : c >= i}
      <4>0. \A c \in Secondaries : c \in Nat
        BY <1>m
      <4>1. rest \subseteq Nat
        BY <4>0, Zenon
      <4>2. rest # {}
        BY <2>3, Zenon
      <4> HIDE DEF rest
      <4>3. Min(rest) \in rest
        BY <4>1, <4>2, MinFacts
      <4> QED
        BY <3>1, <4>3 DEF rest
    <3> QED
      BY <1>0, <1>m, <2>1, <2>n, <3>1, <3>2 DEF BootInv, SmpTypeOK, LastId,
         TargetBehind, Trampolined, IdRead, ReportsOwnId
  <2> QED
    BY <2>2, <2>3
<1>2. CASE BeginInit
  BY <1>0, <1>2 DEF BeginInit, BootInv, SmpTypeOK, TargetBehind, Trampolined, IdRead,
     ReportsOwnId, Secondaries, OnTrampolineStack
<1>3. CASE AssertInit
  <2>1. i \in Secondaries
    BY <1>0, <1>3 DEF AssertInit, Trampolined
  <2>2. /\ target' = i
        /\ cpus' = [d \in Secondaries |-> IF d = i THEN "waitForStart" ELSE cpus[d]]
    BY <1>3, <2>1, SentToTarget DEF AssertInit, Effect
  <2>3. OnTrampolineStack' = {}
    BY <1>0, <1>3, <2>2 DEF AssertInit, Trampolined, OnTrampolineStack, Secondaries, Running
  <2> QED
    BY <1>0, <1>3, <1>m, <2>1, <2>2, <2>3 DEF AssertInit, BootInv, SmpTypeOK, LastId,
       TargetBehind, Trampolined, IdRead, ReportsOwnId, Secondaries
<1>4. CASE DeassertInit
  <2>1. i \in Secondaries
    BY <1>0, <1>4 DEF DeassertInit, Trampolined
  <2>2. target' = i /\ cpus' = cpus
    BY <1>0, <1>4, <2>1, SentToTarget DEF DeassertInit, Effect, SmpTypeOK
  <2> QED
    BY <1>0, <1>4, <1>m, <2>1, <2>2 DEF DeassertInit, BootInv, SmpTypeOK, LastId,
       TargetBehind, Trampolined, IdRead, ReportsOwnId, Secondaries, OnTrampolineStack
<1>5. CASE SetId
  BY <1>0, <1>5, <1>m DEF SetId, BootInv, SmpTypeOK, LastId, TargetBehind, Trampolined, IdRead,
     ReportsOwnId, Secondaries, OnTrampolineStack
<1>6. CASE SendStartUp
  <2>1. i \in Secondaries
    BY <1>0, <1>6 DEF SendStartUp, Trampolined
  <2>2. /\ target' = i
        /\ cpus' = [d \in Secondaries |->
                     IF d = i /\ cpus[i] = "waitForStart" THEN "trampoline16" ELSE cpus[d]]
    BY <1>6, <2>1, SentToTarget DEF SendStartUp, Effect
  <2>3. \A c \in OnTrampolineStack' : c = i
    BY <1>0, <1>6, <2>2 DEF SendStartUp, Trampolined, OnTrampolineStack, Secondaries
  <2> QED
    BY <1>0, <1>6, <1>m, <2>1, <2>2, <2>3 DEF SendStartUp, BootInv, SmpTypeOK, LastId,
       TargetBehind, Trampolined, IdRead, ReportsOwnId, Secondaries, Running
<1>7. CASE SleepAfterStart
  BY <1>0, <1>7 DEF SleepAfterStart, BootInv, SmpTypeOK, TargetBehind, Trampolined, IdRead,
     ReportsOwnId, Secondaries, OnTrampolineStack
<1>8. CASE WaitForCpu
  <2>1. OnTrampolineStack' = {} /\ Secondaries' = Secondaries
    BY <1>0, <1>8 DEF WaitForCpu, Trampolined, OnTrampolineStack, Secondaries
  <2>2. i + 1 \in 0 .. LastId + 1
    BY <1>0, <1>8, <1>m DEF WaitForCpu, Trampolined, LastId
  <2> QED
    BY <1>0, <1>8, <1>m, <2>1, <2>2 DEF WaitForCpu, BootInv, SmpTypeOK, TargetBehind, Trampolined,
       IdRead, ReportsOwnId
<1>9. ASSUME NEW c \in Secondaries, Trampoline(c)
      PROVE  BootInv'
  <2>1. /\ c \in OnTrampolineStack /\ Secondaries' = Secondaries
        /\ \E m \in {"trampoline32", "trampoline64", "main"} : cpus' = [cpus EXCEPT ![c] = m]
    BY <1>9 DEF Trampoline, OnTrampolineStack, Running, Secondaries
  <2>2. OnTrampolineStack' = OnTrampolineStack
    BY <1>0, <2>1 DEF SmpTypeOK, OnTrampolineStack, Running
  <2> QED
    BY <1>0, <1>9, <2>1, <2>2 DEF Trampoline, BootInv, SmpTypeOK, TargetBehind, Trampolined,
       IdRead, ReportsOwnId, Running
<1>10. ASSUME NEW c \in Secondaries, ReadId(c)
       PROVE  BootInv'
  <2>1. c \in OnTrampolineStack /\ Secondaries' = Secondaries
    BY <1>10 DEF ReadId, OnTrampolineStack, Running, Secondaries
  <2>2. secondaryCpuId = c
    BY <1>0, <2>1 DEF Trampolined
  <2>3. OnTrampolineStack' = OnTrampolineStack
    BY <1>0, <1>10, <2>1 DEF SmpTypeOK, ReadId, OnTrampolineStack, Running
  <2> QED
    BY <1>0, <1>10, <2>1, <2>2, <2>3 DEF ReadId, BootInv, SmpTypeOK, TargetBehind, Trampolined,
       IdRead, ReportsOwnId, Running
<1>11. ASSUME NEW c \in Secondaries, PrintStarted(c)
       PROVE  BootInv'
  <2>1. c \in OnTrampolineStack /\ Secondaries' = Secondaries
    BY <1>11 DEF PrintStarted, OnTrampolineStack, Running, Secondaries
  <2>2. cpuid[c] = c
    BY <1>0, <1>11 DEF IdRead, PrintStarted
  <2>3. OnTrampolineStack' = OnTrampolineStack
    BY <1>0, <1>11, <2>1 DEF SmpTypeOK, PrintStarted, OnTrampolineStack, Running
  <2> QED
    BY <1>0, <1>11, <2>1, <2>2, <2>3 DEF PrintStarted, BootInv, SmpTypeOK, TargetBehind,
       Trampolined, IdRead, ReportsOwnId, Running
<1>12. ASSUME NEW c \in Secondaries, ReportDone(c)
       PROVE  BootInv'
  <2>1. c \in OnTrampolineStack /\ Secondaries' = Secondaries
    BY <1>12 DEF ReportDone, OnTrampolineStack, Running, Secondaries
  <2>2. c = i /\ pc \in Started
    BY <1>0, <2>1 DEF Trampolined
  <2>3. OnTrampolineStack' = {}
    BY <1>0, <1>12, <2>1, <2>2 DEF SmpTypeOK, ReportDone, Trampolined, OnTrampolineStack, Running
  <2> QED
    BY <1>0, <1>12, <2>1, <2>2, <2>3 DEF ReportDone, BootInv, SmpTypeOK, TargetBehind,
       Trampolined, IdRead, ReportsOwnId
<1>13. CASE UNCHANGED smpVars
  BY <1>0, <1>13 DEF smpVars, BootInv, SmpTypeOK, TargetBehind, Trampolined, IdRead, ReportsOwnId,
     Secondaries, OnTrampolineStack
<1> QED
  BY <1>1, <1>2, <1>3, <1>4, <1>5, <1>6, <1>7, <1>8, <1>9, <1>10, <1>11, <1>12, <1>13
     DEF SmpNext, initAllCPUs, Secondary, secondaryCpuMain, Booted

\* The invariant gives the handshake: at most processor i is on the stack.
LEMMA BootInvSound ==
  ASSUME BootInv
  PROVE  HandshakeSound
<1>1. OnTrampolineStack = {} \/ OnTrampolineStack = {i}
  BY DEF BootInv, Trampolined
<1>2. Cardinality({}) = 0 /\ Cardinality({i}) = 1
  BY FS_EmptySet, FS_Singleton
<1>3. Cardinality(OnTrampolineStack) <= 1
  BY <1>1, <1>2
<1> QED
  BY <1>3 DEF BootInv, HandshakeSound, OneOnTrampolineStack, Trampolined, Started

\* On every machine whose ids nest, and however slow a processor is: the
\* trampoline's one stack has at most one processor on it, nobody is reset
\* before it has reported, and every processor prints its own id, although
\* APIC.cpp:318 takes no lock.
THEOREM HandshakeHolds ==
  ASSUME IdsNest
  PROVE  SmpFairSpec => []HandshakeSound
<1>1. SmpInit => BootInv
  <2> HAVE SmpInit
  <2>1. Self \in cpuBitmap /\ cpuBitmap \subseteq 0 .. 63
    BY SmpAssumption DEF SmpInit
  <2>2. OnTrampolineStack = {}
    BY DEF SmpInit, OnTrampolineStack, Running
  <2>3. secondaryCpuInInit \in BOOLEAN
    BY Zenon DEF SmpInit
  <2>4. SmpTypeOK
    BY <2>1, <2>3 DEF SmpInit, SmpTypeOK, LastId, Secondaries
  <2> QED
    BY <2>2, <2>4 DEF SmpInit, BootInv, TargetBehind, Trampolined, IdRead, ReportsOwnId,
       Preparing, Started
<1>2. BootInv /\ [SmpNext]_smpVars => BootInv'
  BY BootStep
<1>3. BootInv => HandshakeSound
  BY BootInvSound
<1> QED
  BY <1>1, <1>2, <1>3, PTL DEF SmpFairSpec, SmpSpec
=============================================================================

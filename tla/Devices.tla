------------------------------- MODULE Devices -------------------------------
(***************************************************************************)
(* Finding PCI devices and the text output they extend:                    *)
(* src/src/PCI/pci.cpp, src/src/PCI/serial.cpp,                            *)
(* src/src/BasicOutput/Output.cpp and VGATextOut.cpp.                      *)
(*                                                                         *)
(* The recursive walk over buses is a stack of items still to be visited.  *)
(* Each function found is listed on the default output and offered to the  *)
(* serial handler, which may add an output, and to the SATA handler.       *)
(* Strings have a few characters; what a controller prints is left out.    *)
(***************************************************************************)
EXTENDS Integers, SequencesExt

CONSTANTS
  Machines,      \* [regions, functions, serial]: MCFG entries [start, end];
                 \* <<bus, device, function>> -> [class, multi, secondary];
                 \* serial ports that pass the loopback test
  PageZero,      \* what physical page 0 looks like as a function
  DevicesPerBus, FunctionsPerDevice, HostBuses,   \* 32, 8, 8
  RingSize,      \* 4096
  Width, Height, \* 80, 25
  Chars,         \* characters the kernel prints before and after the walk
  MaxPrinted,    \* it prints them while the text is shorter than this
  MaxDepth       \* nested buses the stack has room for

VARIABLES
  machine,       \* the machine the kernel runs on
  pc,            \* "boot", "scan", "done"
  stack,         \* items to visit, the next one first
  found,         \* functions offered to the handlers, in order
  controllers,   \* SATA controllers initialised, in order
  outputs,       \* serial ports combined into the default output
  out,           \* ring buffer, screen and ports
  text,          \* history: everything printed
  replayed,      \* history: port -> characters replayed and text length then
  stopped        \* the stack has overflowed

vars == <<machine, pc, stack, found, controllers, outputs, out, text, replayed, stopped>>

Nul == "nul"
Blank == "blank"
NewLine == "newline"

ASSUME DevicesAssumption ==
  /\ RingSize \in Nat \ {0} /\ Width \in Nat \ {0} /\ Height \in Nat \ {0}
  /\ DevicesPerBus \in Nat /\ FunctionsPerDevice \in Nat \ {0} /\ HostBuses \in Nat \ {0}
  /\ MaxDepth \in Nat \ {0}
  /\ PageZero.multi \in BOOLEAN /\ PageZero.secondary \in Nat
  /\ \A m \in Machines :
       /\ m.regions \in Seq([start : Nat, end : Nat])
       /\ \A i \in 1 .. Len(m.regions) : m.regions[i].start <= m.regions[i].end
       /\ \A f \in DOMAIN m.functions :
            /\ f \in Nat \X (0 .. DevicesPerBus - 1) \X (0 .. FunctionsPerDevice - 1)
            /\ m.functions[f] # <<>>
            /\ m.functions[f].multi \in BOOLEAN /\ m.functions[f].secondary \in Nat
       /\ m.serial \subseteq DOMAIN m.functions

-----------------------------------------------------------------------------
(***************************************************************************)
(* Text output.                                                            *)
(***************************************************************************)
\* Faulty: the index does not wrap around.
AdvanceFar(i) == i + 1

Advance(i) == (i + 1) % RingSize

\* Faulty: the buffer begins with the third oldest character.
StartTwoAfter(end) == (end + 2) % RingSize

\* The test for a full buffer is an assignment: the buffer counts as full from
\* the first character on.
StartAfter(end) == (end + 1) % RingSize

\* addToBuffer
AddToBuffer(o, c) ==
  [o EXCEPT !.ring[o.end] = c, !.end = Advance(o.end),
            !.start = StartAfter(Advance(o.end)), !.size = RingSize]

\* Faulty: the last line keeps its text.
ScrolledKeeps(screen) ==
  [i \in DOMAIN screen |-> IF i < (Height - 1) * Width THEN screen[i + Width]
                           ELSE screen[i]]

Scrolled(screen) ==
  [i \in DOMAIN screen |-> IF i < (Height - 1) * Width THEN screen[i + Width]
                           ELSE Blank]

\* VGATextOut::printImpl
VgaPrint(o, c) ==
  LET index == IF c = NewLine THEN (o.index \div Width + 1) * Width ELSE o.index + 1
      screen == IF c = NewLine THEN o.screen ELSE [o.screen EXCEPT ![o.index] = c]
  IN  IF index \div Width = Height
      THEN [o EXCEPT !.screen = Scrolled(screen), !.index = (Height - 1) * Width]
      ELSE [o EXCEPT !.screen = screen, !.index = index]

\* CombinedOutput::printImpl, once for every output that was combined.
ToPorts(o, c, ports) ==
  [o EXCEPT !.sent = [p \in DOMAIN @ |->
     @[p] \o [i \in 1 .. Cardinality({k \in DOMAIN ports : ports[k] = p}) |-> c]]]

\* Output::print on the default output.
PutChar(o, c, ports) == ToPorts(VgaPrint(AddToBuffer(o, c), c), c, ports)

\* Output::readBuffer for a buffer of the ring's size.
ReadBuffer(o) == [i \in 1 .. o.size |-> o.ring[(o.start + i - 1) % RingSize]]

-----------------------------------------------------------------------------
(***************************************************************************)
(* The walk.                                                               *)
(***************************************************************************)
Buses(m) == {f[1] : f \in DOMAIN m.functions}

Configured(m, bus) ==
  \E i \in 1 .. Len(m.regions) :
    m.regions[i].start <= bus /\ bus <= m.regions[i].end

\* getConfigurationSpace and the header behind it; <<>> if the vendor is
\* 0xFFFF.  A bus that no region has is looked for at physical address 0.
Header(m, f) ==
  IF ~Configured(m, f[1]) THEN PageZero
  ELSE IF f \in DOMAIN m.functions THEN m.functions[f] ELSE <<>>

\* What is still to be done: print f, walk f, or offer f to a handler.
Item(kind, f, depth) == [kind |-> kind, f |-> f, depth |-> depth]
Text(chars) == [i \in 1 .. Len(chars) |-> Item("print", chars[i], 0)]
BusItems(bus, depth) ==
  [d \in 1 .. DevicesPerBus |-> Item("device", <<bus, d - 1, 0>>, depth)]

\* The devices of the buses below a host bridge, bus by bus.
HostItems(buses) ==
  [k \in 1 .. buses * DevicesPerBus |->
     Item("device", <<(k - 1) \div DevicesPerBus, (k - 1) % DevicesPerBus, 0>>, 1)]

Init ==
  /\ machine \in Machines
  /\ pc = "boot" /\ stack = <<>> /\ found = <<>> /\ controllers = <<>>
  /\ outputs = <<>>
  /\ out = [ring |-> [i \in 0 .. RingSize - 1 |-> Nul], start |-> 0, end |-> 0, size |-> 0,
            screen |-> [i \in 0 .. Width * Height - 1 |-> Blank], index |-> 0,
            sent |-> [p \in DOMAIN machine.functions |-> <<>>]]
  /\ text = <<>> /\ stopped = FALSE
  /\ replayed = [p \in DOMAIN machine.functions |-> <<>>]

KernelPrints(c) ==
  /\ pc # "scan" /\ Len(text) < MaxPrinted
  /\ out' = PutChar(out, c, outputs) /\ text' = Append(text, c)
  /\ UNCHANGED <<machine, pc, stack, found, controllers, outputs, replayed, stopped>>

\* PCI::init: the heading, then iterateDevices.
StartScan ==
  /\ pc = "boot" /\ pc' = "scan"
  /\ stack' = Text(<<"heading", NewLine>>) \o
                [i \in 1 .. Len(machine.regions) |->
                   Item("region", <<machine.regions[i].start, 0, 0>>, 0)]
  /\ UNCHANGED <<machine, found, controllers, outputs, out, text, replayed, stopped>>

Visit(kind) == pc = "scan" /\ ~stopped /\ stack # <<>> /\ Head(stack).kind = kind

Continue(items) ==
  /\ stack' = items \o Tail(stack)
  /\ UNCHANGED <<machine, pc, found, controllers, outputs, out, text, replayed, stopped>>

PrintNext ==
  /\ Visit("print") /\ stack' = Tail(stack)
  /\ out' = PutChar(out, Head(stack).f, outputs) /\ text' = Append(text, Head(stack).f)
  /\ UNCHANGED <<machine, pc, found, controllers, outputs, replayed, stopped>>

\* The host bridge of a region: its buses are numbered from 0, and there are
\* eight of them if it has several functions.
VisitRegion ==
  /\ Visit("region")
  /\ LET h == Header(machine, Head(stack).f) IN
     Continue(IF h = <<>> THEN <<>>
              ELSE HostItems(IF h.multi THEN HostBuses ELSE 1))

\* Faulty: the functions of a multi-function device are left out.
DeviceItemsFirst(f, multi, depth) == <<Item("function", f, depth)>>

\* Function 0, then the others if the device has several.
DeviceItems(f, multi, depth) ==
  [k \in 1 .. (IF multi THEN FunctionsPerDevice ELSE 1) |->
     Item("function", <<f[1], f[2], k - 1>>, depth)]

VisitDevice ==
  /\ Visit("device")
  /\ LET i == Head(stack) IN
     Continue(IF Header(machine, i.f) = <<>> THEN <<>>
              ELSE DeviceItems(i.f, Header(machine, i.f).multi, i.depth))

VisitAbsent ==
  /\ Visit("function") /\ Header(machine, Head(stack).f) = <<>>
  /\ Continue(<<>>)

\* Faulty: the bridge's own bus is walked again.
BehindBridgeOwn(m, f) == f[1]

BehindBridge(m, f) == Header(m, f).secondary

IsBridge(m, f) == Header(m, f) # <<>> /\ Header(m, f).class = "bridge"

\* A bridge is not reported; the walk goes on behind it.
VisitBridge ==
  /\ Visit("function") /\ IsBridge(machine, Head(stack).f)
  /\ LET i == Head(stack) IN
     IF i.depth = MaxDepth
     THEN /\ stopped' = TRUE
          /\ UNCHANGED <<machine, pc, stack, found, controllers, outputs, out, text, replayed>>
     ELSE Continue(BusItems(BehindBridge(machine, i.f), i.depth + 1))

\* Any other function is listed and offered to the handlers, the serial one
\* first.
VisitFunction ==
  LET f == Head(stack).f
      h == Header(machine, f)
  IN  /\ Visit("function") /\ h # <<>> /\ ~IsBridge(machine, f)
      /\ found' = Append(found, f)
      /\ stack' = Text(<<"row", NewLine>>)
                    \o (IF h.class \in {"serial", "sata"} THEN <<Item(h.class, f, 0)>> ELSE <<>>)
                    \o Tail(stack)
      /\ UNCHANGED <<machine, pc, controllers, outputs, out, text, replayed, stopped>>

\* The loopback test.
SerialValid(f) == f \in machine.serial

\* Serial's constructor tests the port and announces what it found.
NewSerial ==
  /\ Visit("serial")
  /\ LET f == Head(stack).f IN
     Continue(Text(<<"serial", NewLine>>)
              \o (IF SerialValid(f) THEN <<Item("join", f, 0)>> ELSE <<>>))

\* The port gets the buffer and becomes part of the default output.
Join ==
  LET f == Head(stack).f
  IN  /\ Visit("join") /\ stack' = Tail(stack)
      /\ out' = [out EXCEPT !.sent[f] = @ \o ReadBuffer(out)]
      /\ outputs' = Append(outputs, f)
      /\ replayed' = [replayed EXCEPT ![f] = <<Len(out.sent[f]) + out.size, Len(text)>>]
      /\ UNCHANGED <<machine, pc, found, controllers, text, stopped>>

\* The SATA handler creates a controller.
NewController ==
  /\ Visit("sata") /\ stack' = Tail(stack)
  /\ controllers' = Append(controllers, Head(stack).f)
  /\ UNCHANGED <<machine, pc, found, outputs, out, text, replayed, stopped>>

EndScan ==
  /\ pc = "scan" /\ stack = <<>> /\ pc' = "done"
  /\ UNCHANGED <<machine, stack, found, controllers, outputs, out, text, replayed, stopped>>

Finished == (pc = "done" \/ stopped) /\ UNCHANGED vars

Walk ==
  \/ PrintNext \/ VisitRegion \/ VisitDevice \/ VisitAbsent \/ VisitBridge
  \/ VisitFunction \/ NewSerial \/ Join \/ NewController \/ EndScan

Next == (\E c \in Chars : KernelPrints(c)) \/ StartScan \/ Walk \/ Finished

Spec == Init /\ [][Next]_vars /\ WF_vars(StartScan) /\ WF_vars(Walk)

-----------------------------------------------------------------------------
\* Types.
TypeOK ==
  /\ pc \in {"boot", "scan", "done"} /\ stopped \in BOOLEAN
  /\ out.start \in 0 .. RingSize - 1 /\ out.end \in 0 .. RingSize - 1
  /\ out.size \in 0 .. RingSize /\ out.index \in 0 .. Width * Height - 1
  /\ DOMAIN out.ring = 0 .. RingSize - 1 /\ DOMAIN out.screen = 0 .. Width * Height - 1
  /\ Range(outputs) \subseteq DOMAIN machine.functions
  /\ \A i \in 1 .. Len(stack) : stack[i].depth \in 0 .. MaxDepth

\* The functions that answer: function 0 must, and say that there are others.
Answers(m, f) ==
  /\ Configured(m, f[1]) /\ f \in DOMAIN m.functions
  /\ LET zero == <<f[1], f[2], 0>>
     IN  zero \in DOMAIN m.functions /\ (f[3] > 0 => m.functions[zero].multi)

Bridges(m) == {f \in DOMAIN m.functions : Answers(m, f) /\ m.functions[f].class = "bridge"}

Host(m) == <<m.regions[1].start, 0, 0>>

FirstBuses(m) == 0 .. (IF m.functions[Host(m)].multi THEN HostBuses ELSE 1) - 1

\* The buses below the host bridge: in every set that has the first ones and
\* is closed under bridges.
Reachable(m) ==
  LET all == Buses(m) \cup FirstBuses(m) \cup {m.functions[f].secondary : f \in Bridges(m)}
  IN  {b \in all : \A S \in SUBSET all :
         /\ FirstBuses(m) \subseteq S
         /\ \A f \in Bridges(m) : f[1] \in S => m.functions[f].secondary \in S
         => b \in S}

\* One region that begins with bus 0, has a host bridge and all the buses.
Regular(m) ==
  /\ Len(m.regions) = 1 /\ m.regions[1].start = 0
  /\ Host(m) \in DOMAIN m.functions
  /\ \A b \in Reachable(m) : Configured(m, b)

\* On such a machine the walk finds exactly the functions that answer on the
\* reachable buses, bridges apart.
ScanComplete ==
  pc = "done" /\ Regular(machine) =>
    Range(found) = {f \in DOMAIN machine.functions :
                      /\ Answers(machine, f) /\ f[1] \in Reachable(machine)
                      /\ f \notin Bridges(machine)}

\* Every bus below one bridge at most, and the first bus below none.
Tree(m) ==
  /\ \A f \in Bridges(m) : m.functions[f].secondary > f[1]
  /\ \A f, g \in Bridges(m) : m.functions[f].secondary = m.functions[g].secondary => f = g

\* In a tree of buses every function is found once, and so every controller is
\* initialised once and every port added once, unless the host bridge has
\* several functions.
FoundOnce ==
  Regular(machine) /\ Tree(machine) /\ ~machine.functions[Host(machine)].multi =>
    IsInjective(found) /\ IsInjective(controllers) /\ IsInjective(outputs)

\* Types, and the walk finds everything and finds it once.
ScanSound == TypeOK /\ ScanComplete /\ FoundOnce

LastOf(n, s) == SubSeq(s, IF Len(s) > n THEN Len(s) - n + 1 ELSE 1, Len(s))

\* A port is first sent what was printed before it joined, in order and without
\* a gap, as far as the buffer reaches (its oldest character may be missing and
\* stale bytes may surround it), and then all that is printed later, every
\* character once if the port was found once.  A port that failed its loopback
\* test gets nothing.
PortTranscript ==
  /\ \A p \in DOMAIN out.sent \ machine.serial : out.sent[p] = <<>>
  /\ \A p \in Range(outputs) :
       LET replay == SubSeq(out.sent[p], 1, replayed[p][1])
           known == LastOf(RingSize - 1, SubSeq(text, 1, replayed[p][2]))
       IN  Cardinality({i \in DOMAIN outputs : outputs[i] = p}) = 1 =>
             /\ \E k \in 0 .. Len(replay) - Len(known) :
                  SubSeq(replay, k + 1, k + Len(known)) = known
             /\ SubSeq(out.sent[p], Len(replay) + 1, Len(out.sent[p]))
                  = SubSeq(text, replayed[p][2] + 1, Len(text))

\* The text on endless paper: the cursor, and the character of every place.
Typed(s, c) ==
  IF c = NewLine THEN [s EXCEPT !.row = @ + 1, !.col = 0]
  ELSE [row |-> IF s.col + 1 = Width THEN s.row + 1 ELSE s.row,
        col |-> IF s.col + 1 = Width THEN 0 ELSE s.col + 1,
        cells |-> s.cells \cup {<<s.row, s.col, c>>}]

Paper(t) ==
  LET after[n \in 0 .. Len(t)] ==
        IF n = 0 THEN [row |-> 0, col |-> 0, cells |-> {}] ELSE Typed(after[n - 1], t[n])
  IN  after[Len(t)]

\* What stands at a place of the paper.
CharOf(cells) == IF cells = {} THEN Blank ELSE (CHOOSE x \in cells : TRUE)[3]
Shown(paper, row, col) == CharOf({x \in paper.cells : x[1] = row /\ x[2] = col})

\* The screen shows the last lines of the text, and the cursor is behind it.
ScreenShowsTail ==
  LET paper == Paper(text)
      top == IF paper.row >= Height THEN paper.row - Height + 1 ELSE 0
  IN  /\ out.index = (paper.row - top) * Width + paper.col
      /\ \A r \in 0 .. Height - 1, c \in 0 .. Width - 1 :
           out.screen[r * Width + c] = Shown(paper, top + r, c)

\* The walk ends if no bridge leads back.
ScanEnds == (\A f \in Bridges(machine) : machine.functions[f].secondary > f[1]) => <>(pc = "done")
=============================================================================

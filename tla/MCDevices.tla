------------------------------ MODULE MCDevices ------------------------------
\* Small machines for Devices.
EXTENDS Devices

Fn(class, multi, secondary) == [class |-> class, multi |-> multi, secondary |-> secondary]
Plain(class) == Fn(class, FALSE, 0)

OneRegion(last) == <<[start |-> 0, end |-> last]>>

Machine(regions, functions, serial) ==
  [regions |-> regions, functions |-> functions, serial |-> serial]

\* A bus behind a bridge, a device with two functions, a serial port.
Usual ==
  Machine(OneRegion(1),
          (<<0, 0, 0>> :> Plain("other")) @@ (<<0, 1, 0>> :> Fn("bridge", TRUE, 1)) @@
          (<<0, 1, 1>> :> Plain("serial")) @@ (<<1, 0, 0>> :> Plain("sata")) @@
          (<<1, 1, 1>> :> Plain("sata")),
          {<<0, 1, 1>>})

\* Two serial ports, of which one or both pass the loopback test.
TwoPorts(serial) ==
  Machine(OneRegion(0),
          (<<0, 0, 0>> :> Plain("serial")) @@ (<<0, 1, 0>> :> Fn("serial", TRUE, 0)) @@
          (<<0, 1, 1>> :> Plain("sata")),
          serial)

\* The host bridge has two functions: bus 1 is walked as a host bus and again
\* behind the bridge.
MultiHost ==
  Machine(OneRegion(1),
          (<<0, 0, 0>> :> Fn("other", TRUE, 0)) @@ (<<0, 1, 0>> :> Fn("bridge", FALSE, 1)) @@
          (<<1, 0, 0>> :> Plain("serial")),
          {<<1, 0, 0>>})

\* A bridge that leads back to its own bus, as one the firmware left at 0 does.
Cyclic ==
  Machine(OneRegion(0),
          (<<0, 0, 0>> :> Plain("other")) @@ (<<0, 1, 0>> :> Fn("bridge", FALSE, 0)), {})

\* A second region, whose buses are numbered from 0 again, and a bridge to a
\* bus that no region has.
TwoRegions ==
  Machine(<<[start |-> 0, end |-> 0], [start |-> 2, end |-> 2]>>,
          (<<0, 0, 0>> :> Plain("other")) @@ (<<0, 1, 0>> :> Fn("bridge", FALSE, 1)) @@
          (<<2, 0, 0>> :> Plain("other")) @@ (<<2, 1, 0>> :> Plain("sata")), {})

MCMachines ==
  {Usual, TwoPorts({<<0, 1, 0>>}), TwoPorts({<<0, 0, 0>>, <<0, 1, 0>>}), MultiHost,
   Cyclic, TwoRegions}

MCPageZero == Plain("other")
=============================================================================

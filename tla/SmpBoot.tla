------------------------------ MODULE SmpBoot ------------------------------
(***************************************************************************)
(* Start of the secondary processors: APIC::initAllCPUs, initCPU,          *)
(* sendInterrupt and secondaryCpuMain of src/src/ACPI/APIC.cpp with the    *)
(* trampoline of src/src/ACPI/trampoline.asm.                              *)
(*                                                                         *)
(* The boot processor starts the others one after another.  All of them    *)
(* run the same trampoline on the same stack; secondaryCpuInInit tells the *)
(* boot processor when the current one is through, and secondaryCpuId      *)
(* tells that one who it is.  INIT resets a processor, a start-up          *)
(* interrupt starts one that waits for it, and an interrupt sent to a      *)
(* processor that does not exist is lost.  The sleeps of initCPU only pass *)
(* time (module Sleep); a secondary may be slower than any of them.        *)
(***************************************************************************)
EXTENDS Integers, FiniteSetsExt

CONSTANTS Machines,   \* sets of local APIC ids a machine may have
          Self        \* APIC::getCPUID() of the boot processor

ASSUME SmpAssumption ==
  /\ \A m \in Machines : Self \in m /\ m \subseteq 0 .. 63

VARIABLES
  cpuBitmap,           \* ids the MADT lists
  pc,                  \* where the boot processor is
  i,                   \* loop variable of initAllCPUs
  target,              \* destination field of the interrupt command register
  secondaryCpuInInit,
  secondaryCpuId,
  cpus,                \* what each secondary does
  cpuid,               \* secondaryCpuMain's local, per processor
  output               \* <<processor, reported id>> of every line printed

smpVars == <<cpuBitmap, pc, i, target, secondaryCpuInInit, secondaryCpuId, cpus,
          cpuid, output>>
bsp == <<cpuBitmap, i, secondaryCpuId>>
aps == <<cpuid, output>>

Secondaries == cpuBitmap \ {Self}

SmpInit ==
  /\ cpuBitmap \in Machines
  /\ pc = "next"
  /\ i = 0
  /\ target = 0
  /\ secondaryCpuInInit = FALSE
  /\ secondaryCpuId = 0
  /\ cpus = [c \in Secondaries |-> "off"]
  /\ cpuid = [c \in Secondaries |-> 0]
  /\ output = {}

-----------------------------------------------------------------------------
(***************************************************************************)
(* APIC::sendInterrupt.  The mask keeps the low four bits of the previous  *)
(* destination.                                                            *)
(***************************************************************************)
\* |= on eight bits: the number whose bits are set in one of the two.
Or(x, y) ==
  MapThenSumSet(LAMBDA k : 2^k,
                {k \in 0 .. 7 : (x \div 2^k) % 2 = 1 \/ (y \div 2^k) % 2 = 1})

\* Faulty: the old destination is not masked.
DestinationUnmasked(c) == Or(target, c)

Destination(c) == Or(target % 16, c)

\* What a processor in state s does with an interrupt.
Effect(mode, s) ==
  CASE mode = "init" -> "waitForStart"
    [] mode = "deassert" -> s
    [] mode = "startUp" -> IF s = "waitForStart" THEN "trampoline16" ELSE s

sendInterrupt(c, mode) ==
  /\ target' = Destination(c)
  /\ cpus' = [d \in Secondaries |->
               IF d = Destination(c) THEN Effect(mode, cpus[d]) ELSE cpus[d]]

(***************************************************************************)
(* initAllCPUs and initCPU, on the boot processor.                         *)
(***************************************************************************)
LastId == 63

\* Faulty: the loop counts one id too far.
NextCpuTooFar ==
  /\ pc = "next"
  /\ LET rest == { c \in Secondaries : c >= i }
     IN  IF rest = {} THEN i' = LastId + 2 /\ pc' = "done"
                      ELSE i' = Min(rest) /\ pc' = "begin"
  /\ UNCHANGED <<cpuBitmap, target, secondaryCpuInInit, secondaryCpuId, cpus, aps>>

\* The next id the loop starts, or the end of the loop.
NextCpu ==
  /\ pc = "next"
  /\ LET rest == { c \in Secondaries : c >= i }
     IN  IF rest = {} THEN i' = LastId + 1 /\ pc' = "done"
                      ELSE i' = Min(rest) /\ pc' = "begin"
  /\ UNCHANGED <<cpuBitmap, target, secondaryCpuInInit, secondaryCpuId, cpus, aps>>

\* Faulty: the flag is not set before the processor is started.
BeginWithoutFlag ==
  /\ pc = "begin"
  /\ pc' = "assert"
  /\ UNCHANGED <<target, secondaryCpuInInit, cpus, bsp, aps>>

BeginInit ==
  /\ pc = "begin"
  /\ pc' = "assert"
  /\ secondaryCpuInInit' = TRUE
  /\ UNCHANGED <<target, cpus, bsp, aps>>

AssertInit ==
  /\ pc = "assert"
  /\ pc' = "deassert"
  /\ sendInterrupt(i, "init")
  /\ UNCHANGED <<secondaryCpuInInit, bsp, aps>>

DeassertInit ==
  /\ pc = "deassert"
  /\ pc' = "setId"
  /\ sendInterrupt(i, "deassert")
  /\ UNCHANGED <<secondaryCpuInInit, bsp, aps>>

SetId ==
  /\ pc = "setId"
  /\ pc' = "start"
  /\ secondaryCpuId' = i
  /\ UNCHANGED <<cpuBitmap, i, target, secondaryCpuInInit, cpus, aps>>

SendStartUp ==
  /\ pc = "start"
  /\ pc' = "sleep"
  /\ sendInterrupt(i, "startUp")
  /\ UNCHANGED <<secondaryCpuInInit, bsp, aps>>

SleepAfterStart ==
  /\ pc = "sleep"
  /\ pc' = "wait"
  /\ UNCHANGED <<target, secondaryCpuInInit, cpus, bsp, aps>>

\* Faulty: initCPU returns without waiting.
ReturnAtOnce ==
  /\ pc = "wait"
  /\ pc' = "next"
  /\ i' = i + 1
  /\ UNCHANGED <<cpuBitmap, target, secondaryCpuInInit, secondaryCpuId, cpus, aps>>

WaitForCpu ==
  /\ pc = "wait"
  /\ ~secondaryCpuInInit
  /\ pc' = "next"
  /\ i' = i + 1
  /\ UNCHANGED <<cpuBitmap, target, secondaryCpuInInit, secondaryCpuId, cpus, aps>>

initAllCPUs ==
  \/ NextCpu
  \/ BeginInit
  \/ AssertInit
  \/ DeassertInit
  \/ SetId
  \/ SendStartUp
  \/ SleepAfterStart
  \/ WaitForCpu

(***************************************************************************)
(* A secondary: the trampoline's three modes, then secondaryCpuMain.       *)
(***************************************************************************)
Trampoline(c) ==
  /\ cpus[c] \in {"trampoline16", "trampoline32", "trampoline64"}
  /\ cpus' = [cpus EXCEPT ![c] = CASE @ = "trampoline16" -> "trampoline32"
                                 [] @ = "trampoline32" -> "trampoline64"
                                 [] @ = "trampoline64" -> "main"]
  /\ UNCHANGED <<pc, target, secondaryCpuInInit, bsp, aps>>

ReadId(c) ==
  /\ cpus[c] = "main"
  /\ cpus' = [cpus EXCEPT ![c] = "print"]
  /\ cpuid' = [cpuid EXCEPT ![c] = secondaryCpuId]
  /\ UNCHANGED <<pc, target, secondaryCpuInInit, bsp, output>>

PrintStarted(c) ==
  /\ cpus[c] = "print"
  /\ cpus' = [cpus EXCEPT ![c] = "report"]
  /\ output' = output \cup {<<c, cpuid[c]>>}
  /\ UNCHANGED <<pc, target, secondaryCpuInInit, bsp, cpuid>>

ReportDone(c) ==
  /\ cpus[c] = "report"
  /\ cpus' = [cpus EXCEPT ![c] = "stopped"]
  /\ secondaryCpuInInit' = FALSE
  /\ UNCHANGED <<pc, target, bsp, aps>>

secondaryCpuMain(c) == ReadId(c) \/ PrintStarted(c) \/ ReportDone(c)

Secondary(c) == Trampoline(c) \/ secondaryCpuMain(c)

\* initAllCPUs has returned and every processor it started has stopped.
Booted ==
  /\ pc = "done"
  /\ \A c \in Secondaries : cpus[c] \in {"off", "waitForStart", "stopped"}
  /\ UNCHANGED smpVars

SmpNext == initAllCPUs \/ (\E c \in Secondaries : Secondary(c)) \/ Booted

SmpSpec == SmpInit /\ [][SmpNext]_smpVars

\* Every processor executes its program.
SmpFairness ==
  /\ WF_smpVars(initAllCPUs)
  /\ \A c \in UNION Machines : WF_smpVars(c \in Secondaries /\ Secondary(c))

SmpFairSpec == SmpSpec /\ SmpFairness

-----------------------------------------------------------------------------
(***************************************************************************)
(* Properties                                                              *)
(***************************************************************************)
\* Machines whose ids survive the mask: the low four bits of a smaller id are
\* bits of the greater ones, as on every machine with processors 0 and 1.
IdsNest ==
  \A m \in Machines : \A c \in m \ {Self}, d \in (m \ {Self}) \cup {0} :
    d <= c => Or(d % 16, c) = c

Running == {"trampoline16", "trampoline32", "trampoline64", "main", "print",
            "report"}
OnTrampolineStack == { c \in Secondaries : cpus[c] \in Running }

\* The types of the variables.
SmpTypeOK ==
  /\ cpuBitmap \in Machines
  /\ pc \in {"next", "begin", "assert", "deassert", "setId", "start",
            "sleep", "wait", "done"}
  /\ i \in 0 .. LastId + 1 /\ target \in 0 .. LastId
  /\ secondaryCpuInInit \in BOOLEAN /\ secondaryCpuId \in 0 .. LastId
  /\ cpus \in [Secondaries -> Running \cup {"off", "waitForStart", "stopped"}]
  /\ cpuid \in [Secondaries -> 0 .. LastId]

\* The single trampoline stack never carries two processors that are still on
\* their way to clearing secondaryCpuInInit: the flag does the work of the
\* mutex APIC.cpp:318 asks for.  And a processor that has not reported is never
\* reset or overtaken: while the boot processor prepares the next one, nobody
\* is on the trampoline.
OneOnTrampolineStack ==
  /\ Cardinality(OnTrampolineStack) <= 1
  /\ pc \in {"next", "begin", "assert", "deassert", "setId", "done"}
       => OnTrampolineStack = {}

\* APIC.cpp:341, "CPU %hhu started": every line names the processor that
\* prints it.
ReportsOwnId == \A line \in output : line[1] = line[2]

\* secondaryCpuInInit carries the handshake: types, one processor at a time, and
\* each under its own id.
HandshakeSound == SmpTypeOK /\ OneOnTrampolineStack /\ ReportsOwnId

\* APIC.cpp:329, "Secondary CPU %hhu starting": every listed processor is
\* started, and initAllCPUs comes to its end.
AllCpusStart ==
  <>( /\ pc = "done"
      /\ \A c \in Secondaries : cpus[c] = "stopped" /\ <<c, c>> \in output )
=============================================================================

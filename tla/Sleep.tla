------------------------------- MODULE Sleep -------------------------------
(***************************************************************************)
(* sleep() on the boot processor: src/src/CPUControl/time.cpp and          *)
(* HPET::setTimer.  The CPU programs a one-shot HPET timer, clears the     *)
(* flag its interrupt handler sets, and halts until the flag is set.  The  *)
(* timer counts on its own; the handler runs between any two instructions  *)
(* at which the interrupt flag is set.                                     *)
(*                                                                         *)
(* Vector 32 is the only interrupt that returns: every other vector's      *)
(* handler is systemError, which stops the machine, so nothing else wakes  *)
(* the halted CPU.  A comparator that is programmed with a time the 64-bit *)
(* counter has already passed never matches again.                         *)
(***************************************************************************)
EXTENDS Integers

CONSTANTS Durations,         \* lengths of a sleep in HPET ticks
          MaxDrift,          \* most ticks that pass from setTimer's reading of
                             \* the counter until the CPU halts
          NumberOfCounters,  \* timers the HPET has
          MaxCount           \* most rounds of sleep(second)

Timer == 2                   \* the timer sleep() uses

ASSUME SleepAssumption ==
  /\ Durations \subseteq Nat
  /\ MaxDrift \in Nat
  /\ NumberOfCounters \in Nat
  /\ MaxCount \in Nat

\* Every sleep is longer than the CPU needs to get from the counter to hlt.
LongSleeps == \A d \in Durations : MaxDrift < d

VARIABLES
  place,             \* where the CPU is in sleep(); "idle": in the caller
  hasInit,           \* the handler of vector 32 is installed
  sleepDone,
  interruptEnabled,  \* sleep()'s local copy of the interrupt flag
  IF_,               \* the CPU's interrupt flag
  ticks,             \* length of the current sleep
  count,             \* rounds left, as in sleep(second)
  elapsed,           \* ticks since setTimer read the counter, up to `ticks'
  armed,             \* the comparator's match lies ahead
  timerEnabled,      \* the timer's interrupt enable bit
  irq,               \* vector 32 is pending at the local APIC
  flagAtCall         \* history: the interrupt flag when sleep() was called

sleepCpu == <<hasInit, interruptEnabled, ticks, count, flagAtCall>>
sleepVars == <<place, sleepDone, IF_, elapsed, armed, timerEnabled, irq, sleepCpu>>

SleepInit ==
  /\ place = "idle"
  /\ hasInit = FALSE
  /\ sleepDone = FALSE
  /\ interruptEnabled = FALSE
  /\ IF_ = TRUE                  \* main enables interrupts before any sleep
  /\ ticks = 0
  /\ count = 0
  /\ elapsed = 0
  /\ armed = FALSE
  /\ timerEnabled = FALSE         \* the HPET's parser clears it
  /\ irq = FALSE
  /\ flagAtCall = TRUE

-----------------------------------------------------------------------------
\* The caller changes its interrupt flag outside sleep().
CallerTogglesInterrupts ==
  /\ place = "idle"
  /\ IF_' = ~IF_
  /\ UNCHANGED <<place, sleepDone, elapsed, armed, timerEnabled, irq, sleepCpu>>

\* A call; the first one installs the handler and declares no sleep pending.
sleep(d, n) ==
  /\ place = "idle"
  /\ place' = "spin"
  /\ hasInit' = TRUE
  /\ sleepDone' = (sleepDone \/ ~hasInit)
  /\ ticks' = d
  /\ count' = n
  /\ flagAtCall' = IF_
  /\ elapsed' = 0
  /\ UNCHANGED <<interruptEnabled, IF_, armed, timerEnabled, irq>>

SpinUntilFree ==
  /\ place = "spin"
  /\ sleepDone
  /\ place' = "setTimer"
  /\ UNCHANGED <<sleepDone, IF_, elapsed, armed, timerEnabled, irq, sleepCpu>>

\* HPET::setTimer, up to the read of the counter ...
ReadCounter ==
  /\ place = "setTimer"
  /\ place' = IF Timer < NumberOfCounters THEN "program" ELSE "clear"
  /\ elapsed' = 0
  /\ UNCHANGED <<sleepDone, IF_, armed, timerEnabled, irq, sleepCpu>>

\* ... the write of the comparator ...
ProgramComparator ==
  /\ place = "program"
  /\ place' = "enable"
  /\ armed' = (elapsed < ticks)
  /\ UNCHANGED <<sleepDone, IF_, elapsed, timerEnabled, irq, sleepCpu>>

\* Faulty: the configuration is not written back.
ForgetTimer ==
  /\ place = "enable"
  /\ place' = "clear"
  /\ UNCHANGED <<sleepDone, IF_, elapsed, armed, timerEnabled, irq, sleepCpu>>

\* ... and of the configuration, which the first call enables interrupts in.
EnableTimer ==
  /\ place = "enable"
  /\ place' = "clear"
  /\ timerEnabled' = TRUE
  /\ UNCHANGED <<sleepDone, IF_, elapsed, armed, irq, sleepCpu>>

\* Faulty: the flag of the previous sleep is kept.
KeepSleepDone ==
  /\ place = "clear"
  /\ place' = "save"
  /\ UNCHANGED <<sleepDone, IF_, elapsed, armed, timerEnabled, irq, sleepCpu>>

ClearSleepDone ==
  /\ place = "clear"
  /\ place' = "save"
  /\ sleepDone' = FALSE
  /\ UNCHANGED <<IF_, elapsed, armed, timerEnabled, irq, sleepCpu>>

\* Faulty: the flag is saved after interrupts have been enabled.
EnableAndSave ==
  /\ place = "save"
  /\ place' = "check"
  /\ interruptEnabled' = TRUE
  /\ IF_' = TRUE
  /\ UNCHANGED <<sleepDone, elapsed, armed, timerEnabled, irq, hasInit, ticks,
                 count, flagAtCall>>

SaveAndEnable ==
  /\ place = "save"
  /\ place' = "check"
  /\ interruptEnabled' = IF_
  /\ IF_' = TRUE
  /\ UNCHANGED <<sleepDone, elapsed, armed, timerEnabled, irq, hasInit, ticks,
                 count, flagAtCall>>

CheckSleepDone ==
  /\ place = "check"
  /\ place' = IF sleepDone THEN "restore" ELSE "halt"
  /\ UNCHANGED <<sleepDone, IF_, elapsed, armed, timerEnabled, irq, sleepCpu>>

EnableAndHalt ==
  /\ place = "halt"
  /\ place' = "halted"
  /\ IF_' = TRUE
  /\ UNCHANGED <<sleepDone, elapsed, armed, timerEnabled, irq, sleepCpu>>

\* Faulty: the rounds are not counted down.
RestoreWithoutCounting ==
  /\ place = "restore"
  /\ IF_' = (IF_ /\ interruptEnabled)
  /\ place' = IF count > 1 THEN "spin" ELSE "idle"
  /\ UNCHANGED <<sleepDone, elapsed, armed, timerEnabled, irq, sleepCpu>>

\* The end of one sleep; sleep(second) starts the next round.
RestoreAndReturn ==
  /\ place = "restore"
  /\ IF_' = (IF_ /\ interruptEnabled)
  /\ place' = IF count > 1 THEN "spin" ELSE "idle"
  /\ count' = count - 1
  /\ UNCHANGED <<sleepDone, elapsed, armed, timerEnabled, irq, hasInit,
                 interruptEnabled, ticks, flagAtCall>>

\* Interrupt 32: handleSleep, and the CPU continues behind its hlt.
handleSleep ==
  /\ irq /\ IF_
  /\ irq' = FALSE
  /\ sleepDone' = TRUE
  /\ place' = IF place = "halted" THEN "check" ELSE place
  /\ UNCHANGED <<IF_, elapsed, armed, timerEnabled, sleepCpu>>

\* The counter advances.  A CPU that has read it and is not yet halted is
\* given at most MaxDrift ticks.
Tick ==
  /\ place \notin {"idle", "spin", "setTimer"}
  /\ elapsed < ticks
  /\ place # "halted" => elapsed < MaxDrift
  /\ elapsed' = elapsed + 1
  /\ irq' = (irq \/ (armed /\ timerEnabled /\ elapsed + 1 = ticks))
  /\ armed' = (armed /\ elapsed + 1 # ticks)
  /\ UNCHANGED <<place, sleepDone, IF_, timerEnabled, sleepCpu>>

Execute ==
  \/ SpinUntilFree
  \/ ReadCounter
  \/ ProgramComparator
  \/ EnableTimer
  \/ ClearSleepDone
  \/ SaveAndEnable
  \/ CheckSleepDone
  \/ EnableAndHalt
  \/ RestoreAndReturn

Call == \E d \in Durations, n \in 1 .. MaxCount : sleep(d, n)

SleepNext == CallerTogglesInterrupts \/ Call \/ Execute \/ handleSleep \/ Tick

SleepSpec == SleepInit /\ [][SleepNext]_sleepVars

\* The CPU executes, the counter runs, a pending unmasked interrupt is taken.
SleepFairness == WF_sleepVars(Execute) /\ WF_sleepVars(handleSleep) /\ WF_sleepVars(Tick)

SleepFairSpec == SleepSpec /\ SleepFairness

-----------------------------------------------------------------------------
(***************************************************************************)
(* Properties                                                              *)
(***************************************************************************)
Places == {"idle", "spin", "setTimer", "program", "enable", "clear",
           "save", "check", "halt", "halted", "restore"}

\* The types of the variables.
SleepTypeOK ==
  /\ place \in Places
  /\ hasInit \in BOOLEAN /\ sleepDone \in BOOLEAN
  /\ interruptEnabled \in BOOLEAN /\ IF_ \in BOOLEAN /\ flagAtCall \in BOOLEAN
  /\ ticks \in Durations \cup {0}
  /\ count \in 0 .. MaxCount
  /\ elapsed \in Nat /\ elapsed <= ticks
  /\ armed \in BOOLEAN /\ timerEnabled \in BOOLEAN /\ irq \in BOOLEAN

\* A halted CPU has its wake-up ahead of it: the match is still to come or
\* its interrupt is pending and enabled.  Nothing else wakes it (time.cpp:26-29).
NoLostWakeup ==
  place = "halted" => ~sleepDone /\ IF_ /\ (irq \/ (armed /\ timerEnabled))

\* sleep() leaves its wait loop only when the whole duration has passed,
\* however often it was called before and whatever its flag held then.
SleepNotShort == place = "restore" => elapsed = ticks

\* sleep() gives its caller the interrupt flag back as it found it, over any
\* number of rounds.
FlagRestored ==
  [][ place # "idle" /\ place' = "idle" => IF_' = flagAtCall ]_sleepVars

\* Every call of sleep() returns.
SleepReturns == (place = "spin") ~> (place = "idle")
=============================================================================

-------------------------------- MODULE SATA --------------------------------
(***************************************************************************)
(* The AHCI driver, src/src/Storage/SATA.cpp: controller and port start-up *)
(* and SATA::read / SATA::write with their repairs of misaligned requests, *)
(* against a controller that executes issued commands in any order, fails, *)
(* or reports a link error at any time.                                    *)
(*                                                                         *)
(* A request is turned into the sequence of commands and copies the        *)
(* nested calls perform; each command is prepared, issued and waited for   *)
(* in steps that interleave with the controller.  Disk and memory are      *)
(* functions from byte addresses to distinguishable values.                *)
(***************************************************************************)
EXTENDS Integers, SequencesExt

CONSTANTS
  Sector, Page,          \* bytes of a sector (512) and of a page (4096)
  Sectors,               \* sectors on the disk
  MaxSlot,               \* command slots of the controller
  PrdtEntryCount,        \* entries of a command table (8)
  EntryLimit,            \* 2^22 - 1, the most an entry's byte count holds
  ReadLbaLimit,          \* 2^24: sectors a read command can name
  CountLimit,            \* 2^8: sectors one read command transfers
  Requests,              \* the calls: [op, off, n, at]
  Layouts,               \* candidate page tables: virtual page -> frame
  Scratch(_),            \* virtual address of the buffers a repair uses, by
                         \* nesting depth: sectors on the stack, heap copies
  Frames,                \* number of page frames
  MaxCalls, MaxErrors    \* bounds on calls and on injected failures

Slots == 0 .. MaxSlot - 1
None == -1

ASSUME SataAssumption ==
  /\ {Sector, Page, MaxSlot, PrdtEntryCount} \subseteq Nat \ {0}
  /\ Page % Sector = 0 /\ Sector % 2 = 0
  /\ \A d \in 0 .. 1 : Scratch(d) % Page = 0
  /\ \A r \in Requests : r.off + r.n <= Sectors * Sector
  /\ MaxCalls \in Nat /\ MaxErrors \in Nat

VARIABLES
  frame,     \* the page table
  mem, disk, \* contents of memory and disk
  pc,        \* where the driver is
  req, jobs, \* current request, and what is left to do for it
  slot,      \* slotID
  issue,     \* commandIssue as read by the driver's |=
  res,       \* what the last call returned
  calls,
  table,     \* slot -> command header and table
  ci,        \* commandIssue
  exec,      \* slot the device works on, None if none
  busy, drq, err,  \* bits of taskFileData
  serr,      \* sataError is not zero
  halted,    \* the controller stopped after a task file error
  hba,       \* [reset, bios, link, running]: controller and port status
  errors,    \* failures injected so far
  wild,      \* history: writeH2DCommand wrote through a wrong header
  before     \* history: the disk when the call began

driver == <<pc, req, jobs, slot, issue, res, calls>>
device == <<exec, busy, drq, err, serr, halted, hba>>
history == <<wild, before>>
sataVars == <<frame, mem, disk, driver, table, ci, device, errors, history>>

-----------------------------------------------------------------------------
(***************************************************************************)
(* The scatter list.  getPhysicalAddress is the page table's answer.       *)
(***************************************************************************)
Phys(v) == frame[v \div Page] * Page + (v % Page)

Smaller(a, b) == IF a < b THEN a ELSE b

\* The parts of a buffer that lie in one page each, as [base, len].
Chunks(at, n) ==
  LET first == at \div Page
      last == (at + n - 1) \div Page
      From(p) == IF p = first THEN at ELSE p * Page
      To(p) == Smaller(at + n, (p + 1) * Page)
  IN  IF n = 0 THEN <<>>
      ELSE [i \in 1 .. last - first + 1 |->
              [base |-> Phys(From(first + i - 1)),
               len |-> To(first + i - 1) - From(first + i - 1)]]

\* The chunk starts the page after the last chunk's page.
Adjacent(last, c) == (last.base \div Page + 1) * Page = c.base

\* Faulty: the bound is off by one.
TableFullLate(entries) == Len(entries) > PrdtEntryCount

TableFull(entries) == Len(entries) >= PrdtEntryCount

\* One round of createPrdt's loop.  An entry counts from zero, so one of a
\* single byte looks unused.  A chunk that is not adjacent to the one before
\* it is neither appended nor given an entry of its own.
AddChunk(s, c) ==
  LET cur == Len(s.entries)
      starts == cur = 0 \/ s.entries[cur].len = 1
      full == ~starts /\ s.entries[cur].len - 1 + c.len >= EntryLimit
      next == [s EXCEPT !.last = c, !.used = @ + c.len]
  IN  IF s.short \/ (full /\ TableFull(s.entries)) THEN [s EXCEPT !.short = TRUE]
      ELSE IF full THEN [next EXCEPT !.entries = Append(@, c)]
      ELSE IF starts THEN [next EXCEPT !.entries = Append(SubSeq(@, 1, cur - 1), c)]
      ELSE IF Adjacent(s.last, c)
           THEN [next EXCEPT !.entries[cur].len = @ + c.len]
      ELSE next

\* The entries and the bytes they are meant to cover; an empty buffer leaves
\* the zeroed first entry, one byte at address 0.
createPrdt(at, n) ==
  LET s == FoldLeft(AddChunk,
                    [entries |-> <<>>, last |-> <<>>, used |-> 0, short |-> FALSE],
                    Chunks(at, n))
  IN  [entries |-> IF s.entries = <<>> THEN <<[base |-> 0, len |-> 1]>>
                   ELSE s.entries,
       used |-> s.used]

-----------------------------------------------------------------------------
(***************************************************************************)
(* Requests as sequences of jobs.  `drop' is the number of jobs skipped    *)
(* when the command fails: Open until the enclosing repair is known, and   *)
(* Open at the outermost level, where the call then returns -1.            *)
(***************************************************************************)
Open == -1
NoCopy == [from |-> 0, to |-> 0, len |-> 0]
Command(op, off, n, at) ==
  [op |-> op, off |-> off, n |-> n, at |-> at, copy |-> NoCopy,
   always |-> FALSE, drop |-> Open]
\* A command followed by a memcpy, on failure too if `always'.
ThenCopy(c, from, to, len, always) ==
  [c EXCEPT !.copy = [from |-> from, to |-> to, len |-> len], !.always = always]
CopyOnly(from, to, len) ==
  ThenCopy(Command("copy", 0, 0, 0), from, to, len, FALSE)

Down(x) == x - (x % Sector)
FirstSize(off) == Sector - (off % Sector)
OneSector(off, n) == off \div Sector = (off + n - 1) \div Sector

\* read() with aligned offset and size; fixMissalignedBufferRead.
AlignedRead(off, n, at, d) ==
  IF n = 0 THEN <<>>
  ELSE IF at % 2 # 0
       THEN <<ThenCopy(Command("read", off, n, Scratch(d)), Scratch(d), at, n, TRUE)>>
       ELSE <<Command("read", off, n, at)>>

\* fixMissalignedSizeRead, and read() with an aligned offset.
SizedRead(off, n, at, d) ==
  IF n % Sector = 0 THEN AlignedRead(off, n, at, d)
  ELSE Append(AlignedRead(off, Down(n), at, d),
              ThenCopy(Command("read", off + Down(n), Sector, Scratch(d)),
                       Scratch(d), at + Down(n), n % Sector, TRUE))

FirstRead(off, len, at, d) ==
  ThenCopy(Command("read", Down(off), Sector, Scratch(d)),
           Scratch(d) + (off % Sector), at, len, FALSE)

\* Faulty: the remainder is read to the start of the buffer.
OffsetReadRestart(off, n, at, d) ==
  IF OneSector(off, n) THEN <<FirstRead(off, n, at, d)>>
  ELSE <<FirstRead(off, FirstSize(off), at, d)>>
         \o SizedRead(off + FirstSize(off), n - FirstSize(off), at, d)

\* fixMissalignedOffsetRead.
OffsetRead(off, n, at, d) ==
  IF OneSector(off, n) THEN <<FirstRead(off, n, at, d)>>
  ELSE <<FirstRead(off, FirstSize(off), at, d)>>
         \o SizedRead(off + FirstSize(off), n - FirstSize(off),
                      at + FirstSize(off), d)

ReadJobs(off, n, at, d) ==
  IF n = 0 THEN <<>>
  ELSE IF off % Sector # 0 THEN OffsetRead(off, n, at, d)
  ELSE SizedRead(off, n, at, d)

\* The jobs of one repair: a failure ends it, and only it.
Repair(js) ==
  [i \in DOMAIN js |-> IF js[i].drop = Open
                       THEN [js[i] EXCEPT !.drop = Len(js) - i] ELSE js[i]]

\* The first sector of a misaligned write: read, changed, written back.
PatchFirst(off, len, at, d) ==
  <<ThenCopy(Command("read", Down(off), Sector, Scratch(d)),
             at, Scratch(d) + (off % Sector), len, FALSE),
    Command("write", Down(off), Sector, Scratch(d))>>

\* Faulty: the last sector is not read before it is changed.
LastSectorBlind(off, n, at, d) ==
  <<CopyOnly(at + Down(n), Scratch(d), n % Sector)>>

\* The last sector of a misaligned write, with its first bytes replaced.
LastSector(off, n, at, d) ==
  ReadJobs(off + Down(n), Sector, Scratch(d), d + 1)
    \o <<CopyOnly(at + Down(n), Scratch(d), n % Sector)>>

\* write().  The repairs' results are dropped, and each falls through to the
\* next and to the aligned write of the request as it came.
WriteJobs[off \in Nat, n \in Nat, at \in Nat, d \in Nat] ==
  LET fixOffset ==
        IF OneSector(off, n) THEN PatchFirst(off, n, at, d)
        ELSE PatchFirst(off, FirstSize(off), at, d)
               \o WriteJobs[off + FirstSize(off), n - FirstSize(off),
                            at + FirstSize(off), d]
      fixSize ==
        WriteJobs[off, Down(n), at, d]
          \o LastSector(off, n, at, d)
          \o WriteJobs[off + Down(n), Sector, Scratch(d), d + 1]
      fixBuffer ==
        <<CopyOnly(at, Scratch(d), n)>> \o WriteJobs[off, n, Scratch(d), d + 1]
  IN  (IF off % Sector # 0 THEN Repair(fixOffset) ELSE <<>>)
        \o (IF n % Sector # 0 THEN Repair(fixSize) ELSE <<>>)
        \o (IF at % 2 # 0 THEN Repair(fixBuffer) ELSE <<>>)
        \o <<Command("write", off, n, at)>>

Jobs(r) == IF r.op = "read" THEN ReadJobs(r.off, r.n, r.at, 0)
           ELSE WriteJobs[r.off, r.n, r.at, 0]

-----------------------------------------------------------------------------
(***************************************************************************)
(* Start-up: Controller::init and tryToInit.                               *)
(***************************************************************************)
SataInit ==
  /\ frame \in Layouts
  /\ mem = [p \in 0 .. Frames * Page - 1 |-> 100 + p]
  /\ disk = [b \in 0 .. Sectors * Sector - 1 |-> b]
  /\ pc = "found" /\ req = <<>> /\ jobs = <<>> /\ slot = None
  /\ issue = {} /\ res = 0 /\ calls = 0
  /\ table = [s \in Slots |-> [fis |-> "none", lba |-> 0, count |-> 0, prdt |-> <<>>]]
  /\ ci = {} /\ exec = None
  /\ busy = FALSE /\ drq = FALSE /\ err = FALSE /\ halted = FALSE
  /\ serr \in BOOLEAN
  /\ hba \in [reset : {FALSE}, bios : BOOLEAN, link : BOOLEAN, running : {TRUE}]
  /\ errors = 0 /\ wild = FALSE /\ before = disk

Goto(here, there) ==
  /\ pc = here /\ pc' = there
  /\ UNCHANGED <<frame, mem, disk, req, issue, res, calls, ci, exec, busy,
                 drq, err, halted, errors, history>>

ResetController ==
  /\ Goto("found", "reset")
  /\ hba' = [hba EXCEPT !.reset = TRUE]
  /\ UNCHANGED <<jobs, slot, table, serr>>

ResetOver ==
  /\ ~hba.reset
  /\ Goto("reset", IF hba.bios THEN "handoff" ELSE "probe")
  /\ UNCHANGED <<jobs, slot, table, serr, hba>>

HandoffOver ==
  /\ ~hba.bios
  /\ Goto("handoff", "probe")
  /\ UNCHANGED <<jobs, slot, table, serr, hba>>

\* Without a device on the link tryToInit gives up.  Otherwise the error
\* register is cleared and the port told to stop.
Probe ==
  /\ Goto("probe", IF hba.link THEN "stop" ELSE "absent")
  /\ serr' = (serr /\ ~hba.link)
  /\ UNCHANGED <<jobs, slot, table, hba>>

\* Once it has stopped, the port is given its tables and started again.
StartPort ==
  /\ ~hba.running
  /\ Goto("stop", "next")
  /\ jobs' = <<Command("identify", 0, Sector, Scratch(0))>>
  /\ hba' = [hba EXCEPT !.running = TRUE]
  /\ UNCHANGED <<slot, table, serr>>

-----------------------------------------------------------------------------
(***************************************************************************)
(* One job.                                                                *)
(***************************************************************************)
Free(s) == s \notin ci

\* Faulty: a slot that is still issued is taken.
findSlotAny == 0

\* Faulty: the search begins with the second slot.
findSlotSecond == IF Free(1) THEN 1 ELSE None

\* The first free slot; None stands for ~0.
findSlot ==
  IF \E s \in Slots : Free(s)
  THEN CHOOSE s \in Slots : Free(s) /\ \A t \in Slots : t < s => ~Free(t)
  ELSE None

\* The command table of the slot just found.  writeH2DCommand finds the
\* header by adding the slot number to a byte pointer: for any slot but the
\* first the command lands elsewhere and the slot keeps what it had.
writeH2DCommand(c) ==
  LET prdt == createPrdt(c.at, c.n)
      old == table[slot']
  IN  IF slot' = 0 \/ c.op = "identify"
      THEN [fis |-> c.op, lba |-> c.off \div Sector,
            count |-> prdt.used \div Sector, prdt |-> prdt.entries]
      ELSE [old EXCEPT !.prdt = prdt.entries]

CopyBytes(m, c) ==
  [p \in DOMAIN m |->
     LET I == {i \in 0 .. c.len - 1 : Phys(c.to + i) = p}
     IN  IF I = {} THEN m[p] ELSE m[Phys(c.from + (CHOOSE i \in I : TRUE))]]

\* The command failed: the rest of its repair is skipped, or the call ends.
Fails ==
  LET c == Head(jobs)
      rest == IF c.drop = Open THEN <<>> ELSE SubSeq(jobs, 2 + c.drop, Len(jobs))
  IN  /\ mem' = IF c.always THEN CopyBytes(mem, c.copy) ELSE mem
      /\ jobs' = rest
      /\ res' = IF rest = <<>> THEN -1 ELSE res
      /\ pc' = IF c.op = "identify" THEN "absent"
               ELSE IF rest = <<>> THEN "idle" ELSE "next"

\* It succeeded; a short transfer counts only if it is the whole request's.
Succeeds ==
  LET c == Head(jobs)
      used == IF c.op = "copy" THEN 0 ELSE createPrdt(c.at, c.n).used
      rest == Tail(jobs)
  IN  IF used < c.n /\ ~(rest = <<>> /\ c.op # "identify" /\ c.n = req.n)
      THEN Fails
      ELSE /\ mem' = CopyBytes(mem, c.copy)
           /\ jobs' = rest
           /\ res' = IF used < c.n THEN used
                     ELSE IF rest = <<>> /\ c.op # "identify" THEN req.n ELSE res
           /\ pc' = IF rest = <<>> THEN "idle" ELSE "next"

Driver(here) ==
  /\ pc = here
  /\ UNCHANGED <<frame, disk, req, calls, exec, busy, drq, err, serr, halted, hba,
                 errors, before>>

Call(r) ==
  /\ pc = "idle" /\ calls < MaxCalls
  /\ calls' = calls + 1 /\ req' = r /\ jobs' = Jobs(r)
  /\ res' = 0 /\ pc' = IF Jobs(r) = <<>> THEN "idle" ELSE "next"
  /\ before' = disk
  /\ UNCHANGED <<frame, mem, disk, slot, issue, table, ci, device, errors, wild>>

Copy ==
  /\ Driver("next") /\ Head(jobs).op = "copy"
  /\ Succeeds
  /\ UNCHANGED <<slot, issue, table, ci, wild>>

Prepare ==
  /\ Driver("next") /\ Head(jobs).op # "copy"
  /\ slot' = findSlot
  /\ IF slot' = None
     THEN Fails /\ UNCHANGED <<table, wild>>
     ELSE /\ table' = [table EXCEPT ![slot'] = writeH2DCommand(Head(jobs))]
          /\ wild' = (wild \/ (slot' # 0 /\ Head(jobs).op # "identify"))
          /\ pc' = "ready"
          /\ UNCHANGED <<mem, jobs, res>>
  /\ UNCHANGED <<issue, ci>>

\* waitForFinish, one read of the task file at a time.
waitForFinish ==
  /\ Driver("ready")
  /\ pc' = IF busy \/ drq THEN "readyError" ELSE "issue"
  /\ UNCHANGED <<mem, jobs, slot, issue, res, table, ci, wild>>

waitForFinishError ==
  /\ Driver("readyError")
  /\ IF err THEN Fails ELSE pc' = "ready" /\ UNCHANGED <<mem, jobs, res>>
  /\ UNCHANGED <<slot, issue, table, ci, wild>>

\* commandIssue |= bit: a read and a write; writing a one issues the slot,
\* also one that was completed in between.
ReadIssue ==
  /\ Driver("issue")
  /\ issue' = ci /\ pc' = "write"
  /\ UNCHANGED <<mem, jobs, slot, res, table, ci, wild>>

WriteIssue ==
  /\ Driver("write")
  /\ ci' = ci \cup issue \cup {slot} /\ issue' = {} /\ pc' = "wait"
  /\ UNCHANGED <<mem, jobs, slot, res, table, wild>>

\* Faulty: the command counts as done once the device is working on it.
TaskOverEarly == slot \notin ci \/ exec = slot

TaskOver == slot \notin ci

waitForTask ==
  /\ Driver("wait")
  /\ IF TaskOver THEN Succeeds
     ELSE pc' = "waitError" /\ UNCHANGED <<mem, jobs, res>>
  /\ UNCHANGED <<slot, issue, table, ci, wild>>

\* Faulty: the task file's error bit is not looked at.
TaskFailedLink == serr

TaskFailed == serr \/ err

waitForTaskError ==
  /\ Driver("waitError")
  /\ IF TaskFailed THEN Fails ELSE pc' = "wait" /\ UNCHANGED <<mem, jobs, res>>
  /\ UNCHANGED <<slot, issue, table, ci, wild>>

-----------------------------------------------------------------------------
(***************************************************************************)
(* The controller and the disk.                                            *)
(***************************************************************************)
Controller ==
  /\ UNCHANGED <<frame, driver, table, history>>

Settle(field) ==
  /\ hba[field] /\ hba' = [hba EXCEPT ![field] = FALSE]
  /\ Controller
  /\ UNCHANGED <<mem, disk, ci, exec, busy, drq, err, serr, halted, errors>>

ResetDone == Settle("reset")
BiosReleases == pc = "handoff" /\ Settle("bios")
PortStops == pc = "stop" /\ Settle("running")

Start(s) ==
  /\ s \in ci /\ exec = None /\ ~halted
  /\ exec' = s /\ busy' = TRUE /\ drq' = FALSE /\ err' = FALSE
  /\ Controller
  /\ UNCHANGED <<mem, disk, ci, serr, halted, hba, errors>>

\* The memory bytes of a scatter list in order; the base's low bit is ignored.
Bytes(prdt) ==
  FoldLeft(LAMBDA bytes, e : bytes \o [i \in 1 .. e.len |-> e.base - (e.base % 2) + i - 1],
           <<>>, prdt)

\* A read command has an 8-bit count, zero meaning all of it, and the driver
\* gives it 24 bits of the sector number; a write command has 16 and 48.
Transferred(t) ==
  LET bytes == Bytes(t.prdt)
      asked == IF t.fis = "write" THEN t.count
               ELSE IF t.count % CountLimit = 0 THEN CountLimit
               ELSE t.count % CountLimit
  IN  IF t.fis = "write" THEN Smaller(asked, Len(bytes) \div Sector) * Sector
      ELSE Smaller(asked * Sector, Len(bytes))

ReadInto(m, t) ==
  LET bytes == Bytes(t.prdt)
      n == Transferred(t)
      At(i) == (t.lba % ReadLbaLimit) * Sector + i - 1
  IN  [p \in DOMAIN m |->
         LET I == {i \in 1 .. n : bytes[i] = p}
         IN  IF I = {} THEN m[p]
             ELSE IF t.fis = "identify" THEN -2 ELSE disk[At(CHOOSE i \in I : TRUE)]]

WriteFrom(m, t) ==
  LET bytes == Bytes(t.prdt)
      n == Transferred(t)
  IN  [b \in DOMAIN disk |->
         IF b - t.lba * Sector \in 0 .. n - 1
         THEN m[bytes[b - t.lba * Sector + 1]] ELSE disk[b]]

Complete ==
  /\ exec # None /\ table[exec].fis # "none"
  /\ IF table[exec].fis = "write"
     THEN disk' = WriteFrom(mem, table[exec]) /\ UNCHANGED mem
     ELSE mem' = ReadInto(mem, table[exec]) /\ UNCHANGED disk
  /\ ci' = ci \ {exec} /\ exec' = None /\ busy' = FALSE
  /\ Controller
  /\ UNCHANGED <<drq, err, serr, halted, hba, errors>>

\* The device rejects the command: the slot stays issued and the controller
\* stops until the port is restarted, which the driver never does.
TaskError ==
  /\ exec # None
  /\ table[exec].fis = "none" \/ errors < MaxErrors
  /\ errors' = errors + 1
  /\ err' = TRUE /\ busy' = FALSE /\ drq' \in BOOLEAN
  /\ halted' = TRUE /\ exec' = None
  /\ Controller
  /\ UNCHANGED <<mem, disk, ci, serr, hba>>

LinkError ==
  /\ errors < MaxErrors /\ ~serr
  /\ pc \notin {"found", "reset", "handoff", "probe", "absent"}
  /\ serr' = TRUE /\ errors' = errors + 1
  /\ Controller
  /\ UNCHANGED <<mem, disk, ci, exec, busy, drq, err, halted, hba>>

Finished ==
  /\ pc = "absent" \/ (pc = "idle" /\ calls = MaxCalls)
  /\ UNCHANGED sataVars

DriverStep ==
  \/ ResetController \/ ResetOver \/ HandoffOver \/ Probe \/ StartPort
  \/ Copy \/ Prepare \/ waitForFinish \/ waitForFinishError
  \/ ReadIssue \/ WriteIssue \/ waitForTask \/ waitForTaskError

DeviceStep == ResetDone \/ BiosReleases \/ PortStops \/ Complete \/ TaskError
              \/ \E s \in Slots : Start(s)

SataNext == DriverStep \/ DeviceStep \/ LinkError \/ (\E r \in Requests : Call(r))
        \/ Finished

SataSpec ==
  SataInit /\ [][SataNext]_sataVars
    /\ WF_sataVars(DriverStep) /\ WF_sataVars(DeviceStep)

-----------------------------------------------------------------------------
\* Types.
SataTypeOK ==
  /\ slot \in Slots \cup {None} /\ exec \in Slots \cup {None}
  /\ ci \subseteq Slots /\ issue \subseteq Slots
  /\ DOMAIN mem = 0 .. Frames * Page - 1 /\ DOMAIN disk = 0 .. Sectors * Sector - 1
  /\ \A s \in Slots :
       /\ table[s].fis \in {"none", "identify", "read", "write"}
       /\ table[s].lba \in 0 .. Sectors /\ table[s].count \in 0 .. Sectors
       /\ Len(table[s].prdt) <= PrdtEntryCount
  /\ res \in -1 .. Sectors * Sector /\ calls \in 0 .. MaxCalls
  /\ {busy, drq, err, serr, halted, wild} \subseteq BOOLEAN
  /\ hba \in [reset : BOOLEAN, bios : BOOLEAN, link : BOOLEAN, running : BOOLEAN]

\* Consecutive pages in consecutive frames.
Contiguous == \A p, q \in DOMAIN frame : q = p + 1 => frame[q] = frame[p] + 1

Returned(op) == pc = "idle" /\ req # <<>> /\ req.op = op /\ res > 0 /\ ~wild

\* A read that reports bytes has put exactly the disk's bytes into the buffer,
\* however offset, size and buffer are aligned, and also after errors: for a
\* buffer in adjacent frames, and for at most 256 sectors among the first 2^24.
DiskReadExact ==
  /\ Returned("read") /\ Contiguous
  /\ req.n <= CountLimit * Sector
  /\ req.off + req.n <= ReadLbaLimit * Sector
  => \A i \in 0 .. res - 1 : mem[Phys(req.at + i)] = disk[req.off + i]

\* A write that reports success has put exactly the buffer's bytes on the disk,
\* and without errors changed no other: if offset and buffer are aligned, and
\* without errors also for any size.
DiskWriteExact ==
  /\ Returned("write") /\ Contiguous
  /\ req.off % Sector = 0
  /\ req.at % 2 = 0
  /\ req.n % Sector = 0 \/ errors = 0
  => \A b \in DOMAIN disk :
       IF b - req.off \in 0 .. res - 1
       THEN disk[b] = mem[Phys(req.at + b - req.off)]
       ELSE errors = 0 => disk[b] = before[b]

\* Types, and both directions of transfer are exact.
TransfersExact == SataTypeOK /\ DiskReadExact /\ DiskWriteExact

InRange(p, at, n) == \E v \in at .. at + n - 1 : Phys(v) = p

\* Without errors memory changes only while a call runs, and only in the
\* caller's buffer and the repairs' own; afterwards a device may still write
\* into the buffer of a call that has returned.
MemoryOnlyDuringCall ==
  [][mem' # mem /\ errors = 0 /\ Contiguous =>
       /\ pc # "idle"
       /\ \A p \in {q \in DOMAIN mem : mem'[q] # mem[q]} :
            \/ req # <<>> /\ req.op = "read" /\ InRange(p, req.at, req.n)
            \/ \E d \in 0 .. 2 : InRange(p, Scratch(d), 2 * Page)]_sataVars

\* Without an error every slot is given back between calls, and no command is
\* written through another slot's header.  With errors or without, a command
\* handed to the controller is not reprogrammed before the controller has given
\* its slot back.
SlotsGivenBack ==
  /\ [](errors = 0 => ~wild /\ (pc = "idle" => ci = {}))
  /\ [][\A s \in ci : s \in ci' => table'[s] = table[s]]_sataVars

\* Start-up ends and every call returns, whatever fails.
CallReturns == (pc # "idle") ~> (pc \in {"idle", "absent"})
=============================================================================

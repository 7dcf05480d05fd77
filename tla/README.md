# A TLA+ verification project for the 726_BOOM core model

The repository is a cycle-level C++ model of a small out-of-order RISC-V core
(BOOM, `SmallBoomConfig`), written for high-level synthesis, together with the
benches and the reference harness that judge it. One call of `boom_core_step`
(`src/src/boom_core_step.cpp`) is one clock cycle: it works on a copy of the core's
state and talks to the outside through four streams. The benches run the core and
the original processor (simulated by Verilator) over the same programs and compare
what commits. This directory holds a TLA+ model of the core, of the loop around it,
of its single-file variant, of the benches and of the reference harness, with
model-checking configurations and proofs. Paths below are relative to the
repository's root, which `PROJECT.json` calls `src`.

Contents: 1 inventory, 2 how the model is built, 3 the modules, 4 the runs,
5 fairness, 6 what is proved, 7 disagreements found, 8 what is not modelled,
9 the plan.

## 1. Inventory

### 1.1 Parts, their state and their operations

| part | source | state | operations |
|---|---|---|---|
| cycle | `src/boom_core_step.cpp:131-149` | `BoomCoreState`, copied in and out | resets the one-cycle flags, then calls csr, branch, lsu, frontend, decode, rename, rob_allocate, issue, execute, rob_commit in that order |
| front end | `src/frontend.cpp` | `pc`, `request_sent`, `fetch_id`, `pending_fetch_id`, `fetch_uop` | follow a redirect, stop in `ROB_EXCEPTION`, send one request, accept the one matching response, drop the others |
| decode | `src/decode.cpp` | `dec_uops`, `dec_valids` | the opcode table: class, destination, memory flags, faults |
| rename | `src/rename.cpp`, constructors in `include/boom_state.hpp` | speculative and committed map tables, the free-list ring | restore the map on a mispredict, take a register, update the map |
| reorder buffer | `src/boom_core_step.cpp:18-127` | `entries`, `head`, `tail`, `maybe_full`, `state` | allocate, mark done, flush on a mispredict, commit or trap at the head |
| commit of mappings and stores | `src/boom_core_step.cpp:71-125` | committed map, free list, `dmem_req`, `io_success`, `io_trap` | commit a mapping and give the old register back, send a store, report ECALL |
| issue queue | `src/issue.cpp` | `alu_iq` | dispatch, grant the oldest, compact |
| execute | `src/execute.cpp` | `alu_results`, `int_rf` | ALU, branch outcome, address generation, register write |
| branch unit | `src/branch.cpp` | `brupdate` | turns the last cycle's result into a redirect |
| load/store unit | `src/lsu.cpp` | `load_response_pending`, the pending transaction and ROB index, memory fields of the ROB entries, LDQ, STQ | take a response, take an address, send the load nearest to the head that no older store precedes |
| CSR | `src/csr.cpp` | `cycle`, `instret` | counts |
| top level | `src/boom_core_top.cpp` | static state, inner streams, ports | per cycle: at most one answer in, one step, at most one request and one trace entry out |
| single-file core | `src/boom_core_merged.cpp` | the same state, no data streams | an older state of the stages, with an empty LSU and its own issue, commit and top level |
| single-file build | `src/boom_all.cpp` | | a second copy; does not compile against the headers |
| recording bench | `tb/differential/hls_prefix_trace_tb.cpp` | memory image, event file, `saw_tohost`, cycle counter | answer one fetch, step, write events, serve all data requests; stop on commits or tohost; verdict |
| observing bench | `tb/tb_boom_core.cpp` | instruction image, commit counter | answer one fetch, step; stop on `io_success` or `io_trap`; compare registers |
| matcher | `tb/differential/trace_json_util.hpp`, `*_matcher.cpp` | none | compares two event files |
| reference memory | `reference/verilator_trace/standalone_boom_trace.cpp:114-330` (class `SimpleMemory`) | `bytes_`, queues of read beats and write answers, one open write burst, `tohost_seen_` | load a file, serve one AXI port per tick |
| reference runner | same file, `trace_cycle` and `main` | shadow registers, `g_tohost_*`, `g_cycle` | trace what commits, recognise a store to tohost, end the run with an exit code |
| trace tools | `scripts/` | none between runs | normalise and compare recorded traces off line |

### 1.2 How the parts interact

The stages share one state and run one after another, so every stage sees what
the stages before it did in this cycle and what the stages after it did in the
last one. The edges that matter:

- execute leaves `alu_results`; rob_commit marks the entry done in the same
  cycle, at its end; in the *next* cycle branch makes a redirect of the result and
  lsu takes an address from it;
- a redirect reaches frontend, rename and rob_commit of that same cycle: the
  first moves `pc`, the second restores the mapping, the third drops every
  entry of the ROB, whatever its age;
- rename takes a register off the free list; commit of a later writer of the
  same logical register gives the old one back; a flush gives nothing back;
- lsu completes loads in their ROB entries; rob_commit sends stores from there;
  both append to `dmem_req`, with one sequence of transaction ids;
- rob_commit's `ROB_EXCEPTION` stops the front end in the next cycle; a flush
  sets the ROB back to `ROB_NORMAL`.

Around the core, exactly one of these works between two steps: the top level,
which moves one message per stream, or a bench, which feeds one fetch answer before
the step and serves every data request after it. A bench reads the core's state
(`alu_results`) and its streams (`commit_trace`, `dmem_req`) to write events, and
the verdict on a program relates those to the events the reference harness
recorded. In the harness, the processor reaches the runner on two paths: what it
commits (`trace_cycle`) and what its cache writes back later through the AXI port
(`SimpleMemory`); both can show the store to tohost that ends the run.

### 1.3 What is hard

- **Ordering between stages of different cycles.** A redirect, a trap and a
  load's answer can reach the ROB in the same cycle, from instructions of
  different age.
- **Names that outlive what they name.** A slot number in the result of a cycle
  or in the LSU's pending load, a transaction id, a fetch id and a physical
  register may all be used after a flush gave the thing to somebody else.
- **Limits.** Ring full or empty with equal indices, free list nearly empty,
  request stream full, ids that wrap, an outer stream that is full.
- **Delays.** The memories answer at any time, may send answers nobody asked
  for, and nothing cancels a request.
- **Progress.** Several flags (`request_sent`, `load_response_pending`, `busy`)
  block a stage until exactly one event clears them.
- **When to stop and what to say.** A bench ends on whichever of several counters
  and flags comes first, while a store may still be on its way; the runner sees
  one store twice, whole and in pieces, in either order.
- **Bursts.** Several read and write bursts are open at once; every beat must be
  answered once, in order, and land where its place in the burst says.

`PROJECT.json` lists each of these at the line where it bites, with the
properties that would see it go wrong.

### 1.4 What makes each part correct

- *Front end*: the answer it waits for is on its way; no abandoned answer is
  taken for it; what it hands on was fetched from the current pc.
- *Rename*: no register is free and in use, none is lost; the mapping before
  each cycle is the committed one with the uops in flight laid over it.
- *ROB*: a bounded queue in program order; the valid entries are the slots from
  head to tail.
- *LSU*: the load in flight is the one it waits for; a completed load holds
  what memory holds once all stores that left the ROB have arrived.
- *The core*: what retires is what a machine without a pipeline executes;
  nothing is lost; a trap is final; instructions keep retiring.
- *Top level*: one message a cycle never falls behind; the LSU's promises hold
  across two pairs of streams and stray answers.
- *Single-file core*: as the core for programs without memory instructions; a
  memory instruction blocks and never passes for done.
- *Benches and matcher*: a program passes exactly if the reference run does; what
  a bench passes, the matcher accepts; branch events tell the path commits take.
- *Reference harness*: each burst answered once, memory equal to what the
  program made of it, the run ended by the program's own store with its value.

## 2. How the model is built

**Steps.** `stage` names the call of `boom_core_step` that runs next, and each
call is an action. This adds no interleaving to the code: nothing else moves
inside a cycle, and the data memory takes its steps only when
`stage = "branch"`, between two calls. Each action is a whole handler. `BoomTop`
and `Differential` put the code around the step into actions of their own, with a
program counter (`loop`, `at`) that says where that loop is.

**Streams and memories.** The memories answer in the order of the requests. The
instruction memory, its request stream and its response stream are one queue,
`fetches`; reading the head is "the answer has arrived", and not reading it is
"not yet". The data memory is explicit (`dmemReq`, `dmemResp`, `memory`).
With `IdealMemory` all requests are served before the next cycle begins, as in
`docs/architecture.md:71-72` and in the recording bench, which drains
`dmem_req` after each call; without it any delay is possible. A stream of the
code holds 1024 messages (`include/boom_interfaces.hpp`), the model's
`DmemDepth`, `MaxFetches` and `TraceDepth`; `PortDepth` is what an outer stream
of `boom_core_top` holds. `Differential` counts the fetches its bench has
answered (`answers`), because there the order of answering and reading is the
code's own.

**Data.** A word is a number modulo `WordCount`, an instruction is one word
long, so `pc + 4` is `pc + 1` and the masks that align targets disappear. An
instruction is its decode class with registers and immediate (`BoomTypes`). The
classes keep every distinction later stages make: those with an integer
destination, transfers, loads, stores, ECALL, illegal words, and the two kinds
of illegal load and store that decode still marks as memory operations. The ALU
operations are one addition. In the reference harness, where bytes matter, a
doubleword is a function from lanes to bytes, and the number it stands for is the
operator constant `Number`.

**State that is not kept, because no code reads it**: `busy_table`,
`br_snapshots`, the LDQ and STQ arrays (their counts guard only themselves),
`resp_exception`, `response_received`, the counters of csr, the floating-point
halves of the tables, the fields of an invalid ROB entry (the model stores
`EmptyEntry` there), `reset_done` and `last_commit`. `global_flush` is set at the
end of a cycle and cleared at the start of the next before a stage looks at it,
so the branches it guards never run. `prs1_busy` and `prs2_busy` are always
false, so every issue-queue entry is ready. The commit trace, which no stage
reads either, is left out of `BoomCore` and modelled in `BoomTop`, `MergedCore`
and `Differential`, whose code reads it.

**One detail of the free list** shapes a property: the constructor puts registers
1 to 51 in the ring and sets `tail = 51`, which is the position of the last
free register rather than the one after it (`include/boom_state.hpp:48`). The
first release overwrites it. `FreeRegs` therefore leaves out the last position
the count covers, and `RegistersConserved` says that everything else is exact.

**The single-file core** is not a copy of the files beside it: it holds an older
state of them (`scripts/generate_merged.sh`, run on the files of today, writes a different one).
`MergedCore` extends `BoomCore` and takes over the stages that are the same in both,
checked line by line, and defines its own where they differ: the LSU does
nothing, the issue stage knows the ALU queue only, and the commit stage neither
sends stores nor holds a load back. A memory instruction therefore gets a ROB
entry that is never done. Such an entry, like any uop dropped by a flush, keeps its
physical register for good (`docs/mismatch_list.csv`, M009).

**External parts.** The processor that the reference harness traces is generated
from another project. `TraceRunner` models it from how the harness uses it: it
commits any integer program, at most one instruction in a cycle, keeps its own image of memory and
writes back any part of what it changed at any time, under the AXI port's rules. It
renames: `regfile` is `iregfile`, into which results go when they are computed, whether
or not they will commit, and `commitMap` says which of its registers hold the program's.
The one thing assumed of it is that nothing writes a register that `commitMap` names.
The runner never sees `commitMap`; it sees `ldst_val`, `ldst` and `pdst` of what commits,
which mean nothing in a commit without a destination, and reads `regfile[pdst]`
(`Shadow`). The word of an instruction is not in the trace either: the runner reads it
from its own memory at the pc, and finds none for code elsewhere (the boot ROM). Of the
compressed encodings it decodes no store. `RetireDoubleword` therefore chooses whether a
store is `readable`. What is read there is assumed to be what was executed.

## 3. The modules

| module | models | notes |
|---|---|---|
| `BoomTypes` | `boom_types.hpp`, the decode table, what execute computes | shared by all modules of the core |
| `Frontend` | `frontend.cpp` | `FrontendStopped`, `FrontendWaits`, `FrontendReads` are the three ways through the call; `FrontendSpec` runs it alone under any redirect |
| `Rename` | `rename.cpp`, release and commit of mappings | `RenameTakes`, `RenameStarves`, `RenameWithoutDst` are the cases of one uop |
| `Rob` | ROB part of `boom_core_step.cpp` | `RobSpec` runs the ring alone under any order of its operations; the core uses the same operators |
| `InOrderWindow` | abstract: a bounded queue in program order | implemented by `Rob` through `RobQueue` (property `RobIsInOrder`) |
| `Lsu` | `lsu.cpp`, data streams, data memory | response, address, at most one load sent, in the order of the code |
| `Isa` | abstract: the machine without a pipeline | one action per class of instruction |
| `BoomCore` | `boom_core_step`, decode, issue, execute, branch, commit | composes Frontend, Rename, Lsu and Rob; `ExecutesProgram` is `Isa!Spec` under the mapping `ArchPc`, `ArchRegs`, `ArchMem` |
| `BoomTop` | `boom_core_top.cpp` | composes BoomCore with the outer streams; `TopIn`, `TopStep`, `TopOut` are the parts of one pass of the loop |
| `MergedCore` | `boom_core_merged.cpp` | BoomCore's stages with the LSU, issue and commit of that file |
| `Differential` | `hls_prefix_trace_tb.cpp` (prefix and complete mode), `tb_boom_core.cpp`, the matcher | composes BoomCore with a bench; the reference it is compared with is an `INSTANCE` of `Isa` that runs first |
| `SimpleMemory` | class `SimpleMemory` | `Tick` is one rising edge, with its channels as parameters |
| `TraceRunner` | `trace_cycle` and `main` of the harness | composes SimpleMemory with the runner and any processor |
| `MCRob`, `MCFrontend`, `MCBoomCore`, `MCBoomTop`, `MCMergedCore`, `MCDifferential`, `MCTraceRunner` | small instances and sets of programs | |
| `SequenceFacts` | lemmas about induction, functions defined by recursion and `FlattenSeq` | used by `TraceRunnerProofs`, `CoreDataProofs` and `TopProofs` |
| `RobProofs`, `TraceRunnerProofs` | theorems about these two on their own | |
| `CoreProofs` | theorems about the front end on its own, then about the composed core | the types and what the pipeline registers mean; uses the lemmas of `RobProofs` (through `INSTANCE`) |
| `CoreDataProofs` | theorems about loads and about registers in the composed core | extends `CoreProofs` |
| `CoreIsaProofs` | theorems about the program the core executes: the refinement of `Isa` | extends `CoreDataProofs` |
| `MergedCoreProofs` | theorems about the single-file core | reuses the lemmas of `CoreProofs` on the stages both cores share, and extends `CoreIsaProofs` for the runs without memory instructions |
| `TopProofs` | theorems about the top level | extends `CoreDataProofs` and uses it once more, through `INSTANCE`, for both pairs of streams seen as one |

Names of variables are the code's in camel case, each with its C++ name in a
comment. Operators whose comment starts with "Mutant of" are plausible bugs of
the operator they name; no specification uses them, and each shows that some
property notices the difference.

The refinement mapping of the core deserves a word. `ArchRegs` reads the register
file through the committed map. `ArchMem` is the data memory with all stores that
have left the ROB applied: the youngest store to a word in `dmemReq` decides. `ArchPc` is the address of the oldest instruction not
retired: the ROB's head, or else the pipeline register in front of the ROB, or
else the target of the transfer that has just left, or else the front end's pc.
Every commit maps to one step of `Isa` and everything else to a stutter.

## 4. The runs

Passing runs:

| run | question | instance |
|---|---|---|
| `rob_ring` | Does the ring behave as an in-order queue whatever the order of its operations? | 3 slots, 2 uops: 11,311 states. Three slots separate head, tail and a third one, and every wrap happens. |
| `frontend_fetch` | Can late answers and redirects confuse the front end? | 3 words, 4 ids, 3 requests in flight, any redirect in any cycle: 651 states. Ids wrap many times while an abandoned and a current request are in flight together. |
| `core_ideal` | Does the pipeline execute programs correctly? | every three-instruction program over 13 instructions in which no transfer directly follows a load, 4 words, 3 registers, 6 physical registers, 2 slots: 1,937 programs, 814,640 states. Programs jump back and forth, so every pair of neighbours occurs in loops. |
| `core_pairs` | Do flushes restore the mapping, and does execution go on? | every two-instruction program over the same pool, the load-transfer pairs included: 169 programs, 28,918 states, with fairness. |
| `core_delays` | What still holds under arbitrary memory delays, with a full ROB, empty free list and full request stream? | loops of loads, stores and transfers with illegal encodings, 1-entry issue queue and request stream, 4 physical registers, 3 transaction ids: 83 programs, 3,974,818 states. |
| `top_streams` | Does the loop of the top level keep up, and what survives its delays? | 4 loops of loads and stores and 2 programs with an illegal load or store encoding behind a load, 2 registers, 4 physical registers, 2 slots, inner streams of 1 message, ports of 2, any delay, a stray answer in front of any: 885,897 states, with fairness. |
| `merged_core` | What does the single-file core do with programs, and with memory instructions? | every three-instruction program over 13 instructions; those with a memory instruction have forward transfers only: 353,992 states, with fairness. |
| `differential` | Do the benches pass the right programs? | every three-instruction program over 9 instructions in which no transfer directly follows a load; both modes of the recording bench and the observing bench, 2 or 5 commits asked for, 30 cycles: 523,694 states, with fairness. |
| `reference_harness` | Does the harness keep bursts, memory, registers and verdict straight? | two doublewords of two bytes with four values each, tohost in the second, two registers and three physical ones, a read burst, a wide and a narrow write burst, two of each open at a time, store offsets 0, 1, 2 and -6, 1 cycle of reset, 5 cycles: 749,480 states, with fairness. |

Why small numbers are enough: the stages look at one uop per cycle, compare
register numbers and slots only for equality, and at most two or three
instructions overlap, so a hazard needs two or three instructions in a row and
a loop to repeat them. The limits (ROB, free list, stream, ids) are reached
because the constants are small. In `top_streams` an inner stream of one message
and one trace entry is the hardest case for "one message a cycle is enough": any
backlog at all shows. In `differential`, 30 cycles are longer than any program of the
pool needs for the commits asked for, and 2 is less than many of them make, so both
ends occur; a program that traps or loops without enough commits runs into the
limit. In `reference_harness` two lanes tell a torn store from a whole one, two
doublewords tell a wrap from the address meant, and five cycles are enough for a
store to retire and be written back by either burst while another burst is open. With
three physical registers, one of them for register 0, the one that a commit frees is
the next to be written and used again, within the same five cycles.
What the bounds cannot show is an effect that needs many instructions in flight
at once with all 31 mappings held; the free list's last position (section 7) is
an example that small constants make visible.

The preconditions are not decoration:

- `core_ideal` and `differential`: with a transfer right behind a load,
  `ExecutesProgram` is false; the `violation` runs say how. With memory slower
  than a cycle it is false too. Properties that do hold in those cases are checked in
  the other runs.
- `merged_core`: programs with a memory instruction only go forward, since each
  drop of a blocked instruction loses a physical register and the list would run
  dry.
- The observing bench has no data memory, so its programs have no loads and stores.

What each property says:

- `RobWindow`, `RobIsInOrder`: the valid entries are exactly the slots from head
  to tail, and the ring implements `InOrderWindow`.
- `FetchAnswerComing`, `FetchIdsDistinct`, `FetchedFromPc`: section 1.4.
- `RegistersConserved`: free and held registers partition the register file,
  with no duplicates, between any two cycles. Checked where no uop is flushed;
  a flush of a uop with a destination leaks its register (mismatch M009 of
  `docs/mismatch_list.csv` lists the missing recovery).
- `Undisturbed`: on the instance of `core_ideal`, none of the things happens that no
  stage guards against. It is what `ExecutesProgram` and `EcallReportsA0` are proved
  from, and its first part, `NothingLost`, what `RegistersConserved` is proved
  from (section 6). `NothingLost`: no uop is lost at a full ROB (`RoomForUop`), without
  a free register (`RegisterLeft`) or, holding one, to a flush
  (`FlushDropsNoRegister`). `FlushFindsNothing`: a flush drops nothing at all.
  `SourcesArrived`: no uop executes before the loads it reads from have their data.
  `EcallAlone`: nothing is behind an ECALL when it leaves.
- `MapsAgree`: between two cycles the speculative mapping is the committed one
  with the destinations in flight laid over it.
- `ExecutesProgram`: refinement of the instruction set.
- `EcallReportsA0`: `io_success` reports the architectural a0.
- `NoWrongPath`: nothing enters the ROB behind an unconditional transfer. The core
  relies on it: its flush cannot tell older from younger.
- `LoadAnswerComing`: `load_response_pending` agrees with the memory's state,
  across flushes that drop the load.
- `LoadValueIsCurrent`: a load neither passes an older store nor takes the
  answer to a load that was dropped from the same slot. Two programs of
  `core_delays` are there for it: in one a load follows two stores to its address
  while the request stream is full, in the other a jump drops a load whose slot
  is taken by a load of another address before the answer arrives.
- `Retires`: instructions retire for ever unless one traps.
- `TopKeepsUp`: a store that may leave never finds `dmem_req` occupied, and a
  commit never finds the trace full, as long as one request and one entry leave
  per cycle. It holds because the LSU and the commit stage never use `dmem_req`
  in the same cycle.
- `TopLoadValueIsCurrent`, `TopLoadAnswerComing`: the LSU's two promises across
  both pairs of streams, with answers nobody asked for in between.
- `RetiresUnlessDropped`: under any delay, instructions retire for ever unless
  one traps, transfers keep dropping the load in front of them, or an illegal load or
  store encoding, which nothing completes (section 7), stays at the head. The last two
  cases are real: the program of a load with a backward jump behind it has the one, the
  programs with such an encoding have the other, and nothing else stops the core.
- `MergedExecutesProgram`: the single-file core refines the instruction set,
  except for steps in which a transfer drops a memory instruction at the head with
  all that follows it.
- `MemoryNeverIssues`, `StopsOnlyForMemory`, `TraceHasRoom`: nothing lets a memory
  instruction through or past, and nothing else stops the pipeline or loses a
  trace entry.
- `VerdictIsRight`: the bench passes a program exactly if the run of the
  reference alone gives the verdict. The observing bench is judged for programs
  that come to an ECALL or a trap; for others it compares the registers at an
  arbitrary moment (section 7).
- `PassedTraceMatches`: the matcher accepts what a bench has passed.
- `BranchesLead`: each transfer has one branch event, not later than its commit,
  and it says where the commits go on.
- `BurstsAnswered`, `MemoryFollowsImage`: the port's queues are what the
  processor still expects, and every byte is the program's wherever it has been
  written back.
- `ShadowIsArchitectural`, `TohostIsFirstStored`, `VerdictIsTheProgramsOwn`: what the
  runner copied when registers were committed is what the processor still keeps for the
  program, while physical registers are freed, overwritten and used again; the value
  that ends the run is the first doubleword the program stored to tohost, by an
  instruction the runner can read (section 2) and at an offset that is not negative
  (section 7); success is reported for the value 1 and for a finished design only.
- `BenchEnds`, `RunEnds`: benches and runner come to a verdict, whatever the
  program does.

The `violation` runs each execute one program and check what a document or test
of the repository says; section 7 lists them.

Deadlock is checked in every run but two: the clock always ticks, and a full port
of the top level is drained by the memory, so the core never has a state without
a successor. `differential` and `reference_harness` model programs that end.

## 5. Fairness

`FairSpec` of `BoomCore` is used by `Retires` only.

- `WF_vars(Cycle)`: the clock runs. `boom_core_top` and every test bench call
  `boom_core_step` in a loop; whatever state the core is in, the next stage can
  run.
- `SF_vars(FetchReads)`: the instruction memory answers. Between two cycles the
  action is not enabled, hence strong and not weak fairness; the test benches
  answer every request they find.
- `SF_vars(Memory)`: the data memory serves requests, for the same reason.

With `IdealMemory`, cycles wait for the data memory, so the last one is what
keeps them going. No fairness is assumed of any stage in isolation: the order
of calls is fixed by `stage`.

`TopFairSpec` is the same with the loop of the top level in place of the cycle and
the memory behind the ports in place of the ideal one; it contains that the ports of
fetches and of the trace are read, since the loop waits for both (`boom_core_top.cpp:49`
and `:53`; in the single-file core `boom_core_merged.cpp:677` and `:679`). `MergedFairSpec` needs no
data memory: weak fairness of the whole next-state relation, whose stages follow
each other, and strong fairness of the fetch that reads. `BenchSpec` and `FairSpec`
of `TraceRunner` assume only that the program runs (weak fairness of the whole
next-state relation): a bench answers requests itself, and the runner ends by its
cycle count even if the processor never asks for anything.

## 6. What is proved

TLAPS checks these for every value of the constants that satisfies the
assumptions named in the modules.

- `RobProofs!RobSafe`: `RobSpec => [](RobTypeOK /\ RobWindow)`, for at least one
  slot. Inductive invariant `RobInv`, the types together with the window. The
  window alone is not inductive: `PopHead` preserves it only because a set
  `maybe_full` implies that the two indices meet. One lemma per operation: allocate,
  squash, complete, LSU update, retire, trap.
- `RobProofs!RobImplementsWindow`: `RobSpec => RobIsInOrder`, the refinement. The
  mapping `RobQueue` reads the uops from head to tail around the ring.
  `SlotAfter` removes the modulus, `QueueInRing` gives the queue's length and its
  k-th uop, `TailSlot` says that the tail is the slot behind the last one. From
  these, allocation appends (`AllocateEnters`), removal of the head takes the
  queue's tail (`PopHeadLeaves`), and steps that only change the contents of
  entries stutter (`SameUopsStutter`). All need `RobInv`.
- `CoreProofs!FrontendSafe`: `FrontendTypeOK`, `FetchAnswerComing` and
  `FetchIdsDistinct` always hold, for fewer requests in flight than ids and a reset
  vector that is an address. That ids differ is not inductive, since the
  next id must differ from all in flight. The strengthening `Recent` says that
  the ids in flight are the last ones handed out, in order: the i-th from the
  end has the id that `Ago` computes without a modulus. Since fewer requests are
  in flight than there are ids, `AgoDistinct` gives the rest.
- `CoreProofs!FrontendFetchesFromPc`: the action property `FetchedFromPc`,
  from the same invariant. If the call sent its own request, no answer in the
  queue can carry the new id; if not, the only one with the pending id is the
  newest request, which was sent for the current pc.
- `TraceRunnerProofs!RunnerWatchesTohost`: `ShadowIsArchitectural` and
  `TohostIsFirstStored` always hold, for every processor the module allows, every
  memory size, set of values and numbering of doublewords, with tohost below half
  the range of an unsigned word (it is at 0x80000080 of 2^32 doubled by the
  extension). The shadow is right because a commit moves the mapping to the register
  it was copied from, and because physical register 0 is never handed out
  (`RegistersInv`; `ResultKeepsRegisters` and `OtherKeepsInv` are the two kinds of step
  that could part them). The first store is only recognised because the shadow is right when
  it retires, and it stays the first because no instruction is traced once tohost
  is known; `RunnerInv` adds that (`phase = "trace" => tohost = Zero`).
- `TraceRunnerProofs!RunnerVerdict`: `VerdictIsTheProgramsOwn` always holds, from
  the same invariant and `ExitCodeIsZero`.

- `TraceRunnerProofs!RunnerTypes`, `RunnerBursts`, `RunnerMemory`: `RunnerTypeOK`,
  `BurstsAnswered` and `MemoryFollowsImage` always hold, for every size of memory and
  bus, every file, and every set of bursts whose beats divide the bus and stay in
  memory. The inductive invariant is `HarnessInv`:

| part of `HarnessInv` | says | needed for |
|---|---|---|
| `RunnerInv` | the registers, tohost and the verdict, as above | what the program stores has a type |
| `CycleInv` | the run: its cycle, and that in reset nothing has been asked of the port | a reset clears the queues without losing an answer |
| `ReadsInv` | the open read bursts, burst by burst, are the beats that wait | `BurstsAnswered` |
| `WritesInv` | the answers that wait and the open burst are the writes owed | `BurstsAnswered` |
| `SendingInv` | port and processor agree on address, size and number of the beats to come; they are aligned and stay in memory | a beat lands on its own bytes (`BeatLands`) |
| `ImageInv`, `TohostInv` | `MemoryFollowsImage`; the memory's watch of tohost | |

  A tick may take a beat from the front, put a burst at the end and move the write
  burst on at once; `OwedTaken` and `OwedAppend` say what that does to the beats of
  all bursts. `LoadedIsFile` says that `load_hex`, which places the lines of the file
  one by one and counts addresses modulo the size of memory, puts the bytes of the
  file in address order. Both are about definitions by recursion (`FlattenSeq`, and
  `Loaded` in `LoadHex`) and need induction. The library's induction theorems take
  an operator and cannot be used; `SequenceFacts` has induction over sets instead
  (`InductionOnNat`: a set with 0 in it and with each number the next holds them
  all), from the library's theorem that every set of numbers has a least
  element, and from it what `FlattenSeq` yields for one sequence more at either end.
  Assumed of the constants: the file fits into memory (`FileAssumption`) and a beat
  divides the bus (`BurstsAssumption`, as AXI sizes do).

### The composed core

`CoreProofs` shows that every step of `boom_core_step` keeps `BaseInv`, for every
width, number of slots and registers, depth of the queues, set of programs and
delay of the memories. Each stage has one lemma; where a stage uses an operator of
`Rob` or `Frontend`, the lemma cites what is proved of that component on its
own. The parts of `BaseInv`, and why each is needed:

| part | says | needed for |
|---|---|---|
| `PipeTypeOK`, `FrontendInv`, `RenameTypeOK`, `RingInv` | types; the front end's and the ring's own invariants | everything; an index into the ROB that comes with a result is a slot |
| `RedirectEmpties` | in the cycle of a redirect the pipeline registers between the front end and execute are empty | nothing is allocated in a cycle that flushes |
| `OneUop` | the issue queue is empty between two calls, and what is renamed has its entry and is issued in the same cycle | the uop that executes is the one its slot holds |
| `ResultInv` | the result of the last cycle belongs to the uop in its slot, if there is one, and the LSU has not touched the entry | marking done, taking an address; a jump's result redirects |
| `JumpIsYoungest` | a jump in the ROB is the last entry, and its uop, its result or its redirect is on the way | `NoWrongPath` is not inductive: that nothing is allocated behind a jump needs the redirect to arrive first |

Theorems:

- `CoreTypes`: `CoreTypeOK`, with the data streams (`LsuTypeOK`).
- `CoreRobWindow`, `CoreRobIsInOrder`: the ring's invariant and its refinement of
  `InOrderWindow` in the core, where one call marks entries and removes the head.
  Each step of the core is one or two operations of the ring or leaves it alone.
- `CoreNoWrongPath`: `NoWrongPath`, from `JumpIsYoungest`.
- `CoreFrontend`, `CoreFetchesFromPc`: the front end inside the core is a front end
  as `FrontendSpec` has it (a refinement, step by step), so that `FetchedFromPc`
  holds in the core.

`CoreDataProofs` adds the LSU. `LoadValueIsCurrent` is far from inductive, since the
value is right only because of everything that happened to the load before:

| part of `LoadsInv` | says |
|---|---|
| `OneLoad` | there is at most one load in flight, as a request or as an answer, exactly when `load_response_pending` is set, and with the pending id |
| `MemFields` | a sent load that has no data is the one the LSU waits for |
| `NoOlderStore` | no store in the ROB is in front of a load that was sent |
| `LastRequest` | the request of a load still in the ROB is the last in the stream: no store has left after it |
| `AnswerRight` | the answer it waits for is what `ArchMem` says |
| `ValuesRight` | `LoadValueIsCurrent` itself |

The argument: a load is sent only if no store is in front of it, and stores leave
at the head only, so none leaves while the load is there; `ArchMem` at its
address therefore stays what it was, and is what the memory returns when the load
is the last request. `ServedKeepsArchMem` and `LoadSentKeepsArchMem` say that
serving a request and sending a load leave `ArchMem` alone; a load dropped by a
flush keeps `OneLoad` but has no entry that waits, so its answer completes nothing
although the slot may have been taken by another load.

- `CoreLoadAnswerComing`: `LoadAnswerComing`, from `OneLoad`.
- `CoreLoadValueIsCurrent`: `LoadValueIsCurrent`.

`LoadsInv` was checked by TLC on the instances of `core_pairs`, `core_delays` and
`core_ideal` before it was proved.

The second half of `CoreDataProofs` is about registers. `RegistersConserved` and
`MapsAgree` speak of the moment between two calls; in between a register is in the
pipeline, or the map is not yet restored. The inductive invariant holds in every stage:

| part of `RegsInv` | says | needed for |
|---|---|---|
| `FreeListInv` | the ring of the free list: its tail is where head and count say, its registers differ and are of those ever handed out | a register taken or given back changes the set of free registers by exactly that one |
| `DstInv` | a uop writes the rd of its instruction; ECALL, which leaves without committing a mapping, holds no register | what leaves at the head is what the committed map takes |
| `Apart` | a register is held by one logical register, one ROB entry or the uop on its way from rename, and is then not free | releasing the stale register frees one nobody holds |
| `MapsInv` | each logical register is mapped to the destination of the youngest uop in flight that writes it, or else to its committed register; the stale register of each uop is what the uops in front of it say (`MapsTo`) | what commit gives back is what it takes out of the committed map |

`NoneLost` adds that every register ever handed out has a holder or is free. `MapsTo` does not go through
the queue one by one: it speaks of positions in the ring (`Pos`), so that an entry
added behind and one removed in front change it at one place
(`AllocatedMaps` and the lemmas before it). Only at the end does induction along the
queue (`MappedMapsTo`, with `InductionOnNat`) bring it to the form of `MapsAgree`.

- `CoreMapsAgree`: `MapsAgree`, if no uop arrives at a full ROB (`RoomForUop`) and
  a uop that wants a register finds one besides the list's last position
  (`RegisterLeft`). Flushes may drop what they like: that the committed map alone is
  then the right one is part of what is proved.
- `CoreRegistersConserved`: `RegistersConserved`, under `NothingLost`, which adds that
  no flush drops a uop with a register (`FlushDropsNoRegister`).

These hypotheses are not assumptions on the constants but the cases that the code
leaves open, each of which breaks conservation in fact: a uop dropped at a full ROB and
one dropped by a flush keep their registers for good, and the last position of the
list holds a register in use (section 7). What the theorems say is that these
are the only ways. TLC checks `NothingLost`, as part of `Undisturbed`, on `core_ideal`,
so they are met there by 1,937 programs, and `RegsInv` and `NoneLost` on the same instance; `RegsInv` also on those of
`core_pairs` and `core_delays`, as far as `RoomForUop` and `RegisterLeft` hold.

### The program

`CoreIsaProofs` proves what the core is for: `ExecutesProgram`, the refinement of `Isa`,
and `EcallReportsA0`. With the mapping of section 3, a step of the core is to be one
step of the machine or none. For that the state of the pipeline has to say, of
every uop in flight, what the machine will find when it gets there; this is `IsaInv`:

| part of `IsaInv` | says | needed for |
|---|---|---|
| `HeldInv` | a uop in the ROB is the instruction at its address as decode and rename make it (`Genuine`), and its sources are the registers that the uops in front of it write last (`MapsTo`, of `RegsInv`) | at the head, the sources are the committed registers: what the uop reads is what the machine reads |
| `RanInv` | what has been executed did not read a register that a load had still to write, and its destination holds the result that its sources give | `SourcesArrived` at execute, kept while older uops write other registers |
| `MemInv`, `FaultInv` | address and data in the ROB entry are those of the sources; a finished load has its data in its destination; an exception is one of the machine's, and so is the fault that an answer carries | loads, stores and traps at the head |
| `ChainInv` | behind every uop is the one that the machine goes to: in the next slot, or, behind the youngest, where the front end fetches next (`NextFetch`); a transfer that leaves the straight path has nothing behind it and its redirect is on the way | the pc after a commit is the next uop's |
| `RedirectInv`, `FlowInv`, `ResultIs` | what the redirect, the pipeline registers between fetch and execute and the result of execute say of the uop they belong to | the above, across the stages of one cycle |
| `TrapInv` | the entry that raised `ROB_EXCEPTION` stays at the head | the core has stopped where the machine has |

`Op1(i)` and `Op2(i)` read the register file at any time after the uop has executed, not only
when it does: that this is the same value is the point of `Apart`, by which nobody else
gets the register before its readers have left (`ReadsOlder`), and of `RanInv`. Each
action has a lemma; those of commit (`CommitHeadKeepsIsa`, `CommitEcallKeepsIsa`,
`CommitTrapKeepsIsa`) show that it is a step of the machine, all others
that the machine stands still. `PopKeepsIsa` moves the invariant by one entry,
`CommittedRegs` and `StoreSentArchMem` say what a commit does to registers and
memory, and `LsuKeepsArchMem` and `MemoryKeepsIsa` that no delay of a request changes what
the machine sees.

- `CoreExecutesProgram`: `Spec /\ []Undisturbed => ExecutesProgram`.
- `CoreEcallReportsA0`: `Spec /\ []Undisturbed => EcallReportsA0`, since with nothing
  behind the ECALL the speculative map is the committed one at a0.

The hypothesis is not one on the constants: it names the cases for which the code has
no answer. The three `violation` runs are three of them (`RoomForUop`,
`FlushFindsNothing`, `SourcesArrived`), `EcallAlone` is the ECALL of section 7, and
in each of them the core leaves its program in fact. The theorems say that these are the only
ways in which it does, whatever the program and the memories; any delay is allowed that does not make
one of them happen. The parts of `IsaInv` were checked by TLC on the instance of
`core_ideal`, and on the states of `core_pairs` and `core_delays` that are reached
without a disturbance, before they were proved.

For one class of programs the hypothesis is itself a theorem. `Settled` says of the
constants:

- the data memory does its work between two cycles (`IdealMemory`), as in the
  recording bench;
- in no program is a load followed at once by a branch, `jal` or `jalr`, and none
  contains a load or store with an illegal funct3, whose result rob_commit leaves
  to the LSU and the LSU does not take, so that it never leaves the ROB;
- the ROB has more than one entry, and there are more physical registers than
  architectural ones and two (the code has 16, and 52 for 32).

Whatever the size of the ROB, the core then uses two of its entries. A request for an
instruction and its answer take two cycles, so every other cycle brings no uop. A uop
executes in the cycle in which it is allocated and leaves in the same one or, if it goes
to memory, in a later one; another is allocated behind it only when it is a load that has
its data, and follows it out. `PaceInv` says this stage by stage, and is inductive
together with `RegsInv`, `NoneLost` and `IsaInv` (`SettledInv`):

| part of `PaceInv` | says | needed for |
|---|---|---|
| `BeforeLsu`, `BeforeFetch` | between two cycles at most the head is left: just executed, or a load on its way; the LSU, which runs before fetch, turns the one into the other, and takes an answer the moment it is there (`LsuAtHead`) | `RoomForUop`, `RegisterLeft` |
| `BeforeAllocate` | when a uop has been fetched, what is in front of it is a load with its data, and the uop is no transfer; while the front end still waits for its answer nothing new comes (`AcceptedWasSent`) | `SourcesArrived` |
| `BeforeCommit` | the uop of this cycle is alone (`Alone`), or one finished load is in front of it (`Behind`) | `EcallAlone`; one of the two leaves in this cycle |
| `Running` | a redirect finds the ROB empty: the transfer was alone and has left | `FlushFindsNothing`, `FlushDropsNoRegister` |
| `Stopped` | after a trap nothing is fetched or redirected any more | the same, from then on |
| `ResultComes` | the uop of this cycle is executed in this cycle | the other parts, at commit |

- `SettledIsUndisturbed`: `Spec => []Undisturbed`, if `Settled`. `RegistersSuffice` is
  the part about registers: at rename, those in use are at most one for each architectural
  register but x0 and one for the head, so one is left besides the last position.
- `SettledExecutesProgram`, `SettledReportsA0`, `SettledLosesNothing`,
  `SettledConservesRegisters`: hence `ExecutesProgram`, `EcallReportsA0`, `[]NothingLost`
  and `[]RegistersConserved` follow from `Spec` alone.

The constants of `core_ideal` satisfy `Settled`, with 1,937 programs, and TLC found `PaceInv`
to hold on that instance before it was proved. The three `violation` runs show how
the conclusion fails without the first two conditions: two with a slower memory, and
`flush_drops_transfer` with a branch behind a load.

### The benches

The last part of `CoreIsaProofs` is about `Differential`. A bench that passes has a trace
that the matcher accepts (`PassedTraceMatches`) because reference and core go through the
states of one machine, which writes its trace as it goes. `After(p, s)` is the next
state of that machine in program p, `Start` the first, and `IsRun(R, p)` says that R is its
sequence of states (`RunExists`, by induction, since it is a definition by recursion).
What a run has written stays at the beginning of what it writes later, and after a trap
nothing changes (`RunGoesOn`). The invariant has two parts:

| part | says |
|---|---|
| `RunsInv` | pc, registers, memory and trace of the reference are a state of the run, and those of the core, read off as in section 3 with the commits among its events, are another |
| `BooksInv` | the reference has written at most as many events as were asked for, and once the bench starts exactly as many unless it has trapped; a bench that has passed has recorded as many commits |

`ReferenceSteps` is the step of the reference. Each step of the core takes it to the
next state of the run or leaves it where it is (`OtherGoesOn`, `HeadWrites`), by the lemmas
of the refinement; what `HeadWrites` adds is that the value in the event, which is read
through the destination of the uop and not through the map, is the one the machine
writes (`HeadDone`). Two traces of one run, of which the core's has the length
asked for, are then the same: the shorter one is a beginning of the longer, and one
that ends before in a trap would have stopped the other too.

- `PassedTracesMatch`: `BenchSpec /\ []Undisturbed => []PassedTraceMatches`.
- `SettledTracesMatch`: `BenchSpec => []PassedTraceMatches`, if `Settled`, as the constants
  of `differential` are.

Where the branch events lead is proved for settled programs, without a condition on the run.
In such a program a transfer executes in the cycle in which it leaves (`NoTransferWaits`:
a transfer in the ROB is the uop of this cycle), so that its branch event, which is
read from `alu_results` after the step, and its commit event are written together
(`StepTells`). `LeadsInv` adds to that what the events say of the run: the n-th branch
event belongs to the n-th commit of a transfer, and the machine went on where it says
(`Told`). With a slower memory a transfer waits behind a load after it has executed, and
its event is written cycles before its commit; the proof does not cover that.

- `SettledBranchesLead`: `BenchSpec => []BranchesLead`, if `Settled`.

The verdict is proved in the last chapter. Each bench watches for one state of the machine
(`Watched`): the ECALL, or the store of 1 to tohost. The invariant ties together what the
reference has noted and what the core has shown:

| part | says |
|---|---|
| `ShownInv` | the flags and stores that a bench can see are those of the step just made: none while the core steps or the reference runs, at most one store, none once tohost was seen; and ECALL's flags report the a0 of the machine |
| `WatchInv` | no state before the reference's is watched for, or `refTohost` is the number of events up to the first such; the core has gone past the first such state exactly if its flags, the request on its way or `saw_tohost` show it (`Seen`) |
| `CountInv` | a recording bench never counts more commits than its target, fewer while the core steps, and its verdict is the one of its formula |

`StepShows` is the step of the core: silent, the commit of a head, an ECALL or a trap. The
store in the request is the machine's (`HeadShows`), the flags are the ECALL's
(`EcallShows`), and nothing else shows anything (`SilentShows`). `ShownInv` needs the loop's
order: a bench looks at the flags and at tohost before each step, and serves all requests
before it looks. When the bench stops, the positions of core and reference in the run are
compared (`RecordedVerdict`, `ObservedVerdictIsRight`).

- `DecidedVerdictIsRight`: `BenchSpec /\ []Undisturbed => [](Decided => VerdictIsRight)`.
- `SettledVerdictIsRight`: `BenchSpec => [](Decided => VerdictIsRight)`, if `Settled`.

`Decided` says that the loop has ended because the bench saw what it waits for and not
because its cycles are used up. The condition is needed: with `MaxCycles = 9`,
TLC finds `VerdictIsRight` violated on the programs of `differential`, and `Decided =>
VerdictIsRight` not. There TLC found `ShownInv` and `CountInv` to hold as well before
they were proved.

### The top level

`TopProofs` proves what `top_streams` checks of `BoomTop`'s state, for every depth of
the ports and of the inner streams. Between the core and the memory there are
now two request streams, two answer streams and answers nobody asked for, but the
core cannot tell: `All` is the theory of `CoreDataProofs` with both request streams
read as one (`Requests`) and, of all answers, only the one that is due (`Due`). A
request that moves from the inner stream to the port, an answer that moves the
other way, and a stray answer all leave what `All` sees as it was. A step of the
LSU is a step of `All`'s LSU or, when it drops a stray answer, one that goes on
waiting. The inductive invariant `TopInv` has, besides `BaseInv`:

| part of `TopInv` | says | needed for |
|---|---|---|
| `PortsInv` | types, and that at most one answer was asked for | `Due` is that answer |
| `RoomInv` | when the core is called the trace is empty, and the inner request stream too, but for the request of a load sent in this call | a store that leaves at the head finds room; one request and one trace entry a cycle are all `TopOut` has to move |
| `All!LoadsInv` | the invariant of the loads, over both pairs of streams | the two promises of the LSU |

`StoreFindsRoom` is where they meet: a load is not sent past an older store, so in
the cycle in which the store at the head leaves, the LSU has sent nothing.

- `TopKeepsUpAlways`: `TopKeepsUp`, from `RoomInv`.
- `TopLoadAnswerComingAlways`: `TopLoadAnswerComing`.
- `TopLoadValueIsCurrentAlways`: `TopLoadValueIsCurrent`.
- `TopNoWrongPath`: `NoWrongPath` holds under the streams too.

`TopInv` was checked by TLC on the four loops of `top_streams` before it was proved. Of
the constants the proofs need at least two transaction ids and one place in the
data streams.

### The single-file core

`MergedCoreProofs` proves `BaseInv` of `MergedCore` with the same lemmas, and adds
`MemoryInv` (no memory instruction is on its way to execute or has a result, and
those in the ROB are busy) and `TraceInv` (the trace is empty when a step begins).

- `MergedTypes`: `CoreTypeOK` and `NoWrongPath` hold in this core too.
- `MergedMemoryNeverIssues`: `MemoryNeverIssues`. Without the part about results it
  is not inductive: a result could clear the busy bit.
- `MergedTraceHasRoom`: `TraceHasRoom`, for every depth of the trace, one included.

The four stages that this file has of its own differ from `BoomCore`'s only in what they
do with memory instructions. `QuietInv` says that without an `lsu_module` no memory
operation is anywhere: the data streams are empty, no load is awaited, and the memory
fields of the ROB are untouched. From it and `MemoryInv` each step taken while no
memory instruction is in the ROB (`MemoryAbsent`) is a step of `BoomCore`, action by
action, and then the theorems about that core carry over:

- `MergedIsCore`: `MergedSpec /\ []MemoryAbsent => Spec`.
- `MergedRunExecutesProgram`: such a run is one of `Isa`, and so has
  `MergedExecutesProgram` without ever using its exception `SkipsMemory`, as long as
  `NothingLost`, `FlushFindsNothing` and `EcallAlone` hold. `SourcesArrived`, the
  fourth part of `Undisturbed`, follows where no load is.
- `MemoryFreeExecutesProgram`: of programs without loads, stores and fences
  (`MemoryFree`) the same without any condition on what happens: `FreeInv` (no memory
  instruction between fetch and commit) gives `MemoryAbsent`, and such programs are
  `Settled` ones. The least ring and register file are those of `Settled`; the run
  `merged_core` has exactly these.

### Only model-checked

- Liveness (`Retires`, `RetiresUnlessDropped`, `StopsOnlyForMemory`, `BenchEnds`,
  `RunEnds`): the provers do not handle fairness and `ENABLED`.
- `MergedExecutesProgram` of runs in which a memory instruction comes into the ROB of the
  single-file core. The ring then fills behind it and uops are lost that a transfer
  drops anyway; `RegsInv` and `IsaInv` do not hold of them, and would need a weaker form
  for what stands behind such an instruction.
- Nothing about `Undisturbed` beyond `Settled` programs: with a slower memory it depends
  on the delays of a run whether a uop is lost, and `CoreExecutesProgram` and the
  theorems about registers keep it, or the part they need, as their hypothesis.
- That `MaxCycles` is enough for the programs of `differential`, the part of
  `VerdictIsRight` that `DecidedVerdictIsRight` leaves open. It is false of longer
  programs.

## 7. Disagreements between the code and what the repository says of it

Each of these is a run that TLC ends with a counterexample; `PROJECT.json` quotes
the line of the document or test.

| run | what happens |
|---|---|
| `rob_full_skips` | a uop that finds the ROB full is thrown away, and the front end is already past it |
| `flush_drops_transfer` | a taken branch right behind a load is flushed by its own redirect before it commits; no delay is needed |
| `load_use_too_early` | with memory slower than a cycle, a consumer of a load reads its register before the load writes it |

Others met while modelling, without a run of their own. The models contain the
behaviour described unless the item says otherwise; the passing runs choose
instances that do not reach it or properties that allow it.

In the core:

- ECALL takes a0 through the speculative map (`boom_core_step.cpp:65`): behind a
  slow load it reports what a younger instruction has written.
- A jump behind a faulting load sets `ROB_EXCEPTION` back to `ROB_NORMAL`
  (`boom_core_step.cpp:46`), and execution goes on after a trap.
- The last position of the free list holds a register already in use
  (`boom_state.hpp:48`).
- An illegal load or store encoding is marked as a memory operation by decode
  (`decode.cpp:157`) and left alone by execute and LSU: it blocks the head for
  good.
- The single-file core never issues a memory operation
  (`boom_core_merged.cpp:385`), and a transfer behind one drops it silently.
- Data paths that differ from RV64 and are not modelled: an SRLI by 32 or more is
  taken for SRAI; the immediates of LUI and AUIPC are not sign extended; ADDW and SLLW add the
  immediate instead of rs2; MUL multiplies the low halves; SRLW has no case.

In the benches and tools:

- The observing bench that runs into `max_cycles` is judged by its registers
  alone (`tb_boom_core.cpp:84`): a core that never reports ECALL passes.
- The matcher compares commits only (`partial_order_matcher.cpp:34`): it reads
  branch events without comparing them, and never looks at the memory fields of a
  commit.
- `sign_extend` of the reference runner subtracts in 32 bits
  (`standalone_boom_trace.cpp:395`): a negative offset comes out positive and a
  store to tohost through it is not seen when it retires, only when memory shows
  it. `TohostIsFirstStored` is therefore about offsets that are not negative.
- The runner makes sure that a failure is not cut to exit code 0, but the
  operating system keeps 8 bits of it (line 653): a failure code that is a multiple of 256 reads as
  success. This last cut is outside the model.

## 8. What is not modelled, and why

- `csr.cpp`: counters that no stage reads.
- ALU operations, access sizes, sign extension and immediates: data that no
  control depends on; a bit-level check belongs to another tool.
- Full output ports of fetches and of the trace: the loop waits there for as long as
  they are not read, which delays it and changes nothing it does. A reader that stops
  for good is excluded by the fairness.
- Code below the entry of a program, whose events the recording bench leaves out
  (`hls_prefix_trace_tb.cpp:219`, `:232`): addresses count from the entry.
- Fetch answers with an error: the response carries `resp_exception`, which the
  front end stores and ignores, so the word it comes with is executed whatever it
  is; `program` may hold any word. Loads answered out of order cannot occur, as
  one is in flight at a time.
- `boom_all.cpp` does not compile: it uses members and functions the headers do
  not declare. `rob.cpp` and `commit.cpp` are empty.
- The other benches (`lsu_minimal_tests`, `gate1_regression_tests`,
  `directed_tests`, co-simulation) are the observing loop around single programs;
  what they promise is quoted in the findings and hazards, and their memories are
  those of `BoomTop`.
- Of the reference harness: the wording of the events, the events of allocation,
  writeback, branches and flush (they copy signals), the stubs of serial line,
  JTAG and UART, and cycles in which more than one instruction commits. A commit with
  a floating-point destination, whose `pdst` is not a register of `iregfile`, does not
  occur: the programs are integer ones.
- Python and shell scripts, recorded traces, the patch of the original processor:
  off-line tools and data.
- The floating-point pipeline, branch prediction, caches: not in the code.

## 9. Plan

Done: BoomTypes, Rob with InOrderWindow, Frontend, Rename, Lsu, Isa, BoomCore,
BoomTop, MergedCore, SimpleMemory, TraceRunner, Differential, and eight proof
modules: facts about sequences, the ring and the harness on their own, the front
end and the composed core, its loads and registers, the program it executes and what
the benches record and say of it, the top level, and the single-file core.

Next, extending the model:

1. The free list on its own (`RenameSpec`: rename, commit, mispredict in any
   order) with an abstract pool of registers that it refines as long as more than
   one register is left.
2. An LSU on its own with an abstract memory (a load returns the last value
   stored before it in program order) as its specification.
3. Fetch errors, and csr's `instret` against the number of commits.
4. The rules of `scripts/provisional_gate3_lib.py` as operators over recorded
   events, checked against the events of `Differential`.

Next, proving:

1. That the free list refines an abstract pool of registers, from `RegsInv`.
2. How many cycles a settled program takes, so that `Decided` follows from `MaxCycles`
   and a bound on the instructions of the program.

---------------------------- MODULE SimpleMemory ----------------------------
(***************************************************************************)
(* The memory behind the reference processor in the Verilator harness:     *)
(* class SimpleMemory of standalone_boom_trace.cpp and its DPI wrappers.   *)
(* It serves one AXI port.  Reads are answered beat by beat in the order   *)
(* they were accepted; one write burst is taken at a time and answered by  *)
(* its id; every write beat looks whether tohost now holds a value.        *)
(*                                                                         *)
(* A doubleword is a function from lanes to bytes, the bus is one          *)
(* doubleword wide, and a byte that was never written reads as zero.       *)
(***************************************************************************)
EXTENDS Integers, SequencesExt

CONSTANTS WordBytes,    \* word_size, 8
          MemBytes,     \* size, a multiple of the word
          ByteValues,   \* values a byte has, 256
          AxiIds,       \* transaction ids, 0 among them
          TohostAddr    \* g_tohost_addr

ASSUME WordBytesAssumption == WordBytes \in Nat \ {0}
ASSUME MemBytesAssumption == MemBytes \in Nat \ {0} /\ MemBytes % WordBytes = 0
ASSUME ByteValuesAssumption == ByteValues \in Nat \ {0}
ASSUME AxiIdsAssumption == 0 \in AxiIds
ASSUME TohostAddrAssumption == TohostAddr \in Nat

VARIABLES bytes,            \* bytes_
          rresp,            \* rresp_, the beats that wait to be read
          bresp,            \* bresp_, the ids of finished write bursts
          storeInflight,    \* store_inflight_
          storeAddr,        \* store_addr_, where the next beat goes
          storeId,          \* store_id_
          storeSize,        \* store_size_, bytes per beat
          storeCount,       \* store_count_, beats to come
          tohostSeen,       \* tohost_seen_
          tohostValue       \* tohost_value_

storeVars == <<storeInflight, storeAddr, storeId, storeSize, storeCount>>
axiVars == <<bytes, rresp, bresp, storeVars, tohostSeen, tohostValue>>

Byte == 0 .. ByteValues - 1
Lane == 0 .. WordBytes - 1
Address == 0 .. MemBytes - 1
Doubleword == [Lane -> Byte]
Zero == [l \in Lane |-> 0]

\* A burst: beats - 1 is the length on the wire.
Burst == [addr : Address, id : AxiIds, size : 1 .. WordBytes, beats : 1 .. MemBytes]

\* A channel on which nothing is valid.
Nothing == [none |-> TRUE]

Wrap(a) == a % MemBytes
LaneOf(a) == a % WordBytes
WordBase(a) == a - LaneOf(a)

ReadWord(m, a) == [l \in Lane |-> m[Wrap(a + l)]]

-----------------------------------------------------------------------------

\* A line of the file holds its bytes with the lowest address last.
WithLine(m, start, line) ==
    [a \in Address |-> LET offset == (a - start) % MemBytes
                       IN  IF offset < Len(line) THEN line[Len(line) - offset] ELSE m[a]]

\* load_hex: the lines of the file one behind the other, none longer than memory.
LoadHex(start, lines) ==
    LET Loaded[n \in 0 .. Len(lines)] ==
            IF n = 0 THEN [mem |-> [a \in Address |-> 0], addr |-> start]
            ELSE [mem |-> WithLine(Loaded[n - 1].mem, Loaded[n - 1].addr, lines[n]),
                  addr |-> Loaded[n - 1].addr + Len(lines[n])]
    IN  Loaded[Len(lines)].mem

MemoryInit(start, lines) ==
    /\ bytes = LoadHex(start, lines)
    /\ rresp = <<>>
    /\ bresp = <<>>
    /\ storeInflight = FALSE
    /\ storeAddr = 0
    /\ storeId = 0
    /\ storeSize = 0
    /\ storeCount = 0
    /\ tohostSeen = FALSE
    /\ tohostValue = Zero

\* A tick with reset: the queues and the watch are cleared, the contents stay.
MemoryReset ==
    /\ rresp' = <<>>
    /\ bresp' = <<>>
    /\ storeInflight' = FALSE
    /\ tohostSeen' = FALSE
    /\ tohostValue' = Zero
    /\ UNCHANGED <<bytes, storeAddr, storeId, storeSize, storeCount>>

-----------------------------------------------------------------------------
(* A tick without reset.  The queues answer with what was accepted before. *)

\* Mutant of Beats: one beat too few.
BeatsShort(ar) ==
    IF ar = Nothing THEN <<>>
    ELSE [k \in 1 .. ar.beats - 1 |->
             [id |-> ar.id, last |-> k = ar.beats - 1,
              data |-> ReadWord(bytes, WordBase(ar.addr) + (k - 1) * WordBytes)]]

\* A read burst is turned into its beats at once, one word each, from the start
\* of the word it addresses.
Beats(ar) ==
    IF ar = Nothing THEN <<>>
    ELSE [k \in 1 .. ar.beats |->
             [id |-> ar.id, last |-> k = ar.beats,
              data |-> ReadWord(bytes, WordBase(ar.addr) + (k - 1) * WordBytes)]]

\* The lanes a beat of the burst may write.
Window(addr, size) == LaneOf(addr) .. LaneOf(addr) + size - 1

Written(data, lanes) ==
    [a \in Address |-> IF \E l \in lanes : a = Wrap(WordBase(storeAddr) + l)
                       THEN data[LaneOf(a)] ELSE bytes[a]]

\* Mutant of WatchTohost: any write to the word counts, one of zero too.
WatchTohostAnyValue(base) ==
    IF TohostAddr # 0 /\ TohostAddr \in base .. base + WordBytes - 1
    THEN tohostSeen' = TRUE /\ tohostValue' = ReadWord(bytes', TohostAddr)
    ELSE UNCHANGED <<tohostSeen, tohostValue>>

\* update_tohost, after the word at base has been written.  With tohost at 0 it is
\* switched off.
WatchTohost(base) ==
    LET value == ReadWord(bytes', TohostAddr)
    IN  IF /\ TohostAddr # 0 /\ TohostAddr \in base .. base + WordBytes - 1
           /\ value # Zero
        THEN tohostSeen' = TRUE /\ tohostValue' = value
        ELSE UNCHANGED <<tohostSeen, tohostValue>>

NoWrite ==
    UNCHANGED <<bytes, storeVars, tohostSeen, tohostValue>>

AcceptBurst(aw) ==
    /\ ~storeInflight
    /\ storeInflight' = TRUE
    /\ storeAddr' = aw.addr
    /\ storeId' = aw.id
    /\ storeSize' = aw.size
    /\ storeCount' = aw.beats
    /\ UNCHANGED <<bytes, tohostSeen, tohostValue>>

\* Mutant of WriteBeat: the address moves on by a word, not by the beat's size.
WriteBeatByWords(w) ==
    /\ storeInflight
    /\ bytes' = Written(w.data, w.strobes \cap Window(storeAddr, storeSize))
    /\ storeAddr' = storeAddr + WordBytes
    /\ storeCount' = storeCount - 1
    /\ storeInflight' = (storeCount' # 0)
    /\ WatchTohost(WordBase(storeAddr))
    /\ UNCHANGED <<storeId, storeSize>>

WriteBeat(w) ==
    /\ storeInflight
    /\ bytes' = Written(w.data, w.strobes \cap Window(storeAddr, storeSize))
    /\ storeAddr' = storeAddr + storeSize
    /\ storeCount' = storeCount - 1
    /\ storeInflight' = (storeCount' # 0)
    /\ WatchTohost(WordBase(storeAddr))
    /\ UNCHANGED <<storeId, storeSize>>

\* tick: a valid channel that is not ready waits; a read that comes with a write
\* beat still sees the memory without it.
Tick(ar, aw, w, rReady, bReady) ==
    /\ \/ aw # Nothing /\ AcceptBurst(aw)
       \/ w # Nothing /\ WriteBeat(w)
       \/ /\ aw = Nothing \/ storeInflight
          /\ w = Nothing \/ ~storeInflight
          /\ NoWrite
    /\ rresp' = (IF rReady /\ rresp # <<>> THEN Tail(rresp) ELSE rresp) \o Beats(ar)
    /\ bresp' = (IF bReady /\ bresp # <<>> THEN Tail(bresp) ELSE bresp)
                \o (IF storeInflight /\ ~storeInflight' THEN <<storeId>> ELSE <<>>)

-----------------------------------------------------------------------------

\* Every component of the memory has its type.
MemoryTypeOK ==
    /\ bytes \in [Address -> Byte]
    /\ rresp \in Seq([id : AxiIds, last : BOOLEAN, data : Doubleword])
    /\ bresp \in Seq(AxiIds)
    /\ storeInflight \in BOOLEAN
    /\ storeId \in AxiIds
    /\ storeSize \in 0 .. WordBytes
    /\ storeCount \in 0 .. MemBytes
    /\ storeInflight => storeCount > 0
    /\ tohostSeen \in BOOLEAN
    /\ tohostValue \in Doubleword
    /\ tohostSeen <=> tohostValue # Zero

=============================================================================

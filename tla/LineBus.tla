------------------------------ MODULE LineBus ------------------------------
(***************************************************************************)
(* The data side of the core's bus interface in ccore.bsv: line reads, line *)
(* write-backs as bursts, and uncached accesses, turned into the requests  *)
(* of an AXI4 master.                                                      *)
(*                                                                         *)
(* The data cache and the fabric are outside.  The cache asks for lines it *)
(* does not hold, writes back lines it has changed, and passes on uncached *)
(* reads and writes.  The fabric answers reads and writes on channels of   *)
(* their own, so it may serve a read before a write that was sent earlier; *)
(* FabricOrders says that this one does not.                               *)
(***************************************************************************)
EXTENDS Naturals, Sequences, FiniteSets

CONSTANTS
  Lines,         \* cacheable lines
  IoLines,       \* uncached locations
  Region,        \* what the delay compares: the address above dwords + dblocks bits
  Beats,         \* dblocks: words of a line
  MaxVersion,    \* bound: how often a line is changed
  WriteQueue,    \* write-backs the cache may have queued
  ChannelDepth,  \* room in each channel of the AXI transactor
  FabricOrders   \* a write that was sent completely is served before a read of the place

ASSUME LineBusAssumption ==
  /\ Lines \cap IoLines = {}
  /\ Region \in [Lines \cup IoLines -> Lines \cup IoLines]
  /\ Beats \in Nat \ {0, 1}
  /\ MaxVersion \in Nat
  /\ WriteQueue \in Nat \ {0}
  /\ ChannelDepth \in Nat \ {0}
  /\ FabricOrders \in BOOLEAN

Version == 0 .. MaxVersion
Location == Lines \cup IoLines

\* One word on the bus: which word of which version of which line it is.
Datum == [line : Location, version : Version, index : 0 .. (Beats - 1)]

VARIABLES
  cached,   \* the cache: the lines it holds
  latest,   \* the cache: the version of each line the core has last written
  readMem,  \* ff_read_mem_request of the cache
  writeMem, \* ff_write_mem_request of the cache
  asked,    \* locations the cache or the core waits for
  burst,    \* rg_burst_count
  shift,    \* rg_shift_amount, in words
  wrReq,    \* wr_write_req: the line being written back
  held,     \* rg_read_line_req: a read that was delayed
  rdAddr, wrAddr, wrData, rdData, wrResp,  \* channels of memory_xactor
  taken,    \* words of the oldest write the memory has taken
  memory,   \* what the memory behind the fabric holds
  acks      \* answers to writes awaited: how many by the cache, and where by the core

cacheVars == <<cached, latest, readMem, writeMem, asked, acks>>
coreVars == <<burst, shift, wrReq, held>>
fabricVars == <<rdAddr, wrAddr, wrData, rdData, wrResp, taken, memory>>
busVars == <<cacheVars, coreVars, fabricVars>>

Room(channel) == Len(channel) < ChannelDepth
Word(l, v, i) == [line |-> l, version |-> v, index |-> i]
WholeLine(l, v) == [i \in 0 .. (Beats - 1) |-> Word(l, v, i)]

BusIdle ==
  /\ cached = Lines
  /\ latest = [l \in Lines |-> 0]
  /\ readMem = <<>>
  /\ writeMem = <<>>
  /\ asked = {}
  /\ burst = 0
  /\ shift = 1
  /\ wrReq = <<>>
  /\ held = <<>>
  /\ rdAddr = <<>>
  /\ wrAddr = <<>>
  /\ wrData = <<>>
  /\ rdData = <<>>
  /\ wrResp = <<>>
  /\ taken = 0
  /\ memory = [l \in Lines |-> WholeLine(l, 0)]
  /\ acks = [cache |-> 0, core |-> {}]

-----------------------------------------------------------------------------
(* The data cache and the core (external)                                     *)

\* A line that was changed is written back when it is replaced.
CacheEvicts(l) ==
  /\ l \in cached
  /\ latest[l] < MaxVersion
  /\ Len(writeMem) < WriteQueue
  /\ cached' = cached \ {l}
  /\ latest' = [latest EXCEPT ![l] = @ + 1]
  /\ writeMem' = Append(writeMem, [line |-> l, version |-> latest'[l], io |-> FALSE])
  /\ acks' = [acks EXCEPT !.cache = @ + 1]
  /\ UNCHANGED <<readMem, asked, coreVars, fabricVars>>

\* A miss.  Assumed of the cache: it does not ask for a line while the
\* write-back of it waits in its queue untouched.
CacheMisses(l) ==
  /\ l \notin cached \cup asked
  /\ \A n \in DOMAIN writeMem : writeMem[n].line = l => n = 1 /\ wrReq = <<l>>
  /\ asked' = asked \cup {l}
  /\ readMem' = Append(readMem, [line |-> l, io |-> FALSE])
  /\ UNCHANGED <<cached, latest, writeMem, acks, coreVars, fabricVars>>

CoreReads(l) ==
  /\ asked \cap IoLines = {} /\ acks.core = {}
  /\ asked' = asked \cup {l}
  /\ readMem' = Append(readMem, [line |-> l, io |-> TRUE])
  /\ UNCHANGED <<cached, latest, writeMem, acks, coreVars, fabricVars>>

\* Write back waits for the answer of one uncached store at a time.
CoreWrites(l) ==
  /\ asked \cap IoLines = {} /\ acks.core = {}
  /\ Len(writeMem) < WriteQueue
  /\ writeMem' = Append(writeMem, [line |-> l, version |-> 0, io |-> TRUE])
  /\ acks' = [acks EXCEPT !.core = {l}]
  /\ UNCHANGED <<cached, latest, readMem, asked, coreVars, fabricVars>>

-----------------------------------------------------------------------------
(* Reads                                                                      *)

NeverWait(l) == FALSE \* mutant

\* The read is to where a burst is being written.
MustWait(l) == wrReq # <<>> /\ Region[wrReq[1]] = Region[l]

\* rl_handle_dmem_line_read_request
LineReadRequest ==
  /\ held = <<>>
  /\ readMem # <<>>
  /\ Room(rdAddr)
  /\ readMem' = Tail(readMem)
  /\ IF MustWait(Head(readMem).line)
     THEN held' = <<Head(readMem)>> /\ UNCHANGED rdAddr
     ELSE rdAddr' = Append(rdAddr, Head(readMem)) /\ UNCHANGED held
  /\ UNCHANGED <<cached, latest, writeMem, asked, acks, burst, shift, wrReq,
                 wrAddr, wrData, rdData, wrResp, taken, memory>>

\* rl_handle_delayed_read
DelayedRead ==
  /\ held # <<>>
  /\ wrReq = <<>>
  /\ Room(rdAddr)
  /\ rdAddr' = Append(rdAddr, held[1])
  /\ held' = <<>>
  /\ UNCHANGED <<cacheVars, burst, shift, wrReq, wrAddr, wrData, rdData, wrResp,
                 taken, memory>>

\* rl_handle_dmem_line_resp: the cache, or the core, has its answer.
LineResponse ==
  /\ rdData # <<>>
  /\ rdData' = Tail(rdData)
  /\ asked' = asked \ {Head(rdData).line}
  /\ cached' = cached \cup ({Head(rdData).line} \cap Lines)
  /\ UNCHANGED <<latest, readMem, writeMem, acks, coreVars,
                 rdAddr, wrAddr, wrData, wrResp, taken, memory>>

-----------------------------------------------------------------------------
(* Writes                                                                     *)

\* What the bus carries of the request at the head of the queue: the word at
\* the low end after a shift by n words.
Shifted(n) == Word(Head(writeMem).line, Head(writeMem).version, n)

Beat(n, last) == [word |-> Shifted(n), last |-> last]

\* rl_handle_dmem_write_request: the address and the first word.
WriteRequest ==
  /\ burst = 0
  /\ writeMem # <<>>
  /\ Room(wrAddr) /\ Room(wrData)
  /\ LET req == Head(writeMem)
     IN /\ wrAddr' = Append(wrAddr, [line |-> req.line, io |-> req.io])
        /\ wrData' = Append(wrData, Beat(0, req.io))
        /\ IF req.io
           THEN writeMem' = Tail(writeMem) /\ UNCHANGED <<burst, wrReq>>
           ELSE /\ burst' = 1
                /\ wrReq' = <<req.line>>
                /\ UNCHANGED writeMem
  /\ UNCHANGED <<cached, latest, readMem, asked, acks, shift, held, rdAddr, rdData, wrResp,
                 taken, memory>>

\* mutants: the shift is not reset; the read is not released
BurstKeepsShift(last) ==
  /\ shift' = (shift + 1) % Beats
  /\ IF last
     THEN burst' = 0 /\ wrReq' = <<>> /\ writeMem' = Tail(writeMem)
     ELSE burst' = burst + 1 /\ UNCHANGED <<wrReq, writeMem>>

BurstKeepsHold(last) ==
  /\ UNCHANGED wrReq
  /\ IF last
     THEN burst' = 0 /\ shift' = 1 /\ writeMem' = Tail(writeMem)
     ELSE burst' = burst + 1 /\ shift' = shift + 1 /\ UNCHANGED writeMem

\* The end of a burst: the delayed read may go and the cache's queue moves on.
BurstEnds(last) ==
  IF last
  THEN /\ burst' = 0
       /\ shift' = 1
       /\ wrReq' = <<>>
       /\ writeMem' = Tail(writeMem)
  ELSE /\ burst' = burst + 1
       /\ shift' = shift + 1
       /\ UNCHANGED <<wrReq, writeMem>>

\* rl_dmem_burst_write_data
BurstData ==
  /\ burst # 0
  /\ Room(wrData)
  /\ wrData' = Append(wrData, Beat(shift, burst = Beats - 1))
  /\ BurstEnds(burst = Beats - 1)
  /\ UNCHANGED <<cached, latest, readMem, asked, acks, held, rdAddr, wrAddr, rdData,
                 wrResp, taken, memory>>

\* handle_dmem_line_write_resp: by the id, to the cache or to write back.
WriteResponse ==
  /\ wrResp # <<>>
  /\ wrResp' = Tail(wrResp)
  /\ acks' = IF Head(wrResp).io
             THEN [acks EXCEPT !.core = @ \ {Head(wrResp).line}]
             ELSE [acks EXCEPT !.cache = @ - 1]
  /\ UNCHANGED <<cached, latest, readMem, writeMem, asked, coreVars,
                 rdAddr, wrAddr, wrData, rdData, taken, memory>>

-----------------------------------------------------------------------------
(* The fabric and the memory (external)                                       *)

\* Takes the next word of the oldest write; the last one ends it.
FabricWrites ==
  /\ wrAddr # <<>> /\ wrData # <<>>
  /\ Room(wrResp)
  /\ wrData' = Tail(wrData)
  /\ memory' = IF Head(wrAddr).io
               THEN memory
               ELSE [memory EXCEPT ![Head(wrAddr).line][taken] = Head(wrData).word]
  /\ IF Head(wrData).last
     THEN /\ taken' = 0
          /\ wrAddr' = Tail(wrAddr)
          /\ wrResp' = Append(wrResp, Head(wrAddr))
     ELSE /\ taken' = (taken + 1) % Beats
          /\ UNCHANGED <<wrAddr, wrResp>>
  /\ UNCHANGED <<cacheVars, coreVars, rdAddr, rdData>>

\* The writes of which every word was sent and not yet taken.
SentWrites ==
  {wrAddr[n].line : n \in 1 .. Cardinality({m \in DOMAIN wrData : wrData[m].last})}

FabricReads ==
  /\ rdAddr # <<>>
  /\ Room(rdData)
  /\ FabricOrders => Head(rdAddr).line \notin SentWrites
  /\ rdAddr' = Tail(rdAddr)
  /\ rdData' = Append(rdData,
       [line |-> Head(rdAddr).line,
        words |-> IF Head(rdAddr).io THEN <<>> ELSE memory[Head(rdAddr).line]])
  /\ UNCHANGED <<cacheVars, coreVars, wrAddr, wrData, wrResp, taken, memory>>

-----------------------------------------------------------------------------
BusRules ==
  \/ LineReadRequest \/ DelayedRead \/ LineResponse
  \/ WriteRequest \/ BurstData \/ WriteResponse
  \/ FabricWrites \/ FabricReads

BusNext ==
  \/ \E l \in Lines : CacheEvicts(l) \/ CacheMisses(l)
  \/ \E l \in IoLines : CoreReads(l) \/ CoreWrites(l)
  \/ BusRules

BusSpec == BusIdle /\ [][BusNext]_busVars

\* A rule fires when nothing it needs is missing, and the fabric serves what
\* it was sent.
BusFairness ==
  /\ WF_busVars(LineReadRequest) /\ WF_busVars(DelayedRead) /\ WF_busVars(LineResponse)
  /\ WF_busVars(WriteRequest) /\ WF_busVars(BurstData) /\ WF_busVars(WriteResponse)
  /\ WF_busVars(FabricWrites) /\ WF_busVars(FabricReads)

-----------------------------------------------------------------------------
(* Properties                                                                 *)

\* What the beat counter, the shift and the queue of the cache say of one
\* burst agree with what is on the channels: whatever was written between, a
\* line in memory is one version of that line, with every word in its place.
BurstsAreLines ==
  \A l \in Lines :
    \/ taken # 0 /\ Head(wrAddr).line = l
    \/ \E v \in Version : memory[l] = WholeLine(l, v)

\* A line that is read after it was written back comes as it was written
\* back: the read does not overtake the words still being sent.
ReadsAreFresh ==
  \A n \in DOMAIN rdData :
    LET l == rdData[n].line
    IN l \in Lines => rdData[n].words = WholeLine(l, latest[l])

\* ccore.bsv:172-174: once a write of a line is initiated, no read of it is
\* passed on before the answer to the write.
WritePending(l) ==
  \/ \E n \in DOMAIN wrAddr : wrAddr[n].line = l
  \/ \E n \in DOMAIN wrResp : wrResp[n].line = l

ReadAfterWriteResponse ==
  [][Len(rdAddr') > Len(rdAddr) => ~ WritePending(rdAddr'[Len(rdAddr')].line)]_busVars

\* Whoever asked for a line, a location or an acknowledgement gets it; a
\* delayed read in particular is sent in the end.
BusProgress ==
  /\ \A l \in Location : l \in asked ~> l \notin asked
  /\ \A l \in IoLines : l \in acks.core ~> l \notin acks.core
  /\ acks.cache > 0 ~> acks.cache = 0

=============================================================================

-------------------------------- MODULE Engine --------------------------------
(***************************************************************************)
(* The process: main() reads the configuration, makes the server and the   *)
(* queues with their channels, and serves; it is killed or ends at any     *)
(* step and is started again, with another configuration perhaps, while    *)
(* readers keep what it left.                                              *)
(*                                                                         *)
(* Nearly everything here is noexcept: what throws ends the process.       *)
(* io_context::run() does not return, so that the process never ends well. *)
(*                                                                         *)
(* denied, lost and cause are history: what this process was denied, which *)
(* channels it could not have and why, and what ended it.                  *)
(***************************************************************************)
EXTENDS Channel, Bits

CONSTANTS Files,         \* what config.json may hold: keys with their numbers
          MegaByte,      \* 1024 * 1024
          MinRam,        \* 16, in MB
          DefaultSlabs,  \* 10
          EntrySize,     \* sizeof(LogEntry)
          SizeBits,      \* 64, the bits of a size
          SizeRange,     \* 2^64, the range of a size
          Contexts,      \* 2: context_vec.size()
          MaxStarts      \* bound on the processes

ASSUME EngineAssumption ==
  /\ MegaByte \in Nat \ {0} /\ MinRam \in Nat \ {0} /\ DefaultSlabs \in Nat
  /\ EntrySize \in Nat \ {0} /\ SizeRange \in Nat \ {0}
  /\ Contexts \in Nat \ {0} /\ MaxStarts \in Nat
(* The sizes and ranges of the program are powers of two, and the least    *)
(* memory has room for two logs.                                           *)
ASSUME BitsAssumption ==
  /\ SizeBits \in Nat /\ SizeRange = Pow2[SizeBits]
  /\ {MegaByte, MinRam, DwordRange} \subseteq Powers(SizeBits)
  /\ MinRam < SizeRange /\ 2 * EntrySize <= MinRam * MegaByte

VARIABLES pc,           \* what the main thread does next
          config,       \* the MainConfig
          queue,        \* the queue that start_threads() is making
          field,        \* the field of the control block written next
          capacity,     \* of each queue's ring, 0 if it has none
          next_worker,  \* next_worker_index
          sessions,     \* the contexts that serve a client
          starts, denied, lost, cause

history    == <<denied, lost>>
mainVars   == <<config, queue, field, capacity>>
serverVars == <<next_worker, sessions>>
engineVars == <<channelVars, pc, mainVars, serverVars, starts, history, cause>>

----------------------------------------------------------------------------
BitFloor(n) == IF n = 0 THEN 0 ELSE CHOOSE p \in Powers(SizeBits) : p <= n /\ n < 2 * p
BitCeil(n)  == CHOOSE p \in Powers(SizeBits) : n <= p /\ p < 2 * n

(* The member-wise defaults of MainConfig, and GetUserCofig().  A file that*)
(* cannot be opened or parsed, and a key that is missing or not a number of*)
(* the right kind, leave the defaults.                                     *)
NumberOr(default, file, key) == IF key \in DOMAIN file THEN file[key] ELSE default

ProfileOf(file) ==
  LET p == NumberOr(1, file, "profile") % DwordRange   \* an int
  IN IF p \in 0 .. 2 THEN p ELSE 1

GetUserCofig(file) ==
  LET log_size == NumberOr(1, file, "log_size")
  IN [usable_ram |-> NumberOr(MinRam, file, "usable_ram"),
      log_size   |-> log_size,
      profile    |-> ProfileOf(file),
      thread_num |-> NumberOr(1, file, "thread_num"),
      max_slabs  |-> NumberOr(DefaultSlabs, file, "max_slabs"),
      slabs_size |-> log_size]

(* The constructor of ThreadManager.                                       *)
Clamped(c) ==
  [c EXCEPT !.thread_num = IF @ = 0 THEN 1 ELSE @,
            !.usable_ram = BitFloor(IF @ < MinRam THEN MinRam ELSE @)]

(* The numbers are sizes, and every queue has a channel's name.            *)
ASSUME FilesAssumption ==
  \A file \in Files :
    /\ \A key \in DOMAIN file : file[key] \in 0 .. SizeRange - 1
    /\ 0 .. Clamped(GetUserCofig(file)).thread_num - 1 \subseteq Channels

(* The sizes that follow from it: a slab, the ring of a queue, the stash.  *)
InBytes(megabytes) == (megabytes * MegaByte) % SizeRange
SlabBytes  == InBytes(config.slabs_size)
RawSlots   == InBytes(config.usable_ram) \div EntrySize
StashBytes == BitFloor(InBytes(config.log_size))
Bytes      == TotalBytes(SlabBytes, config.max_slabs) % SizeRange
Queues == 0 .. config.thread_num - 1

----------------------------------------------------------------------------
GoTo(step) == pc' = step /\ UNCHANGED <<starts, history, cause>>
MainOnly == UNCHANGED <<channelVars, serverVars>>

EngineInit ==
  /\ ChannelInit
  /\ pc = "down" /\ config = GetUserCofig(<< >>)
  /\ queue = 0 /\ field = 1 /\ capacity = [i \in Channels |-> 0]
  /\ next_worker = 0 /\ sessions = {}
  /\ starts = 0 /\ denied = {} /\ lost = {} /\ cause = "none"

(* main() up to the server.                                                *)
Start(file) ==
  /\ pc = "down" /\ starts < MaxStarts
  /\ config' = GetUserCofig(file)
  /\ pc' = "bind" /\ starts' = starts + 1 /\ cause' = "none"
  /\ denied' = {} /\ lost' = {}
  /\ queue' = 0 /\ field' = 1 /\ capacity' = [i \in Channels |-> 0]
  /\ next_worker' = 0 /\ sessions' = {} /\ UNCHANGED channelVars

(* The process ends; the system takes back what it held.  No destructor of *)
(* SlabPool or MagicRingBuffer runs.                                       *)
Ends(why, what) ==
  /\ pc' = "down" /\ cause' = why /\ denied' = denied \cup what
  /\ ReleaseAll /\ sessions' = {}
  /\ UNCHANGED <<mainVars, next_worker, starts, lost>>

Killed == pc # "down" /\ Ends("killed", {})

(* The acceptor throws if port 8080 is taken.                              *)
Bind ==
  /\ pc = "bind"
  /\ \/ GoTo("clamp") /\ MainOnly /\ UNCHANGED mainVars
     \/ Ends("terminated", {"port"})

Clamp ==
  /\ pc = "clamp" /\ config' = Clamped(config)
  /\ GoTo("queues") /\ MainOnly /\ UNCHANGED <<queue, field, capacity>>

(* start_threads(): one queue after the other.                             *)
AnotherMutant == queue + 1 \in Queues
Another == queue \in Queues

NextQueue ==
  /\ pc = "queues"
  /\ \/ Another /\ GoTo("create")
     \/ ~ Another /\ GoTo("serving")
  /\ MainOnly /\ UNCHANGED mainVars

(* The constructor of LogQueue returns early: a queue with neither channel *)
(* nor ring.                                                               *)
QueueDone == queue' = queue + 1 /\ field' = 1 /\ UNCHANGED config
WithoutChannel(why) ==
  /\ pc' = "queues" /\ lost' = lost \cup {<<queue, why>>}
  /\ QueueDone /\ UNCHANGED <<capacity, serverVars, starts, denied, cause>>

CreateChannel ==
  /\ pc = "create"
  /\ \/ /\ CreateFileMapping(queue, Bytes) /\ GoTo("map")
        /\ UNCHANGED <<mainVars, serverVars>>
     \/ WithoutChannel("memory") /\ UNCHANGED channelVars

MapChannel ==
  /\ pc = "map"
  /\ \/ /\ MapViewOfFile(queue, Bytes) /\ GoTo("write")
        /\ UNCHANGED <<mainVars, serverVars>>
     \/ /\ CloseHandle(queue)
        /\ WithoutChannel(IF Bytes <= section[queue] THEN "memory" ELSE "section")

WriteControl ==
  /\ pc = "write"
  /\ WriteField(queue, Fields[field], ControlBlock(SlabBytes, config.max_slabs))
  /\ field' = field + 1
  /\ GoTo(IF field < Len(Fields) THEN "write" ELSE "ring")
  /\ UNCHANGED <<config, queue, capacity, serverVars>>

RingOfMutant(slots) == slots
RingOf(slots) == BitCeil(slots)

MakeRing ==
  /\ pc = "ring"
  /\ \/ /\ capacity' = [capacity EXCEPT ![queue] =
                          IF RawSlots < 2 THEN @ ELSE RingOf(RawSlots)]
        /\ QueueDone /\ GoTo("queues") /\ MainOnly
     \/ Ends("terminated", {"memory"})

----------------------------------------------------------------------------
(* The handler of start_accept(): the queue of the context, then a session *)
(* with its stash, which throws if it cannot be had (MagicRing).  What is  *)
(* behind the last queue is no queue.                                      *)
StashPossible == StashBytes # 0 /\ StashBytes % DwordRange # 0

PickWorkerMutant(n) == n + 1
PickWorker(n) == (n + 1) % Contexts

Accept ==
  /\ pc = "serving"
  /\ \/ next_worker \notin Queues /\ Ends("no queue", {})
     \/ next_worker \in Queues /\ ~ StashPossible /\ Ends("terminated", {})
     \/ next_worker \in Queues /\ Ends("terminated", {"memory"})
     \/ /\ next_worker \in Queues /\ StashPossible
        /\ sessions' = sessions \cup {next_worker}
        /\ next_worker' = PickWorker(next_worker)
        /\ GoTo("serving") /\ UNCHANGED <<channelVars, mainVars>>

(* A session's log is written to the channel of its queue, which get_next_ *)
(* slab() takes to be there and to have room for the slabs.                *)
RoomForSlabs ==
  config.max_slabs >= 1 /\ TotalBytes(SlabBytes, config.max_slabs) < SizeRange

LogArrives(worker) ==
  /\ pc = "serving" /\ worker \in sessions
  /\ \/ worker \notin view /\ Ends("null channel", {})
     \/ worker \in view /\ ~ RoomForSlabs /\ Ends("overrun", {})

(* Sessions end.                                                           *)
SessionEnds(worker) ==
  /\ pc = "serving" /\ worker \in sessions
  /\ sessions' = sessions \ {worker} /\ GoTo("serving")
  /\ UNCHANGED <<channelVars, mainVars, next_worker>>

Reader(i) ==
  /\ ReaderOpens(i) \/ ReaderCloses(i)
  /\ UNCHANGED <<pc, mainVars, serverVars, starts, history, cause>>

EngineNext ==
  \/ \E file \in Files : Start(file)
  \/ Killed \/ Bind \/ Clamp \/ NextQueue \/ CreateChannel \/ MapChannel
  \/ WriteControl \/ MakeRing \/ Accept
  \/ \E worker \in sessions : LogArrives(worker)
  \/ \E worker \in sessions : SessionEnds(worker)
  \/ \E i \in Channels : Reader(i)

EngineSpec == EngineInit /\ [][EngineNext]_engineVars

----------------------------------------------------------------------------
SoundConfig ==
  /\ config.thread_num >= Contexts
  /\ RoomForSlabs /\ StashPossible

(* The locals of start_threads(), the index of start_accept() and the      *)
(* channels have their types, and MainConfig is of a thread or more and of *)
(* one of three profiles once the constructor of ThreadManager has seen it *)
(* (MainConfig.h, ThreadManager.cpp:11-56).                                *)
EngineTypeOK ==
  /\ pc \in {"down", "bind", "clamp", "queues", "create", "map", "write", "ring", "serving"}
  /\ section \in [Channels -> Nat] /\ readers \cup handle \cup view \subseteq Channels
  /\ queue \in Nat /\ field \in 1 .. Len(Fields) + 1
  /\ next_worker \in 0 .. Contexts - 1 /\ sessions \subseteq 0 .. Contexts - 1
  /\ pc \notin {"down", "bind", "clamp"} =>
       config.thread_num \in Nat \ {0} /\ config.profile \in 0 .. 2

(* InitializeSharedMemory leaves no handle without its view, however it    *)
(* fails, and a process that has ended holds nothing; what it leaves in    *)
(* the system it leaves to readers (LogServer.h:138-147).          *)
NoHandleLeft ==
  /\ \A i \in handle : i \in view \/ (pc = "map" /\ queue = i)
  /\ pc = "down" => handle = {} /\ \A i \in Channels : section[i] # 0 => i \in readers

(* When the engine serves, the control block of every channel it has says  *)
(* what it does, whatever an earlier process left in the section, and all  *)
(* slabs are inside of it.  The size of a slab is cut to 32 bits there, but*)
(* not in an engine that can have sessions (LogServer.h:129-156).          *)
ControlBlocksReady ==
  pc = "serving" /\ RoomForSlabs /\ StashPossible /\ config.max_slabs < DwordRange =>
    \A i \in view :
      /\ control[i] = [magic_number |-> VORT, slab_size |-> SlabBytes,
                       max_slabs |-> config.max_slabs, header_size |-> ControlSize,
                       write_offset |-> 0, read_offset |-> 0]
      /\ ControlSize + SlabBytes * config.max_slabs <= section[i]

(* A queue is without its channel only because Windows had no memory for   *)
(* that one or because a reader has kept a smaller one from an earlier     *)
(* process (LogQueue.cpp:14-17, ThreadManager.cpp:52-56).                  *)
ChannelLossHasCause ==
  pc = "serving" =>
    \A i \in Queues \ view : \/ <<i, "memory">> \in lost
                             \/ <<i, "section">> \in lost /\ starts > 1

(* A queue with a channel has a ring, of a power of two of slots that takes*)
(* less than twice the memory asked for if that is a size at all; one      *)
(* without has none, which push() relies on (LogQueue.cpp:14-33, 38).      *)
RingsAreSound ==
  pc = "serving" =>
    \A i \in Queues :
      IF i \in view /\ config.usable_ram * MegaByte < SizeRange
        THEN /\ capacity[i] >= 2 /\ capacity[i] = BitFloor(capacity[i])
             /\ capacity[i] * EntrySize < 2 * config.usable_ram * MegaByte
        ELSE capacity[i] = 0

(* An engine with a queue for each context, a stash and slabs ends only    *)
(* when it is killed or Windows denies it something: a denied channel ends *)
(* it with the first log only (LogServer.cpp:71-93, LogServer.h:123).      *)
SoundConfigSurvives ==
  cause \notin {"none", "killed"} => denied # {} \/ lost # {} \/ ~ SoundConfig
=============================================================================

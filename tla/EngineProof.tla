------------------------------ MODULE EngineProof ------------------------------
(***************************************************************************)
(* Crash and restart: what processes that end anywhere leave behind, for   *)
(* every set of configurations, every size and any number of restarts.     *)
(***************************************************************************)
EXTENDS Engine, BitsProof

Making == {"queues", "create", "map", "write", "ring", "serving"}

(* start_threads() has made the queues below queue, and is at this one.    *)
AtQueue == {"create", "map", "write", "ring"}

(* What is in MainConfig, and what that means for the queues.              *)
ConfigInv ==
  /\ pc \in {"down", "bind", "clamp"} \cup Making
  /\ pc \in {"bind", "clamp"} => \E file \in Files : config = GetUserCofig(file)
  /\ pc \in Making => /\ config.thread_num \in Nat \ {0} /\ config.profile \in 0 .. 2
                      /\ Queues \subseteq Channels
                      /\ SlabBytes \in 0 .. SizeRange - 1 /\ config.max_slabs \in Nat
                      /\ config.slabs_size = config.log_size
  /\ queue \in Nat /\ field \in 1 .. 7 /\ starts \in Nat
  /\ pc \in {"bind", "clamp", "queues", "create", "map"} => field = 1
  /\ pc = "write" => field <= 6
  /\ pc \in AtQueue => queue \in Queues
  /\ pc \in {"bind", "clamp"} => queue = 0

(* Who has the channels.                                                   *)
ChannelInv ==
  /\ section \in [Channels -> Nat]
  /\ readers \subseteq Channels /\ handle \subseteq Channels /\ view \subseteq Channels
  /\ NoHandleLeft
  /\ pc = "down" => view = {}
  /\ pc = "map" => queue \in handle
  /\ pc \in {"write", "ring"} => queue \in view

(* Why a queue that has been made is without its channel.                  *)
Explained(i) == \/ i \in view \/ <<i, "memory">> \in lost
                \/ <<i, "section">> \in lost /\ starts > 1

LossInv ==
  /\ pc \in Making => \A i \in 0 .. queue - 1 : Explained(i)
  /\ pc = "serving" => config.thread_num <= queue

(* The first process finds no section, so that it maps what it has made.   *)
FirstInv ==
  /\ starts = 0 => pc = "down" /\ \A i \in Channels : section[i] = 0
  /\ starts = 1 /\ pc # "down" =>
       \A i \in Channels :
         section[i] # 0 => i < queue \/ (i = queue /\ pc \in {"map", "write", "ring"})
  /\ starts = 1 /\ pc = "map" => section[queue] = Bytes

(* How it came to the end of the process.                                  *)
EndInv ==
  /\ next_worker \in 0 .. Contexts - 1 /\ sessions \subseteq 0 .. Contexts - 1
  /\ pc # "down" => cause = "none"
  /\ SoundConfigSurvives

EngineInv == ConfigInv /\ ChannelInv /\ LossInv /\ FirstInv /\ EndInv

----------------------------------------------------------------------------
(* bit_floor and bit_ceil, of numbers of a size.                           *)
LEMMA PowerOfSize ==
  ASSUME NEW p \in Powers(SizeBits)
  PROVE  \E k \in Nat : k <= SizeBits /\ p = Pow2[k]
BY BitsAssumption DEF Powers

LEMMA FloorOf ==
  ASSUME NEW n \in 0 .. SizeRange - 1, n > 0
  PROVE  \E k \in Nat : /\ k < SizeBits /\ BitFloor(n) = Pow2[k]
                        /\ Pow2[k] <= n /\ n < 2 * Pow2[k]
<1>1. PICK k \in Nat : Pow2[k] <= n /\ n < 2 * Pow2[k]
  BY Pow2Around, EngineAssumption
<1>2. k < SizeBits
  <2>1. Pow2[k] < Pow2[SizeBits] /\ Pow2[k] \in Nat /\ Pow2[SizeBits] \in Nat
    BY <1>1, Pow2Def, EngineAssumption, BitsAssumption
  <2>2. SizeBits < k => 2 * Pow2[SizeBits] <= Pow2[k]
    BY Pow2Grows, BitsAssumption
  <2> QED BY <2>1, <2>2, BitsAssumption
<1>3. Pow2[k] \in Powers(SizeBits)
  BY <1>2, BitsAssumption DEF Powers
<1>4. \E p \in Powers(SizeBits) : p <= n /\ n < 2 * p
  BY <1>1, <1>3
<1>5. BitFloor(n) \in Powers(SizeBits) /\ BitFloor(n) <= n /\ n < 2 * BitFloor(n)
  BY <1>4 DEF BitFloor
<1>6. PICK j \in Nat : BitFloor(n) = Pow2[j]
  BY <1>5, PowerOfSize
<1>7. j = k
  BY <1>1, <1>5, <1>6, Pow2Unique, EngineAssumption
<1> QED BY <1>1, <1>2, <1>6, <1>7

(* The least memory, or the power of two below more than that, has room for*)
(* two logs, and one that is too large for a size is cut to nothing.       *)
LEMMA RamOf ==
  \A ram \in MinRam .. SizeRange - 1 :
    /\ BitFloor(ram) \in Nat /\ 2 * EntrySize <= BitFloor(ram) * MegaByte
    /\ BitFloor(ram) * MegaByte < SizeRange \/ InBytes(BitFloor(ram)) = 0
<1> SUFFICES ASSUME NEW ram \in MinRam .. SizeRange - 1
             PROVE  /\ BitFloor(ram) \in Nat /\ 2 * EntrySize <= BitFloor(ram) * MegaByte
                    /\ BitFloor(ram) * MegaByte < SizeRange \/ InBytes(BitFloor(ram)) = 0
  OBVIOUS
<1>1. PICK i \in Nat, m \in Nat : MinRam = Pow2[i] /\ MegaByte = Pow2[m]
  BY PowerOfSize, BitsAssumption
<1>2. ram \in 0 .. SizeRange - 1 /\ ram > 0
  BY EngineAssumption
<1>3. PICK k \in Nat : /\ BitFloor(ram) = Pow2[k] /\ Pow2[k] <= ram /\ ram < 2 * Pow2[k]
  BY <1>2, FloorOf
<1>4. Pow2[k] \in Nat /\ Pow2[k] >= MinRam
  <2>1. Pow2[k] \in Nat /\ MinRam <= ram
    BY Pow2Def, EngineAssumption
  <2>2. k < i => 2 * Pow2[k] <= MinRam
    BY <1>1, Pow2Grows
  <2>3. i < k => 2 * MinRam <= Pow2[k]
    BY <1>1, Pow2Grows
  <2> QED BY <1>1, <1>2, <1>3, <2>1, <2>2, <2>3, EngineAssumption
<1>5. 2 * EntrySize <= Pow2[k] * MegaByte
  <2>1. \A a, b, c \in Nat : a <= b => a * c <= b * c
    OBVIOUS
  <2>2. MinRam * MegaByte <= Pow2[k] * MegaByte
    BY <1>4, <2>1, EngineAssumption
  <2> QED BY <1>4, <2>2, EngineAssumption, BitsAssumption
<1>6. Pow2[k] * MegaByte < SizeRange \/ (Pow2[k] * MegaByte) % SizeRange = 0
  <2>1. Pow2[k] * MegaByte = Pow2[k + m] /\ k + m \in Nat /\ Pow2[k + m] \in Nat
    <3>1. Pow2[k + m] = Pow2[k] * Pow2[m] /\ k + m \in Nat
      BY Pow2Sum
    <3>2. \A n \in Nat : Pow2[n] \in Nat
      BY Pow2Def
    <3> QED BY <1>1, <3>1, <3>2
  <2>2. CASE k + m < SizeBits
    BY <2>1, <2>2, Pow2Grows, Pow2Positive, BitsAssumption
  <2>3. CASE SizeBits <= k + m
    BY <2>1, <2>3, Pow2Divides, BitsAssumption
  <2> QED BY <2>1, <2>2, <2>3, BitsAssumption
<1> QED BY <1>3, <1>4, <1>5, <1>6 DEF InBytes

(* bit_ceil gives a power of two, no less than its argument and less than  *)
(* twice as much.                                                          *)
LEMMA CeilOf ==
  \A slots \in 2 .. SizeRange - 1 :
    /\ BitCeil(slots) \in slots .. 2 * slots - 1
    /\ BitFloor(BitCeil(slots)) = BitCeil(slots)
<1> SUFFICES ASSUME NEW slots \in 2 .. SizeRange - 1
             PROVE  /\ BitCeil(slots) \in slots .. 2 * slots - 1
                    /\ BitFloor(BitCeil(slots)) = BitCeil(slots)
  OBVIOUS
<1>1. PICK a \in Nat : a + 1 = slots /\ a > 0 /\ a \in 0 .. SizeRange - 1
  BY EngineAssumption
<1>2. PICK k \in Nat : k < SizeBits /\ Pow2[k] <= a /\ a < 2 * Pow2[k]
  BY <1>1, FloorOf
<1>3. Pow2[k + 1] = 2 * Pow2[k] /\ Pow2[k] \in Nat
  BY Pow2Def
<1>4. Pow2[k + 1] \in Powers(SizeBits)
  BY <1>2, BitsAssumption DEF Powers
<1>5. slots <= Pow2[k + 1] /\ Pow2[k + 1] < 2 * slots
  BY <1>1, <1>2, <1>3
<1>6. BitCeil(slots) \in Powers(SizeBits) /\ slots <= BitCeil(slots) /\ BitCeil(slots) < 2 * slots
  BY <1>4, <1>5 DEF BitCeil
<1>7. PICK j \in Nat : BitCeil(slots) = Pow2[j] /\ Pow2[j] \in Nat /\ Pow2[j] \in Powers(SizeBits)
  BY <1>6, PowerOfSize, Pow2Def
<1>8. Pow2[j] > 0
  BY <1>6, <1>7
<1>9. BitFloor(Pow2[j]) = Pow2[j]
  <2>1. \E p \in Powers(SizeBits) : p <= Pow2[j] /\ Pow2[j] < 2 * p
    BY <1>7, <1>8
  <2>2. /\ BitFloor(Pow2[j]) \in Powers(SizeBits)
        /\ BitFloor(Pow2[j]) <= Pow2[j] /\ Pow2[j] < 2 * BitFloor(Pow2[j])
    BY <1>8, <2>1 DEF BitFloor
  <2>3. PICK i \in Nat : BitFloor(Pow2[j]) = Pow2[i]
    BY <2>2, PowerOfSize
  <2>4. i = j
    BY <1>7, <1>8, <2>2, <2>3, Pow2Unique
  <2> QED BY <2>3, <2>4
<1> QED BY <1>6, <1>7, <1>9

(* The ranges are powers of two, so that a power of two that is not cut to *)
(* nothing is not cut at all.                                              *)
LEMMA StashBelow ==
  \A size \in 0 .. SizeRange - 1 : BitFloor(size) % DwordRange # 0 => size < DwordRange
<1> SUFFICES ASSUME NEW size \in 0 .. SizeRange - 1, BitFloor(size) % DwordRange # 0
             PROVE  size < DwordRange
  OBVIOUS
<1>1. size > 0
  <2>1. size = 0 => BitFloor(size) = 0
    BY DEF BitFloor
  <2> QED BY <2>1, ChannelAssumption, EngineAssumption
<1>2. PICK k \in Nat : BitFloor(size) = Pow2[k] /\ size < 2 * Pow2[k]
  BY <1>1, FloorOf
<1>3. PICK d \in Nat : DwordRange = Pow2[d]
  BY PowerOfSize, BitsAssumption
<1>4. k < d
  <2>1. d <= k => Pow2[k] % Pow2[d] = 0
    BY Pow2Divides
  <2> QED BY <1>2, <1>3, <2>1
<1> QED BY <1>2, <1>3, <1>4, Pow2Grows, Pow2Def, EngineAssumption

----------------------------------------------------------------------------
(* The configuration that a file leads to.                                 *)
LEMMA NumberIsNat ==
  ASSUME NEW file \in Files, NEW default \in Nat, NEW key
  PROVE  NumberOr(default, file, key) \in Nat
BY FilesAssumption, EngineAssumption DEF NumberOr

LEMMA ConfigOfFile ==
  ASSUME NEW file \in Files, config' = Clamped(GetUserCofig(file))
  PROVE  /\ config'.thread_num \in Nat \ {0} /\ config'.profile \in 0 .. 2
         /\ Queues' \subseteq Channels
         /\ SlabBytes' \in 0 .. SizeRange - 1 /\ config'.max_slabs \in Nat
         /\ config'.slabs_size = config'.log_size
<1> DEFINE c == GetUserCofig(file)
<1>1. /\ c.thread_num \in Nat /\ c.log_size \in Nat /\ c.max_slabs \in Nat
      /\ c.slabs_size \in Nat /\ c.profile \in 0 .. 2
  <2>1. /\ NumberOr(1, file, "log_size") \in Nat /\ NumberOr(1, file, "thread_num") \in Nat
        /\ NumberOr(DefaultSlabs, file, "max_slabs") \in Nat
    BY NumberIsNat, EngineAssumption
  <2>2. ProfileOf(file) \in 0 .. 2
    BY DEF ProfileOf
  <2> QED BY <2>1, <2>2 DEF GetUserCofig
<1>2. /\ config'.thread_num = IF c.thread_num = 0 THEN 1 ELSE c.thread_num
      /\ config'.profile = c.profile /\ config'.max_slabs = c.max_slabs
      /\ config'.slabs_size = c.slabs_size /\ config'.slabs_size = config'.log_size
  BY DEF Clamped, GetUserCofig
<1>3. Queues' \subseteq Channels
  BY FilesAssumption DEF Queues
<1> HIDE DEF c
<1>4. SlabBytes' \in 0 .. SizeRange - 1
  <2>1. config'.slabs_size * MegaByte \in Nat /\ SizeRange \in Nat \ {0}
    BY <1>1, <1>2, EngineAssumption
  <2> QED BY <2>1 DEF SlabBytes, InBytes
<1> QED BY <1>1, <1>2, <1>3, <1>4

----------------------------------------------------------------------------
LEMMA StartStep ==
  ASSUME EngineInv, NEW file \in Files, Start(file) PROVE EngineInv'
<1>1. /\ pc = "down" /\ pc' = "bind" /\ config' = GetUserCofig(file)
      /\ starts' = starts + 1 /\ cause' = "none" /\ queue' = 0 /\ field' = 1
      /\ next_worker' = 0 /\ sessions' = {}
      /\ UNCHANGED <<section, readers, handle, view>>
  BY DEF Start, channelVars
<1>2. starts \in Nat
  BY DEF EngineInv, ConfigInv
<1>3. ConfigInv'
  BY <1>1, <1>2 DEF ConfigInv, Making, AtQueue
<1>4. ChannelInv'
  BY <1>1 DEF EngineInv, ChannelInv, NoHandleLeft
<1>5. LossInv'
  BY <1>1 DEF LossInv, Making
<1>6. FirstInv'
  BY <1>1, <1>2 DEF EngineInv, FirstInv
<1>7. EndInv'
  BY <1>1, EngineAssumption DEF EndInv, SoundConfigSurvives
<1> QED BY <1>3, <1>4, <1>5, <1>6, <1>7 DEF EngineInv

(* The process ends, and there is a reason in what it was denied or given. *)
Justified(why, what) ==
  why \notin {"none", "killed"} => denied \cup what # {} \/ lost # {} \/ ~ SoundConfig

LEMMA EndsStep ==
  ASSUME EngineInv, NEW why, NEW what, Ends(why, what), Justified(why, what), pc # "down"
  PROVE  EngineInv'
<1>1. /\ pc' = "down" /\ cause' = why /\ denied' = denied \cup what
      /\ view' = {} /\ handle' = {} /\ sessions' = {}
      /\ section' = [i \in Channels |-> IF i \in readers THEN section[i] ELSE 0]
      /\ UNCHANGED <<readers, config, queue, field, next_worker, starts, lost>>
  BY DEF Ends, ReleaseAll, KeepHeldBy, mainVars
<1>2. ConfigInv'
  BY <1>1 DEF EngineInv, ConfigInv, Making, AtQueue
<1>3. ChannelInv'
  BY <1>1 DEF EngineInv, ChannelInv, NoHandleLeft
<1>4. LossInv'
  BY <1>1 DEF LossInv, Making
<1>5. FirstInv'
  BY <1>1 DEF EngineInv, FirstInv
<1>6. EndInv'
  <2>1. SoundConfig' <=> SoundConfig
    BY <1>1 DEF SoundConfig, RoomForSlabs, StashPossible, SlabBytes, StashBytes
  <2> QED BY <1>1, <2>1 DEF EngineInv, EndInv, SoundConfigSurvives, Justified
<1> QED BY <1>2, <1>3, <1>4, <1>5, <1>6 DEF EngineInv

(* Readers come and go; what they leave behind is what the engine holds.   *)
LEMMA ReaderStep ==
  ASSUME EngineInv, NEW i \in Channels, Reader(i) PROVE EngineInv'
<1>1. /\ UNCHANGED <<handle, view, pc, config, queue, field, next_worker, sessions, starts,
                     denied, lost, cause>>
      /\ readers' \subseteq Channels
      /\ \/ readers \subseteq readers' /\ section' = section
         \/ section' = [j \in Channels |-> IF j \in readers' \cup handle \cup view
                                           THEN section[j] ELSE 0]
  BY DEF Reader, ReaderOpens, ReaderCloses, KeepHeldBy, mainVars, serverVars, history,
         EngineInv, ChannelInv
<1>2. /\ section' \in [Channels -> Nat]
      /\ \A j \in Channels : section'[j] # 0 => section'[j] = section[j]
      /\ \A j \in Channels : j \in handle => section'[j] = section[j]
      /\ pc = "down" => \A j \in Channels : section'[j] # 0 => j \in readers'
  BY <1>1 DEF EngineInv, ChannelInv, NoHandleLeft
<1>3. ConfigInv'
  BY <1>1 DEF EngineInv, ConfigInv, Queues, SlabBytes
<1>4. ChannelInv'
  BY <1>1, <1>2 DEF EngineInv, ChannelInv, NoHandleLeft
<1>5. LossInv'
  BY <1>1 DEF EngineInv, LossInv, Explained
<1>6. FirstInv'
  BY <1>1, <1>2 DEF EngineInv, FirstInv, ChannelInv, Bytes, SlabBytes
<1>7. EndInv'
  BY <1>1 DEF EngineInv, EndInv, SoundConfigSurvives, SoundConfig, RoomForSlabs, StashPossible,
              SlabBytes, StashBytes
<1> QED BY <1>3, <1>4, <1>5, <1>6, <1>7 DEF EngineInv

(* A step of the main thread inside of the process: what is left to show   *)
(* when it leaves sessions, the configuration and its end alone.           *)
LEMMA EndKept ==
  ASSUME EngineInv, pc # "down", pc' # "down",
         UNCHANGED <<config, next_worker, sessions, starts, denied, cause>>
  PROVE  EndInv'
BY DEF EngineInv, EndInv, SoundConfigSurvives

LEMMA BindStep ==
  ASSUME EngineInv, Bind PROVE EngineInv'
<1>1. CASE Ends("terminated", {"port"})
  BY <1>1, EndsStep DEF Bind, Justified
<1>2. CASE ~ Ends("terminated", {"port"})
  <2>1. /\ pc = "bind" /\ pc' = "clamp"
        /\ UNCHANGED <<section, readers, handle, view, config, queue, field, next_worker,
                       sessions, starts, denied, lost, cause>>
    BY <1>2 DEF Bind, GoTo, MainOnly, channelVars, mainVars, serverVars, history
  <2>2. ConfigInv'
    BY <2>1 DEF EngineInv, ConfigInv, Making, AtQueue
  <2>3. ChannelInv' /\ LossInv' /\ FirstInv'
    BY <2>1 DEF EngineInv, ChannelInv, NoHandleLeft, LossInv, FirstInv, Making
  <2> QED BY <2>1, <2>2, <2>3, EndKept DEF EngineInv
<1> QED BY <1>1, <1>2

LEMMA ClampStep ==
  ASSUME EngineInv, Clamp PROVE EngineInv'
<1>1. /\ pc = "clamp" /\ pc' = "queues" /\ config' = Clamped(config)
      /\ UNCHANGED <<section, readers, handle, view, queue, field, next_worker,
                     sessions, starts, denied, lost, cause>>
  BY DEF Clamp, GoTo, MainOnly, channelVars, mainVars, serverVars, history
<1>2. /\ config'.thread_num \in Nat \ {0} /\ config'.profile \in 0 .. 2
      /\ Queues' \subseteq Channels
      /\ SlabBytes' \in 0 .. SizeRange - 1 /\ config'.max_slabs \in Nat
      /\ config'.slabs_size = config'.log_size
  <2>1. PICK file \in Files : config = GetUserCofig(file)
    BY <1>1 DEF EngineInv, ConfigInv
  <2> QED BY <1>1, <2>1, ConfigOfFile
<1>3. queue = 0
  BY <1>1 DEF EngineInv, ConfigInv
<1>4. ConfigInv'
  BY <1>1, <1>2 DEF EngineInv, ConfigInv, Making, AtQueue
<1>5. ChannelInv' /\ LossInv' /\ FirstInv'
  BY <1>1, <1>3 DEF EngineInv, ChannelInv, NoHandleLeft, LossInv, FirstInv
<1>6. EndInv'
  BY <1>1 DEF EngineInv, EndInv, SoundConfigSurvives
<1> QED BY <1>4, <1>5, <1>6 DEF EngineInv

LEMMA NextQueueStep ==
  ASSUME EngineInv, NextQueue PROVE EngineInv'
<1>1. /\ pc = "queues" /\ pc' \in {"create", "serving"}
      /\ pc' = "create" <=> queue \in Queues
      /\ UNCHANGED <<section, readers, handle, view, config, queue, field, next_worker,
                     sessions, starts, denied, lost, cause>>
  BY DEF NextQueue, Another, GoTo, MainOnly, channelVars, mainVars, serverVars, history
<1>2. UNCHANGED <<Queues, SlabBytes>>
  BY <1>1 DEF Queues, SlabBytes
<1>3. ConfigInv'
  BY <1>1, <1>2 DEF EngineInv, ConfigInv, Making, AtQueue
<1>4. ChannelInv' /\ FirstInv'
  BY <1>1 DEF EngineInv, ChannelInv, NoHandleLeft, FirstInv
<1>5. pc' = "serving" => config.thread_num <= queue
  BY <1>1 DEF EngineInv, ConfigInv, Making, Queues
<1>6. LossInv'
  BY <1>1, <1>5 DEF EngineInv, LossInv, Explained, Making
<1> QED BY <1>1, <1>3, <1>4, <1>6, EndKept DEF EngineInv

(* A channel that cannot be had: the queue is done without it.             *)
LEMMA WithoutStep ==
  ASSUME EngineInv, NEW why, WithoutChannel(why), pc \in AtQueue,
         \/ why = "memory"
         \/ why = "section" /\ starts > 1,
         UNCHANGED <<readers, view>>,
         \A i \in handle' : i \in view,
         handle' \subseteq handle,
         section' \in [Channels -> Nat],
         \A i \in Channels : section'[i] # 0 => section'[i] = section[i]
  PROVE  EngineInv'
<1>1. /\ pc' = "queues" /\ lost' = lost \cup {<<queue, why>>}
      /\ queue' = queue + 1 /\ field' = 1
      /\ UNCHANGED <<config, next_worker, sessions, starts, denied, cause>>
  BY DEF WithoutChannel, QueueDone, serverVars
<1>2. UNCHANGED <<Queues, SlabBytes>>
  BY <1>1 DEF Queues, SlabBytes
<1>3. queue \in Nat
  BY DEF EngineInv, ConfigInv
<1>4. ConfigInv'
  BY <1>1, <1>2, <1>3 DEF EngineInv, ConfigInv, Making, AtQueue
<1>5. ChannelInv'
  BY <1>1 DEF EngineInv, ChannelInv, NoHandleLeft
<1>6. LossInv'
  <2>1. ASSUME NEW i \in 0 .. queue PROVE Explained(i)'
    <3>1. CASE i = queue
      BY <1>1, <3>1 DEF Explained
    <3>2. CASE i # queue
      <4>1. Explained(i)
        BY <1>3, <3>2 DEF EngineInv, LossInv, Making, AtQueue
      <4> QED BY <1>1, <4>1 DEF Explained
    <3> QED BY <3>1, <3>2
  <2> QED BY <1>1, <1>3, <2>1 DEF LossInv
<1>7. FirstInv'
  <2>1. starts = 1 => \A i \in Channels : section'[i] # 0 => i < queue + 1
    BY <1>3, ChannelAssumption DEF EngineInv, FirstInv, AtQueue
  <2>2. starts # 0
    BY DEF EngineInv, FirstInv, AtQueue
  <2> QED BY <1>1, <2>1, <2>2 DEF FirstInv
<1> QED BY <1>1, <1>4, <1>5, <1>6, <1>7, EndKept DEF EngineInv, AtQueue

LEMMA BytesIsNat == ASSUME EngineInv, pc \in Making PROVE Bytes \in Nat
<1>1. SlabBytes \in Nat /\ config.max_slabs \in Nat
  BY EngineAssumption DEF EngineInv, ConfigInv
<1>2. SlabBytes * config.max_slabs \in Nat
  BY <1>1
<1>3. TotalBytes(SlabBytes, config.max_slabs) \in Nat
  BY <1>2, ChannelAssumption DEF TotalBytes
<1> QED BY <1>3, EngineAssumption DEF Bytes

LEMMA CreateStep ==
  ASSUME EngineInv, CreateChannel PROVE EngineInv'
<1>0. pc = "create" /\ queue \in Queues /\ queue \in Channels /\ queue \in Nat
      /\ ChannelInv /\ \A i \in handle : i \in view
  BY DEF CreateChannel, EngineInv, ConfigInv, ChannelInv, NoHandleLeft, AtQueue, Making
<1>1. CASE WithoutChannel("memory") /\ UNCHANGED channelVars
  BY <1>0, <1>1, WithoutStep DEF channelVars, ChannelInv, AtQueue
<1>2. CASE /\ CreateFileMapping(queue, Bytes) /\ GoTo("map")
           /\ UNCHANGED <<mainVars, serverVars>>
  <2>1. /\ pc' = "map" /\ handle' = handle \cup {queue}
        /\ section' = [section EXCEPT ![queue] = IF @ = 0 THEN Bytes ELSE @]
        /\ UNCHANGED <<readers, view, config, queue, field, next_worker,
                       sessions, starts, denied, lost, cause>>
    BY <1>2 DEF CreateFileMapping, GoTo, mainVars, serverVars, history
  <2>2. UNCHANGED <<Queues, SlabBytes, Bytes>>
    BY <2>1 DEF Queues, SlabBytes, Bytes
  <2>3. Bytes \in Nat
    BY <1>0, BytesIsNat DEF Making
  <2>4. ConfigInv'
    BY <1>0, <2>1, <2>2 DEF EngineInv, ConfigInv, Making, AtQueue
  <2>5. ChannelInv'
    BY <1>0, <2>1, <2>3 DEF ChannelInv, NoHandleLeft
  <2>6. LossInv'
    BY <1>0, <2>1 DEF EngineInv, LossInv, Explained, Making
  <2>7. FirstInv'
    <3>1. starts # 0
      BY <1>0 DEF EngineInv, FirstInv
    <3>2. ASSUME starts = 1, NEW i \in Channels
          PROVE  /\ section'[i] # 0 => i < queue \/ i = queue
                 /\ section'[queue] = Bytes
      BY <1>0, <2>1, <3>2 DEF EngineInv, FirstInv, ChannelInv
    <3> QED BY <1>0, <2>1, <2>2, <3>1, <3>2 DEF FirstInv
  <2> QED BY <1>0, <2>1, <2>4, <2>5, <2>6, <2>7, EndKept DEF EngineInv
<1> QED BY <1>1, <1>2 DEF CreateChannel

LEMMA MapStep ==
  ASSUME EngineInv, MapChannel PROVE EngineInv'
<1>0. /\ pc = "map" /\ queue \in Queues /\ queue \in Channels /\ queue \in Nat
      /\ ChannelInv /\ queue \in handle /\ \A i \in handle : i \in view \/ i = queue
      /\ starts # 0 /\ starts \in Nat
      /\ starts = 1 => section[queue] = Bytes
  BY DEF MapChannel, EngineInv, ConfigInv, ChannelInv, NoHandleLeft, FirstInv, AtQueue, Making
<1>1. CASE /\ CloseHandle(queue)
           /\ WithoutChannel(IF Bytes <= section[queue] THEN "memory" ELSE "section")
  <2>1. /\ handle' = handle \ {queue} /\ UNCHANGED <<readers, view>>
        /\ section' = [i \in Channels |->
                         IF i \in readers \cup view \cup (handle \ {queue}) THEN section[i] ELSE 0]
    BY <1>1 DEF CloseHandle, KeepHeldBy
  <2>2. /\ section' \in [Channels -> Nat]
        /\ \A i \in Channels : section'[i] # 0 => section'[i] = section[i]
        /\ \A i \in handle' : i \in view
        /\ handle' \subseteq handle
    BY <1>0, <2>1 DEF ChannelInv
  <2>3. CASE Bytes <= section[queue]
    BY <1>0, <1>1, <2>1, <2>2, <2>3, WithoutStep DEF AtQueue
  <2>4. CASE ~ (Bytes <= section[queue])
    <3>1. Bytes \in Nat
      BY <1>0, BytesIsNat DEF Making
    <3>2. starts > 1
      BY <1>0, <2>4, <3>1
    <3> QED BY <1>0, <1>1, <2>1, <2>2, <2>4, <3>2, WithoutStep DEF AtQueue
  <2> QED BY <2>3, <2>4
<1>2. CASE /\ MapViewOfFile(queue, Bytes) /\ GoTo("write")
           /\ UNCHANGED <<mainVars, serverVars>>
  <2>1. /\ pc' = "write" /\ view' = view \cup {queue}
        /\ UNCHANGED <<section, readers, handle, config, queue, field, next_worker,
                       sessions, starts, denied, lost, cause>>
    BY <1>2 DEF MapViewOfFile, GoTo, mainVars, serverVars, history
  <2>2. UNCHANGED <<Queues, SlabBytes>>
    BY <2>1 DEF Queues, SlabBytes
  <2>3. ConfigInv'
    BY <1>0, <2>1, <2>2 DEF EngineInv, ConfigInv, Making, AtQueue
  <2>4. ChannelInv'
    BY <1>0, <2>1 DEF ChannelInv, NoHandleLeft
  <2>5. LossInv' /\ FirstInv'
    BY <1>0, <2>1 DEF EngineInv, LossInv, Explained, FirstInv, Making
  <2> QED BY <1>0, <2>1, <2>3, <2>4, <2>5, EndKept DEF EngineInv
<1> QED BY <1>1, <1>2 DEF MapChannel

LEMMA WriteControlStep ==
  ASSUME EngineInv, WriteControl PROVE EngineInv'
<1>1. /\ pc = "write" /\ pc' \in {"write", "ring"}
      /\ pc' = "write" <=> field < 6
      /\ field' = field + 1
      /\ UNCHANGED <<section, readers, handle, view, config, queue, next_worker,
                     sessions, starts, denied, lost, cause>>
  BY DEF WriteControl, WriteField, Fields, GoTo, serverVars, history
<1>2. UNCHANGED <<Queues, SlabBytes>>
  BY <1>1 DEF Queues, SlabBytes
<1>3. ConfigInv'
  BY <1>1, <1>2 DEF EngineInv, ConfigInv, Making, AtQueue
<1>4. ChannelInv' /\ LossInv' /\ FirstInv'
  BY <1>1 DEF EngineInv, ChannelInv, NoHandleLeft, LossInv, Explained, FirstInv, Making
<1> QED BY <1>1, <1>3, <1>4, EndKept DEF EngineInv

LEMMA MakeRingStep ==
  ASSUME EngineInv, MakeRing PROVE EngineInv'
<1>0. pc = "ring"
  BY DEF MakeRing
<1>1. CASE Ends("terminated", {"memory"})
  BY <1>0, <1>1, EndsStep DEF Justified
<1>2. CASE ~ Ends("terminated", {"memory"})
  <2>1. /\ pc' = "queues" /\ queue' = queue + 1 /\ field' = 1
        /\ UNCHANGED <<section, readers, handle, view, config, next_worker,
                       sessions, starts, denied, lost, cause>>
    BY <1>2 DEF MakeRing, QueueDone, GoTo, MainOnly, channelVars, serverVars, history
  <2>2. UNCHANGED <<Queues, SlabBytes>> /\ queue \in Nat /\ queue \in view
    BY <1>0, <2>1 DEF Queues, SlabBytes, EngineInv, ConfigInv, ChannelInv
  <2>3. ConfigInv'
    BY <1>0, <2>1, <2>2 DEF EngineInv, ConfigInv, Making, AtQueue
  <2>4. ChannelInv'
    BY <1>0, <2>1 DEF EngineInv, ChannelInv, NoHandleLeft
  <2>5. ASSUME NEW i \in 0 .. queue PROVE Explained(i)
    <3>1. CASE i = queue
      BY <2>2, <3>1 DEF Explained
    <3>2. CASE i # queue
      BY <1>0, <2>2, <3>2 DEF EngineInv, LossInv, Making
    <3> QED BY <3>1, <3>2
  <2>6. LossInv'
    BY <2>1, <2>2, <2>5 DEF LossInv, Explained
  <2>7. FirstInv'
    BY <1>0, <2>1, <2>2, ChannelAssumption DEF EngineInv, FirstInv
  <2> QED BY <1>0, <2>1, <2>3, <2>4, <2>6, <2>7, EndKept DEF EngineInv
<1> QED BY <1>1, <1>2

(* Serving: only the contexts that serve a client change.                  *)
LEMMA ServingStep ==
  ASSUME EngineInv, pc = "serving",
         UNCHANGED <<channelVars, pc, mainVars, starts, history, cause>>,
         next_worker' \in 0 .. Contexts - 1, sessions' \subseteq 0 .. Contexts - 1
  PROVE  EngineInv'
<1>1. UNCHANGED <<section, readers, handle, view, pc, config, queue, field, starts, denied,
                  lost, cause>>
  BY DEF channelVars, mainVars, history
<1>2. UNCHANGED <<Queues, SlabBytes>>
  BY <1>1 DEF Queues, SlabBytes
<1>3. ConfigInv'
  BY <1>1, <1>2 DEF EngineInv, ConfigInv
<1>4. ChannelInv' /\ LossInv' /\ FirstInv'
  BY <1>1 DEF EngineInv, ChannelInv, NoHandleLeft, LossInv, Explained, FirstInv
<1>5. EndInv'
  BY <1>1 DEF EngineInv, EndInv, SoundConfigSurvives
<1> QED BY <1>3, <1>4, <1>5 DEF EngineInv

(* With a queue for each context none of them is without one.              *)
LEMMA ContextsHaveQueues ==
  ASSUME EngineInv, SoundConfig, pc = "serving", NEW c \in 0 .. Contexts - 1
  PROVE  c \in Queues /\ c \in 0 .. queue - 1
BY EngineAssumption DEF EngineInv, ConfigInv, LossInv, SoundConfig, Queues, Making

LEMMA AcceptStep ==
  ASSUME EngineInv, Accept PROVE EngineInv'
<1>0. pc = "serving" /\ next_worker \in 0 .. Contexts - 1
  BY DEF Accept, EngineInv, EndInv
<1>1. CASE next_worker \notin Queues /\ Ends("no queue", {})
  BY <1>0, <1>1, ContextsHaveQueues, EndsStep DEF Justified
<1>2. CASE ~ StashPossible /\ Ends("terminated", {})
  BY <1>0, <1>2, EndsStep DEF Justified, SoundConfig
<1>3. CASE Ends("terminated", {"memory"})
  BY <1>0, <1>3, EndsStep DEF Justified
<1>4. CASE /\ sessions' = sessions \cup {next_worker}
           /\ next_worker' = PickWorker(next_worker)
           /\ GoTo("serving") /\ UNCHANGED <<channelVars, mainVars>>
  <2>1. next_worker' \in 0 .. Contexts - 1
    BY <1>0, <1>4, EngineAssumption DEF PickWorker
  <2>2. sessions' \subseteq 0 .. Contexts - 1
    BY <1>0, <1>4 DEF EngineInv, EndInv
  <2> QED BY <1>0, <1>4, <2>1, <2>2, ServingStep DEF GoTo
<1> QED BY <1>1, <1>2, <1>3, <1>4 DEF Accept

(* The first log of a channel that could not be had ends the process.      *)
LEMMA LogStep ==
  ASSUME EngineInv, NEW worker \in sessions, LogArrives(worker) PROVE EngineInv'
<1>0. pc = "serving" /\ worker \in 0 .. Contexts - 1
  BY DEF LogArrives, EngineInv, EndInv
<1>1. CASE worker \notin view /\ Ends("null channel", {})
  <2>1. SoundConfig => lost # {}
    BY <1>0, <1>1, ContextsHaveQueues DEF EngineInv, LossInv, Explained, Making
  <2> QED BY <1>0, <1>1, <2>1, EndsStep DEF Justified
<1>2. CASE ~ RoomForSlabs /\ Ends("overrun", {})
  BY <1>0, <1>2, EndsStep DEF Justified, SoundConfig
<1> QED BY <1>1, <1>2 DEF LogArrives

LEMMA SessionEndStep ==
  ASSUME EngineInv, NEW worker \in sessions, SessionEnds(worker) PROVE EngineInv'
<1>1. /\ pc = "serving" /\ sessions' = sessions \ {worker} /\ GoTo("serving")
      /\ UNCHANGED <<channelVars, mainVars, next_worker>>
  BY DEF SessionEnds
<1>2. next_worker' \in 0 .. Contexts - 1 /\ sessions' \subseteq 0 .. Contexts - 1
  BY <1>1 DEF EngineInv, EndInv
<1> QED BY <1>1, <1>2, ServingStep DEF GoTo

----------------------------------------------------------------------------
LEMMA InitEngineInv == EngineInit => EngineInv
<1> SUFFICES ASSUME EngineInit PROVE EngineInv
  OBVIOUS
<1>1. /\ section = [i \in Channels |-> 0] /\ readers = {} /\ handle = {} /\ view = {}
      /\ pc = "down" /\ queue = 0 /\ field = 1 /\ next_worker = 0 /\ sessions = {}
      /\ starts = 0 /\ cause = "none"
  BY DEF EngineInit, ChannelInit
<1>2. ConfigInv /\ LossInv
  BY <1>1 DEF ConfigInv, LossInv, Making, AtQueue
<1>3. ChannelInv /\ FirstInv
  BY <1>1 DEF ChannelInv, NoHandleLeft, FirstInv
<1>4. EndInv
  BY <1>1, EngineAssumption DEF EndInv, SoundConfigSurvives
<1> QED BY <1>2, <1>3, <1>4 DEF EngineInv

LEMMA StepEngineInv == EngineInv /\ [EngineNext]_engineVars => EngineInv'
<1> SUFFICES ASSUME EngineInv, [EngineNext]_engineVars PROVE EngineInv'
  OBVIOUS
<1>1. CASE UNCHANGED engineVars
  <2>1. UNCHANGED <<section, readers, handle, view, pc, config, queue, field, next_worker,
                    sessions, starts, denied, lost, cause>>
    BY <1>1 DEF engineVars, channelVars, mainVars, serverVars, history
  <2>2. UNCHANGED <<Queues, SlabBytes, Bytes, SoundConfig>>
    BY <2>1 DEF Queues, SlabBytes, Bytes, SoundConfig, RoomForSlabs, StashPossible, StashBytes
  <2>3. ConfigInv'
    BY <2>1, <2>2 DEF EngineInv, ConfigInv
  <2>4. ChannelInv' /\ LossInv' /\ FirstInv'
    BY <2>1, <2>2 DEF EngineInv, ChannelInv, NoHandleLeft, LossInv, Explained, FirstInv
  <2>5. EndInv'
    BY <2>1, <2>2 DEF EngineInv, EndInv, SoundConfigSurvives
  <2> QED BY <2>3, <2>4, <2>5 DEF EngineInv
<1>2. CASE Killed
  BY <1>2, EndsStep DEF Killed, Justified
<1>3. CASE EngineNext /\ ~ Killed
  BY <1>3, StartStep, BindStep, ClampStep, NextQueueStep, CreateStep, MapStep, WriteControlStep,
     MakeRingStep, AcceptStep, LogStep, SessionEndStep, ReaderStep
     DEF EngineNext
<1> QED BY <1>1, <1>2, <1>3

LEMMA EngineInvariant == EngineSpec => []EngineInv
<1> QED BY InitEngineInv, StepEngineInv, PTL DEF EngineSpec

(* The locals of start_threads(), the index of start_accept() and the      *)
(* channels have their types (ThreadManager.cpp:11-56).                    *)
THEOREM EngineTypeCorrect == EngineSpec => []EngineTypeOK
<1>1. EngineInv => EngineTypeOK
  BY DEF EngineInv, ConfigInv, ChannelInv, EndInv, EngineTypeOK, Making, Fields
<1> QED BY <1>1, EngineInvariant, PTL

(* However InitializeSharedMemory fails and wherever a process ends, it    *)
(* leaves no section but to readers (LogServer.h:138-147).                 *)
THEOREM NoHandleIsLeft == EngineSpec => []NoHandleLeft
<1>1. EngineInv => NoHandleLeft
  BY DEF EngineInv, ChannelInv
<1> QED BY <1>1, EngineInvariant, PTL

(* Whatever the processes before it were killed at and readers have kept,  *)
(* an engine is without a channel only for want of memory or, from the     *)
(* second process on, because of a smaller section (LogQueue.cpp:14-17,    *)
(* ThreadManager.cpp:52-56).                                               *)
THEOREM LossesAreExplained == EngineSpec => []ChannelLossHasCause
<1>1. EngineInv => ChannelLossHasCause
  <2> SUFFICES ASSUME EngineInv, pc = "serving", NEW i \in Queues \ view
               PROVE  <<i, "memory">> \in lost \/ (<<i, "section">> \in lost /\ starts > 1)
    BY DEF ChannelLossHasCause
  <2>1. i \in 0 .. queue - 1
    BY DEF EngineInv, ConfigInv, LossInv, Queues, Making
  <2> QED BY <2>1 DEF EngineInv, LossInv, Explained, Making
<1> QED BY <1>1, EngineInvariant, PTL

(* A configuration with a queue for each context, a stash and slabs ends   *)
(* the engine only if Windows denies it something (LogServer.cpp:71-93,    *)
(* LogServer.h:123).                                                       *)
THEOREM SoundConfigsSurvive == EngineSpec => []SoundConfigSurvives
<1>1. EngineInv => SoundConfigSurvives
  BY DEF EngineInv, EndInv
<1> QED BY <1>1, EngineInvariant, PTL

----------------------------------------------------------------------------
(* The control blocks, of which one at most is being written.              *)
FieldNames == {"magic_number", "slab_size", "max_slabs", "header_size",
               "write_offset", "read_offset"}

Block == ControlBlock(SlabBytes, config.max_slabs)

ControlInv ==
  /\ control \in [Channels -> [FieldNames -> Nat]]
  /\ \A i \in view : i < queue \/ (i = queue /\ pc \in {"write", "ring"})
  /\ pc \in Making =>
       \A i \in view :
         /\ Bytes <= section[i]
         /\ \A k \in 1 .. 6 :
              (i = queue /\ pc = "write" => k < field) => control[i][Fields[k]] = Block[Fields[k]]

LEMMA FieldsAreNames == /\ Range(Fields) = FieldNames /\ \A k \in 1 .. 6 : Fields[k] \in FieldNames
                        /\ \A f \in FieldNames : \E k \in 1 .. 6 : f = Fields[k]
<1>1. DOMAIN Fields = 1 .. 6
  BY DEF Fields
<1>2. /\ Fields[1] = "magic_number" /\ Fields[2] = "slab_size" /\ Fields[3] = "max_slabs"
      /\ Fields[4] = "header_size" /\ Fields[5] = "write_offset" /\ Fields[6] = "read_offset"
  BY DEF Fields
<1>3. 1 .. 6 = {1, 2, 3, 4, 5, 6}
  OBVIOUS
<1> QED BY <1>1, <1>2, <1>3 DEF FieldNames, Range

(* What is written are 32 bits.                                            *)
LEMMA BlockIsTyped ==
  ASSUME EngineInv, pc \in Making PROVE \A f \in FieldNames : Block[f] \in Nat
<1>1. SlabBytes % DwordRange \in Nat /\ config.max_slabs % DwordRange \in Nat
  <2>1. SlabBytes \in Nat /\ config.max_slabs \in Nat
    BY EngineAssumption DEF EngineInv, ConfigInv
  <2> QED BY <2>1, ChannelAssumption
<1> QED BY <1>1, ChannelAssumption DEF Block, ControlBlock, FieldNames, VORT

(* Steps that write no control block and keep the sections that are used.  *)
LEMMA ControlKept ==
  ASSUME EngineInv, ControlInv, pc \in Making => pc' \in Making,
         UNCHANGED <<control, view, config>>,
         queue' \in Nat, queue <= queue', pc' \in {"write", "ring"} => pc = pc' /\ queue' = queue,
         pc \in {"write", "ring"} => pc' = pc \/ queue' = queue + 1,
         \A i \in view : section'[i] = section[i],
         pc \in Making \/ view = {},
         field' = field \/ pc' # "write", pc = "write" => pc' = "write"
  PROVE  ControlInv'
<1>1. Bytes' = Bytes /\ Block' = Block
  BY DEF Bytes, SlabBytes, Block
<1>2. view \subseteq Nat /\ queue \in Nat
  BY ChannelAssumption DEF EngineInv, ChannelInv, ConfigInv
<1>3. \A i \in view : i < queue' \/ (i = queue' /\ pc' \in {"write", "ring"})
  BY <1>2 DEF ControlInv
<1>4. pc' \in Making => \A i \in view : Bytes <= section'[i]
  BY <1>1 DEF ControlInv
<1>5. pc' \in Making =>
        \A i \in view : \A k \in 1 .. 6 :
          (i = queue' /\ pc' = "write" => k < field') => control[i][Fields[k]] = Block[Fields[k]]
  BY <1>2 DEF ControlInv
<1> QED BY <1>1, <1>3, <1>4, <1>5 DEF ControlInv

LEMMA ControlEmpty ==
  ASSUME view' = {}, control' \in [Channels -> [FieldNames -> Nat]] PROVE ControlInv'
BY DEF ControlInv

LEMMA NoViewYet == ASSUME EngineInv, ControlInv, pc \notin Making PROVE view = {}
<1>1. pc = "down" \/ (pc \in {"bind", "clamp"} /\ queue = 0)
  BY DEF EngineInv, ConfigInv
<1>2. view \subseteq Nat /\ (pc = "down" => view = {})
  BY ChannelAssumption DEF EngineInv, ChannelInv
<1>3. \A i \in view : i < queue \/ pc \in {"write", "ring"}
  BY DEF ControlInv
<1> QED BY <1>1, <1>2, <1>3

LEMMA ControlEnds ==
  ASSUME ControlInv, NEW why, NEW what, Ends(why, what) PROVE ControlInv'
<1>1. view' = {} /\ control' = control
  BY DEF Ends, ReleaseAll
<1> QED BY <1>1, ControlEmpty DEF ControlInv

LEMMA ControlCreate ==
  ASSUME EngineInv, ControlInv, CreateFileMapping(queue, Bytes), pc = "create", pc' = "map",
         UNCHANGED <<config, queue, field>>
  PROVE  ControlInv'
<1>1. /\ section' = [section EXCEPT ![queue] = IF @ = 0 THEN Bytes ELSE @]
      /\ control' = [control EXCEPT ![queue] = IF section[queue] = 0 THEN Zero ELSE @]
      /\ view' = view
  BY DEF CreateFileMapping
<1>2. Bytes' = Bytes /\ Block' = Block /\ queue \in Nat /\ view \subseteq Channels
  BY DEF Bytes, SlabBytes, Block, EngineInv, ConfigInv, ChannelInv
<1>3. Zero \in [FieldNames -> Nat]
  BY FieldsAreNames DEF Zero
<1>4. control' \in [Channels -> [FieldNames -> Nat]]
  BY <1>1, <1>3 DEF ControlInv
<1>5. \A i \in view : i < queue
  BY DEF ControlInv
<1>6. \A i \in view : i # queue
  BY <1>2, <1>5, ChannelAssumption
<1>7. \A i \in view : section'[i] = section[i] /\ control'[i] = control[i]
  BY <1>1, <1>2, <1>6 DEF EngineInv, ChannelInv, ControlInv
<1>8. \A i \in view : /\ Bytes <= section'[i]
                     /\ \A k \in 1 .. 6 : control'[i][Fields[k]] = Block[Fields[k]]
  BY <1>6, <1>7 DEF ControlInv, Making
<1>9. view' = view /\ queue' = queue /\ Bytes' = Bytes /\ Block' = Block
  BY <1>1, <1>2
<1> QED BY <1>4, <1>5, <1>8, <1>9, Zenon DEF ControlInv

LEMMA ControlMap ==
  ASSUME EngineInv, ControlInv, MapViewOfFile(queue, Bytes), pc = "map", pc' = "write",
         UNCHANGED <<config, queue, field>>
  PROVE  ControlInv'
<1>1. Bytes <= section[queue] /\ view' = view \cup {queue} /\ UNCHANGED <<section, control>>
  BY DEF MapViewOfFile
<1>2. Bytes' = Bytes /\ Block' = Block /\ queue \in Nat /\ field = 1
  BY DEF Bytes, SlabBytes, Block, EngineInv, ConfigInv
<1>3. \A i \in view : i < queue
  BY DEF ControlInv
<1>4. \A i \in view : i # queue
  BY <1>2, <1>3, ChannelAssumption DEF EngineInv, ChannelInv
<1>5. \A i \in view : /\ Bytes <= section[i]
                     /\ \A k \in 1 .. 6 : control[i][Fields[k]] = Block[Fields[k]]
  BY <1>4 DEF ControlInv, Making
<1>6. control' \in [Channels -> [FieldNames -> Nat]]
  BY <1>1 DEF ControlInv
<1>7. \A i \in view' : i < queue' \/ (i = queue' /\ pc' \in {"write", "ring"})
  BY <1>1, <1>3
<1>8. ASSUME NEW i \in view'
      PROVE  /\ Bytes' <= section'[i]
             /\ \A k \in 1 .. 6 : (i = queue' /\ pc' = "write" => k < field')
                                  => control'[i][Fields[k]] = Block'[Fields[k]]
  <2>1. CASE i = queue
    <3>1. \A k \in 1 .. 6 : ~ (k < field')
      BY <1>2
    <3> QED BY <1>1, <1>2, <2>1, <3>1
  <2>2. CASE i \in view
    BY <1>1, <1>2, <1>5, <2>2
  <2> QED BY <1>1, <2>1, <2>2
<1> QED BY <1>6, <1>7, <1>8, Zenon DEF ControlInv

LEMMA ControlWrite ==
  ASSUME EngineInv, ControlInv, WriteControl PROVE ControlInv'
<1>1. /\ pc = "write" /\ pc' \in {"write", "ring"} /\ (pc' = "ring" => field >= 6)
      /\ field' = field + 1 /\ UNCHANGED <<section, view, config, queue>>
      /\ control' = [control EXCEPT ![queue][Fields[field]] = Block[Fields[field]]]
  <2>1. Len(Fields) = 6
    BY DEF Fields
  <2>2. field \in 1 .. 7
    BY DEF EngineInv, ConfigInv
  <2>3. WriteField(queue, Fields[field], Block) /\ UNCHANGED <<config, queue>>
    BY DEF WriteControl, Block
  <2>4. /\ control' = [control EXCEPT ![queue][Fields[field]] = Block[Fields[field]]]
        /\ UNCHANGED <<section, view>>
    BY <2>3 DEF WriteField
  <2>5. /\ pc = "write" /\ pc' \in {"write", "ring"} /\ (pc' = "ring" => field >= 6)
        /\ field' = field + 1
    BY <2>1, <2>2 DEF WriteControl, GoTo
  <2> QED BY <2>3, <2>4, <2>5
<1>2. /\ Bytes' = Bytes /\ Block' = Block /\ queue \in Channels /\ field \in 1 .. 6
      /\ view \subseteq Channels
  BY <1>1 DEF Bytes, SlabBytes, Block, EngineInv, ConfigInv, ChannelInv, Making, AtQueue
<1>3. Fields[field] \in FieldNames /\ Block[Fields[field]] \in Nat
  BY <1>1, <1>2, FieldsAreNames, BlockIsTyped DEF Making
<1>4. control' \in [Channels -> [FieldNames -> Nat]]
  BY <1>1, <1>2, <1>3 DEF ControlInv
<1>5. \A i \in view : \A f \in FieldNames :
        control'[i][f] = IF i = queue /\ f = Fields[field] THEN Block[f] ELSE control[i][f]
  <2> SUFFICES ASSUME NEW i \in view, NEW f \in FieldNames
               PROVE  control'[i][f] = IF i = queue /\ f = Fields[field] THEN Block[f]
                                       ELSE control[i][f]
    OBVIOUS
  <2>1. control[queue] \in [FieldNames -> Nat] /\ control[i] \in [FieldNames -> Nat]
    BY <1>2 DEF ControlInv
  <2>2. control' = [control EXCEPT ![queue] = [control[queue] EXCEPT ![Fields[field]] = Block[Fields[field]]]]
    BY <1>1
  <2>3. control'[i] = IF i = queue THEN [control[queue] EXCEPT ![Fields[field]] = Block[Fields[field]]]
                      ELSE control[i]
    BY <1>2, <2>2 DEF ControlInv
  <2> QED BY <1>3, <2>1, <2>3
<1>6. ASSUME NEW i \in view, NEW k \in 1 .. 6, i = queue /\ pc' = "write" => k < field'
      PROVE  control'[i][Fields[k]] = Block[Fields[k]]
  <2>1. Fields[k] \in FieldNames
    BY FieldsAreNames
  <2>2. CASE i = queue /\ k = field
    BY <1>5, <2>1, <2>2
  <2>3. CASE i # queue \/ k < field
    BY <1>1, <1>5, <2>1, <2>3 DEF ControlInv, Making
  <2> QED BY <1>1, <1>2, <1>6, <2>2, <2>3
<1>7. pc' \in Making => \A i \in view : Bytes <= section[i]
  BY <1>1 DEF ControlInv, Making
<1>8. \A i \in view : i < queue \/ (i = queue /\ pc' \in {"write", "ring"})
  BY <1>1 DEF ControlInv
<1>9. view' = view /\ queue' = queue /\ Bytes' = Bytes /\ Block' = Block /\ section' = section
  BY <1>1, <1>2
<1> QED BY <1>4, <1>6, <1>7, <1>8, <1>9, Zenon DEF ControlInv

LEMMA StepControlInv ==
  EngineInv /\ ControlInv /\ [EngineNext]_engineVars => ControlInv'
<1> SUFFICES ASSUME EngineInv, ControlInv, [EngineNext]_engineVars PROVE ControlInv'
  OBVIOUS
<1>0. /\ queue \in Nat /\ view \subseteq Channels
      /\ control \in [Channels -> [FieldNames -> Nat]]
      /\ pc \in Making \/ view = {}
  BY NoViewYet DEF EngineInv, ConfigInv, ChannelInv, ControlInv
<1>1. ASSUME NEW why, NEW what, Ends(why, what) PROVE ControlInv'
  BY <1>1, ControlEnds
<1>2. CASE \E file \in Files : Start(file)
  <2>1. view = {} /\ UNCHANGED <<view, control>>
    BY <1>2 DEF Start, channelVars, EngineInv, ChannelInv
  <2> QED BY <1>0, <2>1, ControlEmpty
<1>3. CASE Bind \/ Clamp
  <2>1. CASE Ends("terminated", {"port"})
    BY <1>1, <2>1
  <2>2. CASE ~ Ends("terminated", {"port"})
    <3>1. UNCHANGED <<view, control>> /\ pc \notin Making
      BY <1>3, <2>2 DEF Bind, Clamp, MainOnly, channelVars, Making
    <3> QED BY <1>0, <3>1, ControlEmpty
  <2> QED BY <2>1, <2>2
<1>4. CASE NextQueue
  <2>1. /\ pc = "queues" /\ pc' \in {"create", "serving"}
        /\ UNCHANGED <<section, control, view, config, queue, field>>
    BY <1>4 DEF NextQueue, GoTo, MainOnly, channelVars, mainVars
  <2> QED BY <1>0, <2>1, ControlKept DEF Making
<1>5. ASSUME NEW why, WithoutChannel(why), pc \in {"create", "map"}, UNCHANGED <<control, view>>,
             \A i \in view : section'[i] = section[i]
      PROVE  ControlInv'
  <2>1. pc' = "queues" /\ queue' = queue + 1 /\ config' = config
    BY <1>5 DEF WithoutChannel, QueueDone
  <2>2. queue' \in Nat /\ queue <= queue'
    BY <1>0, <2>1
  <2> QED BY <1>0, <1>5, <2>1, <2>2, ControlKept DEF Making
<1>6. CASE CreateChannel
  <2>1. CASE WithoutChannel("memory") /\ UNCHANGED channelVars
    BY <1>5, <1>6, <2>1 DEF CreateChannel, channelVars
  <2>2. CASE CreateFileMapping(queue, Bytes) /\ GoTo("map") /\ UNCHANGED <<mainVars, serverVars>>
    BY <1>6, <2>2, ControlCreate DEF CreateChannel, GoTo, mainVars
  <2> QED BY <1>6, <2>1, <2>2 DEF CreateChannel
<1>7. CASE MapChannel
  <2>1. CASE /\ CloseHandle(queue)
             /\ WithoutChannel(IF Bytes <= section[queue] THEN "memory" ELSE "section")
    <3>1. UNCHANGED <<control, view>> /\ \A i \in view : section'[i] = section[i]
      BY <1>0, <2>1 DEF CloseHandle, KeepHeldBy
    <3> QED BY <1>5, <1>7, <2>1, <3>1 DEF MapChannel
  <2>2. CASE MapViewOfFile(queue, Bytes) /\ GoTo("write") /\ UNCHANGED <<mainVars, serverVars>>
    BY <1>7, <2>2, ControlMap DEF MapChannel, GoTo, mainVars
  <2> QED BY <1>7, <2>1, <2>2 DEF MapChannel
<1>8. CASE MakeRing
  <2>1. CASE Ends("terminated", {"memory"})
    BY <1>1, <2>1
  <2>2. CASE ~ Ends("terminated", {"memory"})
    <3>1. /\ pc = "ring" /\ pc' = "queues" /\ queue' = queue + 1
          /\ UNCHANGED <<section, control, view, config>>
      BY <1>8, <2>2 DEF MakeRing, QueueDone, GoTo, MainOnly, channelVars
    <3>2. queue' \in Nat /\ queue <= queue'
      BY <1>0, <3>1
    <3> QED BY <1>0, <3>1, <3>2, ControlKept DEF Making
  <2> QED BY <2>1, <2>2
<1>9. ASSUME UNCHANGED <<control, view, config, queue, field, pc>>,
             \A i \in view : section'[i] = section[i]
      PROVE  ControlInv'
  BY <1>0, <1>9, ControlKept
<1>10. CASE Accept \/ \E worker \in sessions : SessionEnds(worker)
  <2>1. CASE \E why, what : Ends(why, what)
    BY <1>1, <2>1
  <2>2. CASE ~ \E why, what : Ends(why, what)
    <3>1. UNCHANGED <<section, control, view, config, queue, field, pc>>
      BY <1>10, <2>2 DEF Accept, SessionEnds, GoTo, channelVars, mainVars
    <3> QED BY <1>9, <3>1
  <2> QED BY <2>1, <2>2
<1>11. CASE \E worker \in sessions : LogArrives(worker)
  BY <1>1, <1>11 DEF LogArrives
<1>12. CASE \E i \in Channels : Reader(i)
  <2>1. /\ UNCHANGED <<control, view, config, queue, field, pc>>
        /\ \/ section' = section
           \/ section' = [j \in Channels |-> IF j \in readers' \cup handle \cup view
                                             THEN section[j] ELSE 0]
    BY <1>12 DEF Reader, ReaderOpens, ReaderCloses, KeepHeldBy, mainVars
  <2>2. \A i \in view : section'[i] = section[i]
    BY <1>0, <2>1
  <2> QED BY <1>9, <2>1, <2>2
<1>13. CASE UNCHANGED engineVars
  BY <1>9, <1>13 DEF engineVars, channelVars, mainVars
<1> QED BY <1>1, <1>2, <1>3, <1>4, <1>6, <1>7, <1>8, <1>10, <1>11, <1>12, <1>13, ControlWrite
        DEF EngineNext, Killed

LEMMA InitControlInv == EngineInit => ControlInv
<1>1. Zero \in [FieldNames -> Nat]
  BY FieldsAreNames DEF Zero
<1> QED BY <1>1 DEF EngineInit, ChannelInit, ControlInv, Making

(* A serving engine's control blocks are complete and its own, and its     *)
(* slabs are inside of the sections, however many engines before it were   *)
(* killed in the middle of writing theirs (LogServer.h:129-156).           *)
THEOREM ControlBlocksAreReady == EngineSpec => []ControlBlocksReady
<1>1. EngineInv /\ ControlInv => ControlBlocksReady
  <2> SUFFICES ASSUME EngineInv, ControlInv, pc = "serving", RoomForSlabs, StashPossible,
                      config.max_slabs < DwordRange, NEW i \in view
               PROVE  /\ control[i] = [magic_number |-> VORT, slab_size |-> SlabBytes,
                                       max_slabs |-> config.max_slabs, header_size |-> ControlSize,
                                       write_offset |-> 0, read_offset |-> 0]
                      /\ ControlSize + SlabBytes * config.max_slabs <= section[i]
    BY DEF ControlBlocksReady
  <2>1. /\ SlabBytes \in 0 .. SizeRange - 1 /\ SizeRange \in Nat /\ config.max_slabs \in Nat
        /\ config.slabs_size = config.log_size
    BY EngineAssumption DEF EngineInv, ConfigInv, Making
  <2>2. SlabBytes < DwordRange
    <3>1. StashBytes = BitFloor(SlabBytes)
      BY <2>1 DEF StashBytes, SlabBytes
    <3> QED BY <2>1, <3>1, StashBelow DEF StashPossible
  <2>3. SlabBytes % DwordRange = SlabBytes /\ config.max_slabs % DwordRange = config.max_slabs
    BY <2>1, <2>2, ChannelAssumption
  <2>4. Block = [magic_number |-> VORT, slab_size |-> SlabBytes,
                 max_slabs |-> config.max_slabs, header_size |-> ControlSize,
                 write_offset |-> 0, read_offset |-> 0]
    BY <2>3 DEF Block, ControlBlock
  <2>5. control[i] = Block
    <3>1. \A f \in FieldNames : control[i][f] = Block[f]
      BY FieldsAreNames DEF ControlInv, Making
    <3>2. control[i] \in [FieldNames -> Nat]
      BY DEF ControlInv, EngineInv, ChannelInv
    <3>3. Block = [f \in FieldNames |-> Block[f]]
      BY <2>4 DEF FieldNames
    <3> QED BY <3>1, <3>2, <3>3
  <2>6. ControlSize + SlabBytes * config.max_slabs <= section[i]
    <3>1. Bytes <= section[i]
      BY DEF ControlInv, Making
    <3>2. SlabBytes * config.max_slabs \in Nat
      BY <2>1
    <3>3. Bytes = TotalBytes(SlabBytes, config.max_slabs)
      <4> DEFINE total == TotalBytes(SlabBytes, config.max_slabs)
      <4>1. total \in Nat
        BY <3>2, ChannelAssumption DEF TotalBytes
      <4>2. total < SizeRange /\ Bytes = total % SizeRange
        BY Zenon DEF RoomForSlabs, Bytes
      <4> HIDE DEF total
      <4>3. total % SizeRange = total
        BY <2>1, <4>1, <4>2
      <4> QED BY <4>2, <4>3, Zenon DEF total
    <3> QED BY <3>1, <3>3 DEF TotalBytes
  <2> QED BY <2>4, <2>5, <2>6
<1> QED BY <1>1, InitEngineInv, StepEngineInv, InitControlInv, StepControlInv, PTL DEF EngineSpec

----------------------------------------------------------------------------
(* The memory of a ring, and which of the queues made so far have one.     *)
RingOfQueue(i) == IF i < queue /\ i \in view /\ RawSlots >= 2 THEN RingOf(RawSlots) ELSE 0

RingsInv ==
  /\ pc \in Making => \E ram \in MinRam .. SizeRange - 1 : config.usable_ram = BitFloor(ram)
  /\ capacity \in [Channels -> Nat]
  /\ pc # "down" => \A i \in Channels : capacity[i] = RingOfQueue(i)

LEMMA SlotsOfRing ==
  ASSUME config.usable_ram \in Nat
  PROVE  RawSlots \in 0 .. SizeRange - 1
<1>1. InBytes(config.usable_ram) \in 0 .. SizeRange - 1
  <2>1. config.usable_ram * MegaByte \in Nat
    BY EngineAssumption
  <2> QED BY <2>1, EngineAssumption DEF InBytes
<1>2. \A n \in 0 .. SizeRange - 1 : n \div EntrySize \in 0 .. SizeRange - 1
  <2>1. ASSUME NEW n \in Nat, NEW e \in Nat \ {0} PROVE n \div e \in 0 .. n
    OBVIOUS
  <2> QED BY <2>1, EngineAssumption
<1> QED BY <1>1, <1>2 DEF RawSlots

LEMMA RingIsNat ==
  ASSUME RingsInv, pc \in Making, RawSlots >= 2 PROVE RingOf(RawSlots) \in Nat
<1>1. config.usable_ram \in Nat
  BY RamOf, BitsAssumption DEF RingsInv
<1>2. RawSlots \in 2 .. SizeRange - 1
  BY <1>1, SlotsOfRing, EngineAssumption
<1> QED BY <1>2, CeilOf DEF RingOf

(* Clamped() leaves a power of two of at least the least memory.           *)
LEMMA RamOfFile ==
  ASSUME NEW file \in Files, config' = Clamped(GetUserCofig(file))
  PROVE  \E ram \in MinRam .. SizeRange - 1 : config'.usable_ram = BitFloor(ram)
<1> DEFINE ram == NumberOr(MinRam, file, "usable_ram")
           most == IF ram < MinRam THEN MinRam ELSE ram
<1>1. config'.usable_ram = BitFloor(most)
  BY DEF Clamped, GetUserCofig
<1>2. ram \in 0 .. SizeRange - 1
  BY FilesAssumption, EngineAssumption, RamOf, BitsAssumption DEF NumberOr
<1>3. most \in MinRam .. SizeRange - 1
  BY <1>2, EngineAssumption, RamOf, BitsAssumption
<1> QED BY <1>1, <1>3

(* Steps that neither finish a queue nor give the finished ones a channel. *)
LEMMA RingsKept ==
  ASSUME RingsInv, UNCHANGED <<config, capacity, queue>>,
         \A i \in Channels : i < queue => (i \in view' <=> i \in view),
         pc # "down", pc \in Making
  PROVE  RingsInv'
<1>1. RawSlots' = RawSlots
  BY DEF RawSlots, InBytes
<1>2. \A i \in Channels : RingOfQueue(i)' = RingOfQueue(i)
  BY <1>1 DEF RingOfQueue
<1> QED BY <1>2 DEF RingsInv

LEMMA RingsEnd ==
  ASSUME RingsInv, NEW why, NEW what, Ends(why, what) PROVE RingsInv'
BY DEF Ends, RingsInv, mainVars, Making

LEMMA RingsWithout ==
  ASSUME EngineInv, ControlInv, RingsInv, NEW why, WithoutChannel(why), UNCHANGED view,
         pc \in {"create", "map"}
  PROVE  RingsInv'
<1>1. queue' = queue + 1 /\ UNCHANGED <<config, capacity>>
  BY DEF WithoutChannel, QueueDone
<1>2. RawSlots' = RawSlots
  BY <1>1 DEF RawSlots, InBytes
<1>3. queue \in Nat /\ \A i \in view : i < queue
  BY DEF EngineInv, ConfigInv, ControlInv
<1>4. \A i \in Channels : RingOfQueue(i)' = RingOfQueue(i)
  BY <1>1, <1>2, <1>3, ChannelAssumption DEF RingOfQueue
<1> QED BY <1>1, <1>4 DEF RingsInv, Making

LEMMA RingsMade ==
  ASSUME EngineInv, RingsInv, MakeRing, ~ Ends("terminated", {"memory"}) PROVE RingsInv'
<1>1. /\ pc = "ring" /\ pc' = "queues" /\ queue' = queue + 1 /\ UNCHANGED <<config, view>>
      /\ capacity' = [capacity EXCEPT ![queue] = IF RawSlots < 2 THEN @ ELSE RingOf(RawSlots)]
  BY DEF MakeRing, QueueDone, GoTo, MainOnly, channelVars
<1>2. queue \in Nat /\ queue \in view /\ queue \in Channels
  BY <1>1 DEF EngineInv, ConfigInv, ChannelInv
<1>3. RawSlots' = RawSlots
  BY <1>1 DEF RawSlots, InBytes
<1>4. RawSlots \in Nat
  <2>1. config.usable_ram \in Nat
    BY <1>1, RamOf, BitsAssumption DEF RingsInv, Making
  <2> QED BY <2>1, SlotsOfRing, EngineAssumption
<1>5. RawSlots >= 2 => RingOf(RawSlots) \in Nat
  BY <1>1, RingIsNat DEF Making
<1>6. capacity' \in [Channels -> Nat]
  BY <1>1, <1>2, <1>4, <1>5 DEF RingsInv
<1>7. ASSUME NEW i \in Channels PROVE capacity'[i] = RingOfQueue(i)'
  <2>1. capacity[i] = RingOfQueue(i) /\ i \in Nat
    BY <1>1, ChannelAssumption DEF RingsInv
  <2>2. CASE i = queue
    BY <1>1, <1>2, <1>3, <1>4, <2>1, <2>2 DEF RingOfQueue, RingsInv
  <2>3. CASE i # queue
    <3>1. capacity'[i] = capacity[i]
      BY <1>1, <2>3 DEF RingsInv
    <3>2. i < queue' <=> i < queue
      BY <1>1, <1>2, <2>1, <2>3
    <3> QED BY <1>1, <1>3, <2>1, <3>1, <3>2 DEF RingOfQueue
  <2> QED BY <2>2, <2>3
<1> QED BY <1>1, <1>6, <1>7 DEF RingsInv, Making

LEMMA StepRingsInv ==
  EngineInv /\ ControlInv /\ RingsInv /\ [EngineNext]_engineVars => RingsInv'
<1> SUFFICES ASSUME EngineInv, ControlInv, RingsInv, [EngineNext]_engineVars PROVE RingsInv'
  OBVIOUS
<1>1. ASSUME NEW why, NEW what, Ends(why, what) PROVE RingsInv'
  BY <1>1, RingsEnd
<1>2. ASSUME NEW file \in Files, Start(file) PROVE RingsInv'
  <2>1. pc' = "bind" /\ queue' = 0 /\ capacity' = [i \in Channels |-> 0]
    BY <1>2 DEF Start
  <2> QED BY <2>1, ChannelAssumption DEF RingsInv, RingOfQueue, Making
<1>3. CASE Bind \/ Clamp
  <2>1. CASE Ends("terminated", {"port"})
    BY <1>1, <2>1
  <2>2. CASE ~ Ends("terminated", {"port"})
    <3>1. /\ pc \in {"bind", "clamp"} /\ queue' = queue /\ capacity' = capacity
          /\ pc' = "clamp" \/ (pc = "clamp" /\ pc' = "queues" /\ config' = Clamped(config))
      BY <1>3, <2>2 DEF Bind, Clamp, GoTo, mainVars
    <3>2. queue = 0
      BY <3>1 DEF EngineInv, ConfigInv
    <3>3. pc' \in Making =>
            \E ram \in MinRam .. SizeRange - 1 : config'.usable_ram = BitFloor(ram)
      <4> SUFFICES ASSUME pc' \in Making
                   PROVE  \E ram \in MinRam .. SizeRange - 1 : config'.usable_ram = BitFloor(ram)
        OBVIOUS
      <4>1. pc = "clamp" /\ config' = Clamped(config)
        BY <3>1 DEF Making
      <4>2. PICK file \in Files : config = GetUserCofig(file)
        BY <4>1 DEF EngineInv, ConfigInv
      <4> QED BY <4>1, <4>2, RamOfFile
    <3>4. \A i \in Channels : capacity[i] = 0
      BY <3>1, <3>2, ChannelAssumption DEF RingsInv, RingOfQueue
    <3>5. \A i \in Channels : RingOfQueue(i)' = 0
      BY <3>1, <3>2, ChannelAssumption DEF RingOfQueue
    <3> QED BY <3>1, <3>3, <3>4, <3>5 DEF RingsInv
  <2> QED BY <2>1, <2>2
<1>4. CASE NextQueue \/ WriteControl
  <2>1. pc \in Making /\ UNCHANGED <<config, capacity, queue, view>>
    BY <1>4 DEF NextQueue, WriteControl, WriteField, MainOnly, channelVars, mainVars, Making
  <2> QED BY <2>1, RingsKept DEF Making
<1>5. CASE CreateChannel
  <2>1. CASE WithoutChannel("memory") /\ UNCHANGED channelVars
    BY <1>5, <2>1, RingsWithout DEF CreateChannel, channelVars
  <2>2. CASE CreateFileMapping(queue, Bytes) /\ GoTo("map") /\ UNCHANGED <<mainVars, serverVars>>
    <3>1. pc \in Making /\ UNCHANGED <<config, capacity, queue, view>>
      BY <1>5, <2>2 DEF CreateChannel, CreateFileMapping, mainVars, Making
    <3> QED BY <3>1, RingsKept DEF Making
  <2> QED BY <1>5, <2>1, <2>2 DEF CreateChannel
<1>6. CASE MapChannel
  <2>1. CASE /\ CloseHandle(queue)
             /\ WithoutChannel(IF Bytes <= section[queue] THEN "memory" ELSE "section")
    <3>1. view' = view /\ pc = "map"
      BY <1>6, <2>1 DEF MapChannel, CloseHandle
    <3> QED BY <2>1, <3>1, RingsWithout
  <2>2. CASE MapViewOfFile(queue, Bytes) /\ GoTo("write") /\ UNCHANGED <<mainVars, serverVars>>
    <3>1. pc \in Making /\ UNCHANGED <<config, capacity, queue>> /\ view' = view \cup {queue}
      BY <1>6, <2>2 DEF MapChannel, MapViewOfFile, mainVars, Making
    <3>2. \A i \in Channels : i < queue => i # queue
      BY ChannelAssumption DEF EngineInv, ConfigInv
    <3> QED BY <3>1, <3>2, RingsKept DEF Making
  <2> QED BY <1>6, <2>1, <2>2 DEF MapChannel
<1>7. CASE MakeRing
  BY <1>1, <1>7, RingsMade
<1>8. CASE Accept \/ \E worker \in sessions : SessionEnds(worker)
  <2>1. CASE \E why, what : Ends(why, what)
    BY <1>1, <2>1
  <2>2. CASE ~ \E why, what : Ends(why, what)
    <3>1. pc \in Making /\ UNCHANGED <<config, capacity, queue, view>>
      BY <1>8, <2>2 DEF Accept, SessionEnds, channelVars, mainVars, Making
    <3> QED BY <3>1, RingsKept DEF Making
  <2> QED BY <2>1, <2>2
<1>9. CASE \E worker \in sessions : LogArrives(worker)
  BY <1>1, <1>9 DEF LogArrives
<1>10. ASSUME UNCHANGED <<view, config, capacity, queue, pc>> PROVE RingsInv'
  <2>1. RawSlots' = RawSlots
    BY <1>10 DEF RawSlots, InBytes
  <2>2. \A i \in Channels : RingOfQueue(i)' = RingOfQueue(i)
    BY <1>10, <2>1 DEF RingOfQueue
  <2> QED BY <1>10, <2>2 DEF RingsInv
<1>11. CASE \E i \in Channels : Reader(i)
  BY <1>10, <1>11 DEF Reader, ReaderOpens, ReaderCloses, mainVars
<1>12. CASE UNCHANGED engineVars
  BY <1>10, <1>12 DEF engineVars, channelVars, mainVars
<1> QED BY <1>1, <1>2, <1>3, <1>4, <1>5, <1>6, <1>7, <1>8, <1>9, <1>11, <1>12
        DEF EngineNext, Killed

(* A serving engine's queues have rings of a power of two of slots, at     *)
(* least two of them and less than twice the memory that was configured,   *)
(* exactly if they have channels (LogQueue.cpp:12-34).                     *)
THEOREM RingsFollowChannels == EngineSpec => []RingsAreSound
<1>1. EngineInit => RingsInv
  BY ChannelAssumption DEF EngineInit, RingsInv, Making
<1>2. EngineInv /\ ControlInv /\ RingsInv => RingsAreSound
  <2> SUFFICES ASSUME EngineInv, ControlInv, RingsInv, pc = "serving", NEW i \in Queues
               PROVE  IF i \in view /\ config.usable_ram * MegaByte < SizeRange
                        THEN /\ capacity[i] >= 2 /\ capacity[i] = BitFloor(capacity[i])
                             /\ capacity[i] * EntrySize < 2 * config.usable_ram * MegaByte
                        ELSE capacity[i] = 0
    BY DEF RingsAreSound
  <2>1. PICK ram \in MinRam .. SizeRange - 1 : config.usable_ram = BitFloor(ram)
    BY DEF RingsInv, Making
  <2>2. /\ config.usable_ram \in Nat /\ config.usable_ram * MegaByte \in Nat
        /\ 2 * EntrySize <= config.usable_ram * MegaByte
        /\ \/ config.usable_ram * MegaByte < SizeRange
           \/ InBytes(config.usable_ram) = 0
    BY <2>1, RamOf, BitsAssumption, EngineAssumption
  <2>3. i \in Channels /\ i < queue /\ i \in Nat
    BY ChannelAssumption DEF EngineInv, ConfigInv, LossInv, Making, Queues
  <2>4. capacity[i] = IF i \in view /\ RawSlots >= 2 THEN RingOf(RawSlots) ELSE 0
    BY <2>3 DEF RingsInv, RingOfQueue
  <2>5. ASSUME config.usable_ram * MegaByte < SizeRange
        PROVE  /\ RawSlots \in 2 .. SizeRange - 1
               /\ RawSlots * EntrySize <= config.usable_ram * MegaByte
    <3>1. InBytes(config.usable_ram) = config.usable_ram * MegaByte
      BY <2>2, <2>5, EngineAssumption DEF InBytes
    <3>2. ASSUME NEW n \in Nat, NEW e \in Nat \ {0}, 2 * e <= n
          PROVE  n \div e >= 2 /\ n \div e \in Nat /\ (n \div e) * e <= n
      BY <3>2
    <3>3. RawSlots >= 2 /\ RawSlots \in Nat /\ RawSlots * EntrySize <= config.usable_ram * MegaByte
      BY <2>2, <3>1, <3>2, EngineAssumption DEF RawSlots
    <3> QED BY <2>2, <3>3, SlotsOfRing, EngineAssumption
  <2>6. CASE config.usable_ram * MegaByte < SizeRange /\ i \in view
    <3>1. PICK slots \in 2 .. SizeRange - 1 :
            slots = RawSlots /\ slots * EntrySize <= config.usable_ram * MegaByte
      BY <2>5, <2>6
    <3>2. PICK ring \in slots .. 2 * slots - 1 : ring = BitCeil(slots) /\ BitFloor(ring) = ring
      BY CeilOf
    <3>3. capacity[i] = ring /\ ring >= 2 /\ ring \in Nat
      BY <2>4, <2>6, <3>1, <3>2, EngineAssumption DEF RingOf
    <3>4. ring * EntrySize < 2 * config.usable_ram * MegaByte
      <4>1. ASSUME NEW r \in Nat, NEW s \in Nat, NEW e \in Nat \ {0}, r < 2 * s
            PROVE  r * e < 2 * (s * e)
        <5>1. (2 * s - r) * e > 0
          BY <4>1
        <5> QED BY <4>1, <5>1
      <4>2. ring * EntrySize < 2 * (slots * EntrySize)
        BY <3>2, <3>3, <4>1, EngineAssumption
      <4>3. /\ 2 * config.usable_ram * MegaByte = 2 * (config.usable_ram * MegaByte)
            /\ slots * EntrySize \in Nat /\ ring * EntrySize \in Nat
        BY <2>2, <3>3, EngineAssumption
      <4> QED BY <2>2, <3>1, <4>2, <4>3
    <3> QED BY <2>6, <3>2, <3>3, <3>4
  <2>7. CASE ~ (config.usable_ram * MegaByte < SizeRange)
    <3>1. RawSlots = 0
      <4>1. ASSUME NEW e \in Nat \ {0} PROVE 0 \div e = 0
        BY <4>1
      <4> QED BY <2>2, <2>7, <4>1, EngineAssumption DEF RawSlots
    <3> QED BY <2>4, <2>7, <3>1
  <2> QED BY <2>4, <2>6, <2>7
<1> QED BY <1>1, <1>2, InitEngineInv, StepEngineInv, InitControlInv, StepControlInv, StepRingsInv,
           PTL DEF EngineSpec
=============================================================================

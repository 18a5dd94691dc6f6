-------------------------------- MODULE Ingest --------------------------------
(***************************************************************************)
(* The path of a message through one channel: the end of parse_and_push()  *)
(* on the network thread, the shared memory of the queue, the log queue    *)
(* itself, and the worker that pops.  The queue is the bounded FIFO that   *)
(* LogQueue implements under DropAll (ImplementsFifo in LogQueue.tla).     *)
(*                                                                         *)
(* memory says which message wrote each byte last; a message is named by   *)
(* its log_id, and 0 is memory nobody has written.                         *)
(***************************************************************************)
EXTENDS SlabPool, Sequences, Functions

CONSTANT QueueSlots  \* logs the queue holds

ASSUME QueueAssumption == QueueSlots \in Nat \ {0}

VARIABLES
  memory,                          \* from shared_memory_base_ptr on
  ipc,                             \* parse_and_push(): its next step
  destination, message, log_entry, \* its locals; message is the size
  disconnected,                    \* sessions told "Message too big for slab"
  roll_of,                         \* history: the roll in which a message was written
  queue, delivered, refused, open  \* of the queue

queueVars == <<queue, delivered, refused, open>>
ingestVars == <<write_index, current_offset, extents, rolls, memory, ipc, destination,
                message, log_entry, disconnected, roll_of, queue, delivered, refused, open>>

LogEntries == [log_id : Nat, relative_offset : Nat, message_lenght : Nat]

Fifo == INSTANCE BoundedFifo WITH Bound <- QueueSlots, Logs <- LogEntries

Bytes == 0 .. SlabSize * MaxSlabs - 1
Overwrite(first, size, id) ==
  memory' = [b \in Bytes |-> IF b \in first .. first + size - 1 THEN id ELSE memory[b]]

IngestInit ==
  /\ PoolInit
  /\ memory = [b \in Bytes |-> 0]
  /\ ipc = "idle" /\ destination = 0 /\ message = 0
  /\ log_entry = [log_id |-> 0, relative_offset |-> 0, message_lenght |-> 0]
  /\ disconnected = FALSE
  /\ roll_of = << >>
  /\ Fifo!Init /\ open = TRUE

-----------------------------------------------------------------------------
(* The message has passed validation and has these many bytes.             *)
TooBig(size) ==
  /\ ipc = "idle" /\ ~Fits(size)
  /\ disconnected' = TRUE
  /\ UNCHANGED <<poolVars, memory, ipc, destination, message, log_entry, roll_of, queueVars>>

Reserve(size) ==
  /\ ipc = "idle"
  /\ GetNextSlab(size)
  /\ ipc' = "header"
  /\ destination' = RelativeBytes(size)
  /\ message' = size
  /\ log_entry' = [log_id |-> Len(roll_of) + 1, relative_offset |-> OutOffset(size),
                   message_lenght |-> Total(size)]
  /\ roll_of' = Append(roll_of, rolls')
  /\ UNCHANGED <<memory, disconnected, queueVars>>

WriteHeader ==
  /\ ipc = "header"
  /\ ipc' = "payload"
  /\ Overwrite(destination, HeaderSize, log_entry.log_id)
  /\ UNCHANGED <<poolVars, destination, message, log_entry, disconnected, roll_of, queueVars>>

WritePayloadMutant ==
  /\ ipc = "payload"
  /\ ipc' = "push"
  /\ Overwrite(destination, message, log_entry.log_id)
  /\ UNCHANGED <<poolVars, destination, message, log_entry, disconnected, roll_of, queueVars>>

WritePayload ==
  /\ ipc = "payload"
  /\ ipc' = "push"
  /\ Overwrite(destination + HeaderSize, message, log_entry.log_id)
  /\ UNCHANGED <<poolVars, destination, message, log_entry, disconnected, roll_of, queueVars>>

PushEntry ==
  /\ ipc = "push"
  /\ ipc' = "idle"
  /\ Fifo!Offer(log_entry) \/ Fifo!Refuse(log_entry)
  /\ UNCHANGED <<poolVars, memory, destination, message, log_entry, disconnected, roll_of>>

PopEntry ==
  /\ Fifo!Take
  /\ UNCHANGED <<poolVars, memory, ipc, destination, message, log_entry, disconnected, roll_of>>

IngestNext == \/ \E size \in MessageSizes : TooBig(size) \/ Reserve(size)
              \/ WriteHeader \/ WritePayload \/ PushEntry
              \/ PopEntry

IngestSpec == IngestInit /\ [][IngestNext]_ingestVars

-----------------------------------------------------------------------------
(* What a reader finds at the place an entry names.                        *)
Intact(entry) ==
  \A b \in entry.relative_offset .. entry.relative_offset + entry.message_lenght - 1 :
    memory[b] = entry.log_id

(* The locals of parse_and_push() and the channel keep their types.        *)
IngestTypeOK ==
  /\ PoolTypeOK
  /\ memory \in [Bytes -> 0 .. Len(roll_of)]
  /\ ipc \in {"idle", "header", "payload", "push"}
  /\ destination \in Bytes
  /\ log_entry \in LogEntries
  /\ disconnected \in BOOLEAN

(* An entry that has been pushed names bytes that hold the whole of its    *)
(* message, header and payload, until the pool has gone round the ring:    *)
(* neither a message being written beside it nor one that push() dropped   *)
(* disturbs it, popped or not (LogServer.cpp:218-243).                     *)
IntactUntilReused ==
  \A entry \in Range(queue) \cup Range(delivered) :
    rolls < roll_of[entry.log_id] + MaxSlabs => Intact(entry)
=============================================================================

------------------------------- MODULE Channel -------------------------------
(***************************************************************************)
(* The named sections "Local\Vortex_Channel_<i>" that SlabPool makes and   *)
(* external readers open: SlabPool::InitializeSharedMemory(), the          *)
(* destructor, and what Windows does with the name.                        *)
(*                                                                         *)
(* A section lives as long as anybody holds it, a reader that outlives the *)
(* engine included; then the next engine gets that section, in the size    *)
(* and with the contents it has.  Every store to the control block is a    *)
(* step: readers see them one by one.                                      *)
(***************************************************************************)
EXTENDS Integers, Sequences, Functions

CONSTANTS Channels,     \* the channel_id's
          ControlSize,  \* sizeof(SharedMemoryControl)
          DwordRange    \* 2^32, the fields of the control block

ASSUME ChannelAssumption ==
  Channels \subseteq Nat /\ ControlSize \in Nat \ {0} /\ DwordRange \in Nat \ {0}

VARIABLES section,   \* the size of each section, 0 if there is none
          control,   \* its control block
          readers,   \* the channels that a reader has open
          handle,    \* hMapFile # nullptr
          view       \* shared_memory_base_ptr # nullptr

channelVars == <<section, control, readers, handle, view>>

Fields == <<"magic_number", "slab_size", "max_slabs", "header_size",
            "write_offset", "read_offset">>
Zero == [f \in Range(Fields) |-> 0]   \* the block of a new section
VORT == 1                             \* the magic number

(* What is written; the sizes are cut to 32 bits.                          *)
ControlBlock(slab_size, max_slabs) ==
  [magic_number |-> VORT, slab_size |-> slab_size % DwordRange,
   max_slabs |-> max_slabs % DwordRange, header_size |-> ControlSize,
   write_offset |-> 0, read_offset |-> 0]

TotalBytes(slab_size, max_slabs) == ControlSize + slab_size * max_slabs

ChannelInit ==
  /\ section = [i \in Channels |-> 0] /\ control = [i \in Channels |-> Zero]
  /\ readers = {} /\ handle = {} /\ view = {}

(* CreateFileMappingW opens the section if the name exists.                *)
CreateFileMapping(i, bytes) ==
  /\ section' = [section EXCEPT ![i] = IF @ = 0 THEN bytes ELSE @]
  /\ control' = [control EXCEPT ![i] = IF section[i] = 0 THEN Zero ELSE @]
  /\ handle' = handle \cup {i}
  /\ UNCHANGED <<readers, view>>

MapViewOfFile(i, bytes) ==
  /\ bytes <= section[i]
  /\ view' = view \cup {i}
  /\ UNCHANGED <<section, control, readers, handle>>

(* Those of the sections that nobody holds any more are gone.              *)
KeepHeldBy(holders) ==
  section' = [i \in Channels |-> IF i \in holders THEN section[i] ELSE 0]

(* The view could not be had: CloseHandle.                                 *)
CloseHandleMutant(i) == UNCHANGED channelVars
CloseHandle(i) ==
  /\ handle' = handle \ {i}
  /\ KeepHeldBy(readers \cup view \cup (handle \ {i}))
  /\ UNCHANGED <<control, readers, view>>

WriteFieldMutant(i, f, block) ==
  /\ control' = [control EXCEPT ![i][f] = IF @ = 0 THEN block[f] ELSE @]
  /\ UNCHANGED <<section, readers, handle, view>>
WriteField(i, f, block) ==
  /\ control' = [control EXCEPT ![i][f] = block[f]]
  /\ UNCHANGED <<section, readers, handle, view>>

(* The engine's process ends, and with it its views and handles.           *)
ReleaseAll ==
  /\ view' = {} /\ handle' = {}
  /\ KeepHeldBy(readers)
  /\ UNCHANGED <<control, readers>>

(* An external reader.                                                     *)
ReaderOpens(i) ==
  /\ section[i] # 0 /\ i \notin readers
  /\ readers' = readers \cup {i}
  /\ UNCHANGED <<section, control, handle, view>>

ReaderCloses(i) ==
  /\ i \in readers /\ readers' = readers \ {i}
  /\ KeepHeldBy((readers \ {i}) \cup handle \cup view)
  /\ UNCHANGED <<control, handle, view>>
=============================================================================

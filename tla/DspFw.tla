-------------------------------- MODULE DspFw -------------------------------
(***************************************************************************)
(* The structures the DSP firmware exchanges with its host (cAVS/DspFw),   *)
(* as layouts of byte streams: the fields in the order in which their      *)
(* fromStream() reads them and their toStream() writes them.               *)
(*                                                                         *)
(* A layout is a C++ type that is "serializable".  An integer is its       *)
(* bytes, the least significant one first; a structure is a record; a      *)
(* vector is a sequence.  How a value of a layout is read and written is   *)
(* recursive in the layout: it is a parameter here, whose definition is in *)
(* ByteStream.                                                             *)
(***************************************************************************)
EXTENDS Integers, SequencesExt

CONSTANTS
  Filled(_, _),          (* (T, byte): all its integers made of one byte   *)
  SizeOf(_),             (* sizeof(T), for the types without a vector      *)
  HeaderSize(_),         (* sizeof(T) in the headers of the firmware       *)
  ReadInto(_, _, _, _),  (* (T, old, buffer, pos): a read over a value     *)
  Write(_, _)            (* (T, value): its bytes                          *)

IntType(size)      == [kind |-> "int", size |-> size]
EnumType           == [kind |-> "enum"]
ArrayOf(n, T)      == [kind |-> "array", count |-> n, of |-> T]
VectorOf(T)        == [kind |-> "vector", of |-> T]
Struct(fields)     == [kind |-> "struct", fields |-> fields]

(* What a count stands for.  A count that needs its two upper bytes is     *)
(* beyond every buffer there is, and it is enough to know that much.       *)
Huge == 65536
Count(bytes) ==
  IF \E i \in 3 .. Len(bytes) : bytes[i] # 0
    THEN Huge
    ELSE bytes[1] + (IF Len(bytes) > 1 THEN 256 * bytes[2] ELSE 0)

(* The bytes of a small number. *)
Bytes(size, n) ==
  [i \in 1 .. size |->
     CASE i = 1 -> n % 256 [] i = 2 -> (n \div 256) % 256 [] OTHER -> 0]

(* The elements of a vector: each is read aside, and pushed once complete. *)
Push(read, item) ==
  IF item.ok THEN [item EXCEPT !.value = Append(read.value, @)]
             ELSE [item EXCEPT !.value = read.value]

(* A read of a whole buffer into a fresh value. *)
Read(T, buffer) == ReadInto(T, Filled(T, 0), buffer, 0)
IsEOS(read, buffer) == read.pos = Len(buffer)

-----------------------------------------------------------------------------
U8  == IntType(1)
U16 == IntType(2)
U32 == IntType(4)
U64 == IntType(8)

(* Words of bit fields are exchanged as one integer. *)
SegmentFlags      == Struct(<< <<"ul", U32>> >>)
ModuleType        == Struct(<< <<"ul", U32>> >>)
GatewayAttributes == Struct(<< <<"dw", U32>> >>)
ConnectorNodeId   == Struct(<< <<"dw", U32>> >>)
ProbePointId      == Struct(<< <<"full", U32>> >>)

CompoundModuleId == Struct(<< <<"instanceId", U16>>, <<"moduleId", U16>> >>)

AudioDataFormatIpc ==
  Struct(<< <<"sampling_frequency", EnumType>>, <<"bit_depth", EnumType>>,
            <<"channel_map", EnumType>>, <<"channel_config", EnumType>>,
            <<"interleaving_style", EnumType>>,
            <<"number_of_channels", U8>>, <<"valid_bit_depth", U8>>,
            <<"sample_type", U8>>, <<"reserved", U8>> >>)

FwVersion ==
  Struct(<< <<"major", U16>>, <<"minor", U16>>,
            <<"hotfix", U16>>, <<"build", U16>> >>)

DmaBufferConfig ==
  Struct(<< <<"min_size_bytes", U32>>, <<"max_size_bytes", U32>> >>)

-----------------------------------------------------------------------------
SegmentDesc ==
  Struct(<< <<"flags", SegmentFlags>>, <<"v_base_addr", U32>>,
            <<"file_offset", U32>> >>)

ModuleEntry ==
  Struct(<< <<"module_id", U16>>, <<"state_flags", U16>>,
            <<"name", ArrayOf(8, U8)>>, <<"uuid", ArrayOf(4, U32)>>,
            <<"type", ModuleType>>, <<"hash", ArrayOf(32, U8)>>,
            <<"entry_point", U32>>, <<"cfg_offset", U16>>,
            <<"cfg_count", U16>>, <<"affinity_mask", U32>>,
            <<"instance_max_count", U16>>, <<"instance_stack_size", U16>>,
            <<"segments", ArrayOf(3, SegmentDesc)>> >>)

ModulesInfo == Struct(<< <<"module_info", VectorOf(ModuleEntry)>> >>)

-----------------------------------------------------------------------------
PipelinesListInfo == Struct(<< <<"ppl_id", VectorOf(U32)>> >>)
ModInstListInfo   == VectorOf(CompoundModuleId)
TaskListInfo      == VectorOf(U32)

PplProps ==
  Struct(<< <<"id", U32>>, <<"priority", U32>>, <<"state", U32>>,
            <<"total_memory_bytes", U32>>, <<"used_memory_bytes", U32>>,
            <<"context_pages", U32>>,
            <<"module_instances", ModInstListInfo>>,
            <<"ll_tasks", TaskListInfo>>, <<"dp_tasks", TaskListInfo>> >>)

TaskProps ==
  Struct(<< <<"task_id", U32>>,
            <<"module_instance_id", VectorOf(CompoundModuleId)>> >>)

SchedulerProps ==
  Struct(<< <<"processing_domain", U32>>, <<"core_id", U32>>,
            <<"task_info", VectorOf(TaskProps)>> >>)

SchedulersInfo == Struct(<< <<"scheduler_info", VectorOf(SchedulerProps)>> >>)

-----------------------------------------------------------------------------
GatewayProps == Struct(<< <<"id", U32>>, <<"attribs", GatewayAttributes>> >>)
GatewaysInfo == Struct(<< <<"gateways", VectorOf(GatewayProps)>> >>)

PinProps ==
  Struct(<< <<"stream_type", EnumType>>, <<"format", AudioDataFormatIpc>>,
            <<"phys_queue_id", U32>> >>)
PinListInfo == Struct(<< <<"pin_info", VectorOf(PinProps)>> >>)

ModuleInstanceProps ==
  Struct(<< <<"id", CompoundModuleId>>, <<"dp_queue_type", U32>>,
            <<"queue_alignment", U32>>, <<"cp_usage_mask", U32>>,
            <<"stack_bytes", U32>>, <<"bss_total_bytes", U32>>,
            <<"bss_used_bytes", U32>>, <<"ibs_bytes", U32>>,
            <<"obs_bytes", U32>>, <<"cpc", U32>>, <<"cpc_peak", U32>>,
            <<"input_pins", PinListInfo>>, <<"output_pins", PinListInfo>>,
            <<"input_gateway", ConnectorNodeId>>,
            <<"output_gateway", ConnectorNodeId>> >>)

-----------------------------------------------------------------------------
PerfDataItem ==
  Struct(<< <<"resourceId", CompoundModuleId>>, <<"details", U32>>,
            <<"peak", U32>>, <<"average", U32>> >>)
GlobalPerfData == Struct(<< <<"items", VectorOf(PerfDataItem)>> >>)

SramStateInfo ==
  Struct(<< <<"freePhysMemPages", U32>>, <<"ebbStates", VectorOf(U32)>>,
            <<"pageAlloc", VectorOf(U16)>> >>)
GpdmaCapabilities ==
  Struct(<< <<"lp_gateways", VectorOf(U32)>>,
            <<"hp_gateways", VectorOf(U32)>> >>)
I2sCapabilities ==
  Struct(<< <<"version", U32>>, <<"controllerBaseAddr", VectorOf(U32)>> >>)

(* The header of an extracted packet, which its data and a checksum follow. *)
Packet ==
  Struct(<< <<"syncWord", U32>>, <<"probePointId", ProbePointId>>,
            <<"format", U32>>, <<"dspWallClockTsHw", U32>>,
            <<"dspWallClockTsLw", U32>>, <<"data", VectorOf(U8)>>,
            <<"checksum", U64>> >>)

-----------------------------------------------------------------------------
(* getAllocationSize(): what is asked from the firmware for `count' items. *)
AllocationSize(T, count) == 4 + count * SizeOf(T)

ModulesInfoSize(count)       == AllocationSize(ModuleEntry, count)
PipelinesListInfoSize(count) == AllocationSize(U32, count)
GatewaysInfoSize(count)      == AllocationSize(GatewayProps, count)
GlobalPerfDataSize(count)    == AllocationSize(PerfDataItem, count)

(* Where a field starts in the C structure. *)
Offset(T, name) ==
  LET n == CHOOSE i \in DOMAIN T.fields : T.fields[i][1] = name
  IN  HeaderSize(Struct(SubSeq(T.fields, 1, n - 1)))

(* CHECK_SIZE and CHECK_MEMBER: what the build refuses to compile without. *)
HeadersMatch ==
  /\ \A c \in { <<GatewayAttributes, 4>>, <<GatewayProps, 8>>,
                <<GatewaysInfo, 12>>, <<AudioDataFormatIpc, 24>>,
                <<FwVersion, 8>>, <<DmaBufferConfig, 8>>,
                <<PerfDataItem, 16>>, <<GlobalPerfData, 20>>,
                <<PinProps, 32>>, <<PinListInfo, 36>>,
                <<ModuleInstanceProps, 124>>, <<SegmentFlags, 4>>,
                <<SegmentDesc, 12>>, <<ModuleType, 4>>, <<ModuleEntry, 116>>,
                <<ModulesInfo, 120>>, <<PipelinesListInfo, 8>>,
                <<ModInstListInfo, 8>>, <<TaskListInfo, 8>>, <<PplProps, 48>>,
                <<TaskProps, 12>>, <<SchedulerProps, 24>>,
                <<SchedulersInfo, 28>>, <<ProbePointId, 4>>,
                <<GpdmaCapabilities, 16>>, <<I2sCapabilities, 12>> } :
       HeaderSize(c[1]) = c[2]
  /\ \A c \in { <<GatewayProps, "attribs", 4>>,
                <<AudioDataFormatIpc, "interleaving_style", 16>>,
                <<FwVersion, "build", 6>>, <<PerfDataItem, "peak", 8>>,
                <<PerfDataItem, "average", 12>>, <<PinProps, "format", 4>>,
                <<PinProps, "phys_queue_id", 28>>,
                <<ModuleInstanceProps, "cpc", 36>>,
                <<ModuleInstanceProps, "input_pins", 44>>,
                <<ModuleInstanceProps, "output_pins", 80>>,
                <<ModuleInstanceProps, "input_gateway", 116>>,
                <<ModuleInstanceProps, "output_gateway", 120>>,
                <<ModuleEntry, "uuid", 12>>, <<ModuleEntry, "type", 28>>,
                <<ModuleEntry, "hash", 32>>, <<ModuleEntry, "cfg_count", 70>>,
                <<ModuleEntry, "instance_max_count", 76>>,
                <<ModuleEntry, "segments", 80>>,
                <<PplProps, "module_instances", 24>>,
                <<PplProps, "ll_tasks", 32>>, <<PplProps, "dp_tasks", 40>>,
                <<TaskProps, "module_instance_id", 4>>,
                <<SchedulerProps, "task_info", 8>> } :
       Offset(c[1], c[2]) = c[3]
=============================================================================

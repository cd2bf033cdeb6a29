--------------------------- MODULE DriverMessages ---------------------------
(***************************************************************************)
(* The messages the agent exchanges with the audio driver, on Linux        *)
(* through a debugfs file (cAVS/Linux/DriverTypes.hpp) and on Windows      *)
(* through ioctls (cAVS/Windows/DriverTypes.hpp and IoctlHelpers.hpp),     *)
(* for one access to a parameter of a module of the firmware:              *)
(*   access = [get, module, instance, param, size, payload]                *)
(* `payload' is what is written; `size' what is asked for, or written.     *)
(***************************************************************************)
EXTENDS DspFw

CONSTANTS
  MaxParameterPayloadSize,  (* 4 KiB in the code                           *)
  MOD_INST_PROPS,           (* the parameters the messages tell apart      *)
  MOD_INST_ENABLE

Least(a, b) == IF a < b THEN a ELSE b
Padded(bytes, size) ==
  [i \in 1 .. size |-> IF i <= Len(bytes) THEN bytes[i] ELSE 0]

(* What a call gives: a value, or what it throws, by its class. *)
Returns(value) == [thrown |-> "nothing", value |-> value]
Throws(class)  == [thrown |-> class, value |-> << >>]
Succeeds(result) == result.thrown = "nothing"

-----------------------------------------------------------------------------
(* Linux.  Every parameter but the properties of an instance is tunneled:  *)
(* the header carries VENDOR_CONFIG_PARAM, and the parameter follows it.   *)
RequireTunneledAccess(param) == param # MOD_INST_PROPS
VENDOR_CONFIG_PARAM == 255

TunneledHeader == Struct(<< <<"mParamId", U32>>, <<"mParamSize", U32>> >>)

(* The two words of bit fields: 16 bits of module, 8 of instance and 5 of  *)
(* command, then 20 bits of size and 8 of parameter.                       *)
MessageHeader(cmd, module, instance, param, asked) ==
  LET size == Least(asked, MaxParameterPayloadSize)
  IN  Bytes(2, module) \o << instance % 256, cmd >>
        \o << size % 256, (size \div 256) % 256,
              ((size \div 65536) % 16) + (16 * (param % 16)), param \div 16 >>

TunneledMessageHeader(cmd, access) ==
  MessageHeader(cmd, access.module, access.instance, VENDOR_CONFIG_PARAM,
                access.size + 8)
    \o Write(TunneledHeader,
             [mParamId   |-> Bytes(4, access.param),
              mParamSize |-> Bytes(4, Least(access.size,
                                            MaxParameterPayloadSize))])

(* mSize counts sizeof(MessageHeader), with the pointer to its virtual     *)
(* functions, whichever header follows.                                    *)
LargeConfigAccess(access) ==
  LET cmd == IF access.get THEN 3 ELSE 4
  IN  Bytes(4, Least(16 + Len(access.payload), MaxParameterPayloadSize))
        \o (IF RequireTunneledAccess(access.param)
              THEN TunneledMessageHeader(cmd, access)
              ELSE MessageHeader(cmd, access.module, access.instance,
                                 access.param, access.size))
        \o access.payload

(* Sets only: the parameter is the data. *)
ModuleConfigAccess(access) ==
  Bytes(4, 8) \o Bytes(2, access.module) \o << access.instance % 256, 1 >>
              \o Bytes(4, access.param)

LinuxMessage(access) ==
  IF ~access.get /\ access.param = MOD_INST_ENABLE
    THEN ModuleConfigAccess(access) ELSE LargeConfigAccess(access)

(* What the driver finds in a message. *)
LinuxAccess(message) ==
  LET cmd    == message[8]
      large  == (message[11] \div 16) + (16 * message[12])
      direct == [get      |-> cmd = 3,
                 module   |-> Count(SubSeq(message, 5, 6)),
                 instance |-> message[7],
                 param    |-> large,
                 size     |-> message[9] + 256 * message[10],
                 payload  |-> SubSeq(message, 13, Len(message))]
  IN  CASE cmd = 1 -> [direct EXCEPT !.param = Count(SubSeq(message, 9, 12)),
                                     !.size = 0, !.payload = << >>]
        [] cmd # 1 /\ large # VENDOR_CONFIG_PARAM -> direct
        [] cmd # 1 /\ large = VENDOR_CONFIG_PARAM ->
             [direct EXCEPT !.param   = Count(SubSeq(message, 13, 16)),
                            !.size    = Count(SubSeq(message, 17, 20)),
                            !.payload = SubSeq(message, 21, Len(message))]

(* What it answers to a get, in a file that is read up to the size of the  *)
(* agent's buffer, which nothing says how much of it was filled.           *)
LinuxReply(access, content) ==
  Padded((IF RequireTunneledAccess(access.param)
            THEN Write(TunneledHeader,
                       [mParamId   |-> Bytes(4, access.param),
                        mParamSize |-> Bytes(4, Len(content))])
            ELSE << >>) \o content,
         MaxParameterPayloadSize)

(* The payload ends where the header of the reply says; without a header,  *)
(* it is as long as what was asked for.                                    *)
TunneledPayload(header, file) ==
  SubSeq(file, header.pos + 1, header.pos + Count(header.value.mParamSize))
LinuxPayload(access, file) ==
  IF RequireTunneledAccess(access.param)
    THEN TunneledPayload(Read(TunneledHeader, file), file)
    ELSE SubSeq(file, 1, Least(access.size, MaxParameterPayloadSize))

CorePowerCommand(allowedToSleep, coreId) ==
  << IF allowedToSleep THEN "sleep" ELSE "wake", coreId >>

-----------------------------------------------------------------------------
(* Windows: the structures of the ioctls. *)
Intc_App_Cmd_Header ==
  Struct(<< <<"FeatureID", U32>>, <<"ParameterID", U32>>,
            <<"Reserved", U32>>, <<"SetAsDefault", U32>>,
            <<"DataSize", U32>> >>)
Intc_App_Cmd_Body == Struct(<< <<"Status", U32>> >>)

IoctlFwModuleParam ==
  Struct(<< <<"fw_status", U32>>, <<"instance_id", U16>>,
            <<"module_id", U16>>, <<"module_parameter_id", U32>>,
            <<"module_parameter_data_size", U32>> >>)
IoctlFwLogsState ==
  Struct(<< <<"started", EnumType>>, <<"level", EnumType>>,
            <<"output", EnumType>> >>)

MaxProbes == 8
ProbePointConnection ==
  Struct(<< <<"enabled", U32>>, <<"probePointId", ProbePointId>>,
            <<"purpose", EnumType>>,
            <<"injectionBufferCompletionEventHandle", U64>> >>)
ProbePointConfiguration ==
  Struct(<< <<"extractionBufferCompletionEventHandle", U64>>,
            <<"probePointConnection",
              ArrayOf(MaxProbes, ProbePointConnection)>> >>)
RingBufferDescription == Struct(<< <<"startAdress", U64>>, <<"size", U64>> >>)
RingBuffersDescription ==
  Struct(<< <<"extractionRBDescription", RingBufferDescription>>,
            <<"injectionRBDescriptions",
              ArrayOf(MaxProbes, RingBufferDescription)>> >>)

DriverHeadersMatch ==
  /\ \A c \in { <<Intc_App_Cmd_Header, 20>>, <<IoctlFwModuleParam, 16>>,
                <<IoctlFwLogsState, 12>>, <<ProbePointConnection, 20>>,
                <<ProbePointConfiguration, 168>>,
                <<RingBufferDescription, 16>>,
                <<RingBuffersDescription, 16 + 16 * 8>> } :
       SizeOf(c[1]) = c[2]
  /\ \A c \in { <<Intc_App_Cmd_Header, "DataSize", 16>>,
                <<IoctlFwModuleParam, "module_id", 6>>,
                <<IoctlFwModuleParam, "module_parameter_data_size", 12>>,
                <<IoctlFwLogsState, "output", 8>>,
                <<ProbePointConnection, "purpose", 8>>,
                <<ProbePointConfiguration, "probePointConnection", 8>> } :
       Offset(c[1], c[2]) = c[3]

-----------------------------------------------------------------------------
(* Statuses are four bytes, all ones until the driver or the firmware      *)
(* writes them, and zero for a success.                                    *)
Unset   == << 255, 255, 255, 255 >>
Success == << 0, 0, 0, 0 >>

(* A header and a body, in two buffers (Big) or in one (Tiny). *)
ToHeaderBuffer(feature, parameter, bodySize) ==
  Write(Intc_App_Cmd_Header,
        [FeatureID |-> Bytes(4, feature), ParameterID |-> Bytes(4, parameter),
         Reserved |-> Bytes(4, 0), SetAsDefault |-> Bytes(4, 0),
         DataSize |-> Bytes(4, bodySize)])
ToBodyBuffer(payload) == Write(Intc_App_Cmd_Body, [Status |-> Unset]) \o payload

ToBigCmdBuffers(feature, parameter, payload) ==
  LET body == ToBodyBuffer(payload)
  IN  << ToHeaderBuffer(feature, parameter, Len(body)), body >>
ToTinyCmdBuffer(feature, parameter, payload) ==
  FlattenSeq(ToBigCmdBuffers(feature, parameter, payload))

AfterStatus(body, read, short, bad) ==
  CASE ~read.ok -> Throws(short)
    [] read.ok /\ read.value.Status # Success -> Throws(bad)
    [] read.ok /\ read.value.Status = Success ->
         Returns(SubSeq(body, read.pos + 1, Len(body)))
FromBodyBuffer(body, short, bad) ==
  AfterStatus(body, Read(Intc_App_Cmd_Body, body), short, bad)

(* BigGet and BigSet of a module parameter: what the driver is given.  A   *)
(* get sends as many bytes, all ones, as it expects.                       *)
FEATURE_FW_MODULE_PARAM == 2
ModuleParamBody(access) ==
  Write(IoctlFwModuleParam,
        [fw_status |-> Unset,
         instance_id |-> Bytes(2, access.instance),
         module_id |-> Bytes(2, access.module),
         module_parameter_id |-> Bytes(4, access.param),
         module_parameter_data_size |-> Bytes(4, access.size)])
    \o (IF access.get THEN [i \in 1 .. access.size |-> 255]
                      ELSE access.payload)
WindowsMessage(access) ==
  ToBigCmdBuffers(FEATURE_FW_MODULE_PARAM, 0, ModuleParamBody(access))

AccessIn(get, param, body) ==
  [get      |-> get,
   module   |-> Count(param.value.module_id),
   instance |-> Count(param.value.instance_id),
   param    |-> Count(param.value.module_parameter_id),
   size     |-> Count(param.value.module_parameter_data_size),
   payload  |-> IF get THEN << >> ELSE SubSeq(body, param.pos + 1, Len(body))]
WindowsAccess(get, body) ==
  AccessIn(get, ReadInto(IoctlFwModuleParam, Filled(IoctlFwModuleParam, 0),
                         body, 4), body)

(* The body the driver leaves: its status, that of the firmware, what it   *)
(* was asked and the content.                                              *)
WindowsReply(access, status, fwStatus, content) ==
  status \o fwStatus \o Bytes(2, access.instance) \o Bytes(2, access.module)
         \o Bytes(4, access.param) \o Bytes(4, Len(content)) \o content

(* A reply that is too short to hold its own structures is refused too.    *)
AfterFwStatus(inner, param) ==
  IF ~param.ok \/ param.value.fw_status # Success
    THEN Throws("ModuleHandler")
    ELSE Returns(SubSeq(inner, param.pos + 1, Len(inner)))
ModuleParamOf(inner) ==
  IF Succeeds(inner)
    THEN AfterFwStatus(inner.value, Read(IoctlFwModuleParam, inner.value))
    ELSE inner
WindowsPayload(body) ==
  ModuleParamOf(FromBodyBuffer(body, "ModuleHandler", "ModuleHandler"))

(* ioctl(), for a value of type T in one buffer: the header of the answer  *)
(* and its status are read out of the try block, so that an answer too     *)
(* short for them is not reported as the caller's exception.               *)
WholeValue(read, body) ==
  IF read.ok /\ IsEOS(read, body) THEN Returns(read.value)
                                  ELSE Throws("Perf")
ValueOfBody(T, body) ==
  IF Succeeds(body) THEN WholeValue(Read(T, body.value), body.value) ELSE body
ValueAfterHeader(T, header, buffer) ==
  IF header.ok
    THEN ValueOfBody(T, FromBodyBuffer(
           SubSeq(buffer, header.pos + 1, Len(buffer)), "ByteStream", "Perf"))
    ELSE Throws("ByteStream")
IoctlPayload(T, buffer) ==
  ValueAfterHeader(T, Read(Intc_App_Cmd_Header, buffer), buffer)
=============================================================================

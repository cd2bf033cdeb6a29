--------------------------------- MODULE Tlv --------------------------------
(***************************************************************************)
(* TLV lists (Tlv): tag, length and value, one after the other.  A         *)
(* dictionary gives, for each tag it knows, the variable the value is read *)
(* into and its layout; each variable has a flag that says whether its     *)
(* content is valid (a vector has none: it is valid unless it is empty).   *)
(*                                                                         *)
(* The dictionaries are those of the three parameters the agent reads as   *)
(* TLV lists.  The tags are numbered in the order of their enumerations.   *)
(***************************************************************************)
EXTENDS DspFw

Value(tag, name, T)  == [tag |-> tag, name |-> name, wrapper |-> "value",
                         type |-> T]
Vector(tag, name, T) == [tag |-> tag, name |-> name, wrapper |-> "vector",
                         type |-> VectorOf(T)]

FwConfig ==
  { Value(0, "fwVersion", FwVersion),
    Value(1, "memoryReclaimed", U32),
    Value(2, "slowClockFreqHz", U32),
    Value(3, "fastClockFreqHz", U32),
    Vector(4, "dmaBufferConfig", DmaBufferConfig),
    Value(5, "alhSupportLevel", U32),
    Value(6, "ipcDlMailboxBytes", U32),
    Value(7, "ipcUlMailboxBytes", U32),
    Value(8, "traceLogBytes", U32),
    Value(9, "maxPplCount", U32),
    Value(10, "maxAstateCount", U32),
    Value(11, "maxModulePinCount", U32),
    Value(12, "modulesCount", U32),
    Value(13, "maxModInstCount", U32),
    Value(14, "maxLlTasksPerPriCount", U32),
    Value(15, "llPriCount", U32),
    Value(16, "maxDpTasksCount", U32),
    Value(17, "maxLibsCount", U32) }

HwConfig ==
  { Value(0, "cavsVersion", U32),
    Value(1, "dspCoreCount", U32),
    Value(2, "memPageSize", U32),
    Value(3, "totalPhysicalMemoryPage", U32),
    Value(4, "i2sCaps", I2sCapabilities),
    Value(5, "gpdmaCaps", GpdmaCapabilities),
    Value(6, "gatewayCount", U32),
    Value(7, "hpEbbCount", U32),
    Value(8, "lpEbbCount", U32),
    Value(9, "ebbSizeBytes", U32) }

GlobalMemoryState ==
  { Value(0, "lpsramState", SramStateInfo),
    Value(1, "hpsramState", SramStateInfo) }

Variables(dictionary) == {e.name : e \in dictionary}
EntryNamed(dictionary, name) == CHOOSE e \in dictionary : e.name = name

(* getTlvWrapperForTag: a set, which is empty for a tag nobody knows. *)
TlvWrapperForTag(dictionary, bytes) ==
  {e \in dictionary : e.tag = Count(bytes)}

(* The constructor of TlvUnpack invalidates every variable. *)
InvalidateAll(dictionary) ==
  [v \in Variables(dictionary) |->
     [valid |-> FALSE,
      value |-> Filled(EntryNamed(dictionary, v).type, 0)]]

-----------------------------------------------------------------------------
(* readFrom().  A simple value is read over the one the variable holds: a  *)
(* failure leaves its flag as it was.  A vector is emptied first, and      *)
(* filled until the end of the value; an element has a byte at least.      *)
ReadToEnd(T, source) ==
  LET read[n \in 0 .. Len(source)] ==
        IF n = 0
          THEN [ok |-> TRUE, value |-> << >>, pos |-> 0]
          ELSE IF ~read[n - 1].ok \/ IsEOS(read[n - 1], source)
            THEN read[n - 1]
            ELSE Push(read[n - 1],
                      ReadInto(T.of, Filled(T.of, 0), source,
                               read[n - 1].pos))
  IN  read[Len(source)].value

ValueOver(variable, read, source) ==
  [value |-> read.value,
   valid |-> variable.valid \/ (read.ok /\ IsEOS(read, source))]

ReadFrom(entry, variable, source) ==
  IF entry.wrapper = "vector"
    THEN [variable EXCEPT !.value = ReadToEnd(entry.type, source)]
    ELSE ValueOver(variable, ReadInto(entry.type, variable.value, source, 0),
                   source)

(* readNext(), up to the end of the stream.  What it throws (a value cut   *)
(* short, a tag nobody knows, a value that does not fit) leaves the stream *)
(* after the item: readTlvParameters reports the error and goes on.        *)
TlvHeader == Struct(<< <<"tag", U32>>, <<"length", U32>> >>)

ReadNext(dictionary, shadow, header, source) ==
  LET known == TlvWrapperForTag(dictionary, header.tag)
  IN  [v \in DOMAIN shadow |->
         IF \E e \in known : e.name = v
           THEN ReadFrom(EntryNamed(dictionary, v), shadow[v], source)
           ELSE shadow[v]]

EndOfItem(header) == header.pos + Count(header.value.length)

(* The list that is left, and what the variables have become, after one    *)
(* more item: nothing changes once there is no whole item left.  An item   *)
(* has eight bytes at least.                                               *)
ReadItem(dictionary, header, list) ==
  IF ~header.ok \/ EndOfItem(header) > Len(list.rest)
    THEN list
    ELSE [shadow |-> ReadNext(dictionary, list.shadow, header.value,
                              SubSeq(list.rest, header.pos + 1,
                                     EndOfItem(header))),
          rest   |-> SubSeq(list.rest, EndOfItem(header) + 1,
                            Len(list.rest))]
ReadAll(dictionary, shadow, buffer) ==
  LET items == Len(buffer) \div 8
      list[n \in 0 .. items] ==
        IF n = 0
          THEN [shadow |-> shadow, rest |-> buffer]
          ELSE ReadItem(dictionary, Read(TlvHeader, list[n - 1].rest),
                        list[n - 1])
  IN  list[items].shadow

Unpack(dictionary, buffer) ==
  ReadAll(dictionary, InvalidateAll(dictionary), buffer)

(* What a firmware sends. *)
TlvItem(tag, value) == Bytes(4, tag) \o Bytes(4, Len(value)) \o value
=============================================================================

----------------------------- MODULE ByteStream -----------------------------
(***************************************************************************)
(* The byte streams of util: a value of a C++ type that is "serializable"  *)
(* is written to, and read from, a buffer of bytes.  What the layouts of   *)
(* DspFw leave to a parameter has its definition here; the configurations  *)
(* give each parameter the definition that models the code:                *)
(*   Filled <- FilledWith     SizeOf <- SizeOfType   ReadInto <- ReadOver  *)
(*   HeaderSize <- SizeInHeader                      Write <- Written      *)
(*                                                                         *)
(* A read has its destination as an argument, as in the code: a stream     *)
(* that ends too early leaves what it could read in it, and a vector is    *)
(* appended to whatever the destination held.                              *)
(***************************************************************************)
EXTENDS DspFw

(* Enums are encoded on 32 bits, and so is the size of a firmware array.   *)
EnumSize      == 4
ArraySizeType == IntType(4)

Names(T) == {T.fields[i][1] : i \in DOMAIN T.fields}

(* A value of type T whose integers are all made of one byte: zeros stand  *)
(* for a destination nobody has written to yet.                            *)
RECURSIVE FilledWith(_, _)
FilledWith(T, byte) ==
  CASE T.kind = "int"    -> [i \in 1 .. T.size |-> byte]
    [] T.kind = "enum"   -> [i \in 1 .. EnumSize |-> byte]
    [] T.kind = "array"  -> [i \in 1 .. T.count |-> FilledWith(T.of, byte)]
    [] T.kind = "vector" -> << >>
    [] T.kind = "struct" ->
         [f \in Names(T) |->
            LET i == CHOOSE i \in DOMAIN T.fields : T.fields[i][1] = f
            IN  FilledWith(T.fields[i][2], byte)]

(* sizeof(T), for the types without a vector. *)
RECURSIVE SizeOfType(_)
SizeOfType(T) ==
  CASE T.kind = "int"    -> T.size
    [] T.kind = "enum"   -> EnumSize
    [] T.kind = "array"  -> T.count * SizeOfType(T.of)
    [] T.kind = "struct" ->
         FoldLeft(LAMBDA sum, field : sum + SizeOfType(field[2]), 0, T.fields)

(* A vector of the layout is, in the C structures of the firmware's        *)
(* headers, a count followed by an array of one item.                      *)
RECURSIVE SizeInHeader(_)
SizeInHeader(T) ==
  CASE T.kind = "vector" -> 4 + SizeInHeader(T.of)
    [] T.kind = "array"  -> T.count * SizeInHeader(T.of)
    [] T.kind = "struct" ->
         FoldLeft(LAMBDA sum, field : sum + SizeInHeader(field[2]),
                  0, T.fields)
    [] OTHER -> SizeOfType(T)

-----------------------------------------------------------------------------
(* MemoryInputStream::read: as many bytes as there are, up to the size of  *)
(* the destination, and the others keep the value they had.                *)
ReadUsingMemoryCopy(size, old, buffer, pos) ==
  LET n == IF size <= Len(buffer) - pos THEN size ELSE Len(buffer) - pos
  IN  [ok    |-> n = size,
       value |-> [i \in 1 .. size |-> IF i <= n THEN buffer[pos + i]
                                                ELSE old[i]],
       pos   |-> pos + n]

(* An enum is read aside, and assigned once complete. *)
OrKeep(old, read) == IF read.ok THEN read ELSE [read EXCEPT !.value = old]

(* The read of a part, in the read of the whole. *)
Within(whole, key, read) ==
  [read EXCEPT !.value = [whole.value EXCEPT ![key] = read.value]]

RECURSIVE ReadOver(_, _, _, _), PushItems(_, _, _, _)

(* The fields of a structure, or the items of an array, each <<key, type>>, *)
(* one after the other up to the one that fails.                           *)
ReadParts(parts, old, buffer, pos) ==
  FoldLeft(LAMBDA read, part :
             IF read.ok
               THEN Within(read, part[1],
                           ReadOver(part[2], read.value[part[1]],
                                    buffer, read.pos))
               ELSE read,
           [ok |-> TRUE, value |-> old, pos |-> pos], parts)

(* The elements of a vector, one after the other. *)
PushItems(T, read, buffer, remaining) ==
  IF remaining = 0 \/ ~read.ok
    THEN read
    ELSE PushItems(T, Push(read, ReadOver(T.of, FilledWith(T.of, 0), buffer,
                                          read.pos)),
                   buffer, remaining - 1)
ReadElements(T, old, buffer, size) ==
  IF size.ok THEN PushItems(T, [size EXCEPT !.value = old], buffer,
                            Count(size.value))
             ELSE [size EXCEPT !.value = old]

ReadOver(T, old, buffer, pos) ==
  CASE T.kind = "int"    -> ReadUsingMemoryCopy(T.size, old, buffer, pos)
    [] T.kind = "enum"   ->
         OrKeep(old, ReadUsingMemoryCopy(EnumSize, FilledWith(T, 0), buffer,
                                         pos))
    [] T.kind = "array"  ->
         ReadParts([i \in 1 .. T.count |-> << i, T.of >>], old, buffer, pos)
    [] T.kind = "vector" ->
         ReadElements(T, old, buffer,
                      ReadUsingMemoryCopy(4, FilledWith(ArraySizeType, 0),
                                          buffer, pos))
    [] T.kind = "struct" -> ReadParts(T.fields, old, buffer, pos)

-----------------------------------------------------------------------------
(* ByteStreamWriter::write, on a buffer that grows. *)
RECURSIVE Written(_, _)
Written(T, value) ==
  CASE T.kind \in {"int", "enum"} -> value
    [] T.kind = "array"  ->
         FlattenSeq([i \in 1 .. T.count |-> Written(T.of, value[i])])
    [] T.kind = "vector" ->
         Bytes(4, Len(value))
           \o FlattenSeq([i \in DOMAIN value |-> Written(T.of, value[i])])
    [] T.kind = "struct" ->
         FlattenSeq([i \in DOMAIN T.fields |->
                       Written(T.fields[i][2], value[T.fields[i][1]])])
=============================================================================

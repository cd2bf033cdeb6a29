------------------------------- MODULE IfdkXml -------------------------------
(***************************************************************************)
(* The XML form of the IFDK objects that the agent serves: the visitors    *)
(* that write an object and read it back, for any schema.  A schema says    *)
(* which class derives from which, which parts and elements an object has,  *)
(* and which attributes the serializer writes and the deserializer asks     *)
(* for; InstanceSchema and TypeSchema give the two schemas of the code.     *)
(***************************************************************************)
EXTENDS Integers, Sequences, SequencesExt

CONSTANTS Classes,   \* the class of an object: see the header of a schema
          Tags,      \* the XML tag of a class (the traits)
          Written,   \* per visited class: XML attribute -> field, as written
          Required   \* per visited class: field -> XML attribute, as read

Merged(fs) == FoldSeq(LAMBDA f, rest : f @@ rest, <<>>, fs)

\* The enter() methods a visit of an object of class c calls, derived class
\* first, and what the given table says of them.
PerLayer(c, table) ==
    Merged([i \in DOMAIN Classes[c].enter |->
              IF Classes[c].enter[i] \in DOMAIN table
              THEN table[Classes[c].enter[i]] ELSE <<>>])

\* A default constructed object: empty fields, default constructed parts, no
\* element.
Default(c) ==
    LET default[k \in DOMAIN Classes] ==
            [class    |-> k,
             fields   |-> [f \in DOMAIN PerLayer(k, Required) |-> ""],
             text     |-> "",
             parts    |-> [p \in Range(Classes[k].parts) |-> default[p]],
             elements |-> <<>>]
    IN  default[c]

\* An object of class c whose fields have the given values.
New(c, fields) == [Default(c) EXCEPT !.fields = fields @@ @]

\* A list object with these elements.
ListOf(c, elements) == [Default(c) EXCEPT !.elements = elements]
Named(c, name, elements) ==
    [New(c, [name |-> name]) EXCEPT !.elements = elements]

-----------------------------------------------------------------------------
(* Serializer: enter() pushes an element and sets its attributes, the parts *)
(* of the base class come before those of the derived one, elements last.   *)

Members(o) ==
    [i \in DOMAIN Classes[o.class].parts |-> o.parts[Classes[o.class].parts[i]]]
        \o o.elements

\* Bound: levels of objects in an object, whatever its class.
MaxDepth == 5

\* A tree and the trees below it.
Within(tree, Branches(_)) ==
    LET level[d \in 0..MaxDepth] ==
            IF d = 0 THEN {tree}
            ELSE level[d - 1] \cup UNION {Range(Branches(b)) : b \in level[d - 1]}
    IN  level[MaxDepth]

Write(object) ==
    LET write[o \in Within(object, Members)] ==
            LET written == PerLayer(o.class, Written)
            IN  [tag        |-> Tags[o.class],
                 attributes |-> [a \in DOMAIN written |-> o.fields[written[a]]],
                 text       |-> IF Classes[o.class].text THEN o.text ELSE "",
                 children   |-> [i \in DOMAIN Members(o) |-> write[Members(o)[i]]]]
    IN  write[object]

-----------------------------------------------------------------------------
(* Deserializer.                                                            *)

Failed == [class |-> "exception"]

\* createInstanceFromTag(): the first class of the list with this tag.
FromTag(tag, list) ==
    LET fitting == {i \in DOMAIN list : Tags[list[i]] = tag}
    IN  IF fitting = {} THEN "none"
        ELSE list[CHOOSE i \in fitting : \A j \in fitting : i <= j]

\* The classes of the objects a list will hold once its element is entered:
\* resize() to the number of child elements, or one object per child's tag.
Listed(c, e) ==
    CASE Classes[c].list = "none"    -> <<>>
      [] Classes[c].list = "resized" -> [i \in DOMAIN e.children |-> Classes[c].of[1]]
      [] Classes[c].list = "factory" ->
            [i \in DOMAIN e.children |-> FromTag(e.children[i].tag, Classes[c].of)]

\* Visits objects of these classes one after another, with the given way to
\* read one: each takes the first child with its tag (pushElement) and removes
\* it when left (popElement).
ReadAll(classes, children, ReadOne(_, _)) ==
    FoldLeft(LAMBDA done, c :
                LET same == {i \in DOMAIN done.left : done.left[i].tag = Tags[c]}
                    at   == CHOOSE i \in same : \A j \in same : i <= j
                IN  IF ~done.ok \/ same = {} THEN [done EXCEPT !.ok = FALSE]
                    ELSE LET o == ReadOne(c, done.left[at])
                         IN  [ok   |-> o # Failed,
                              read |-> Append(done.read, o),
                              left |-> RemoveAt(done.left, at)],
             [ok |-> TRUE, read |-> <<>>, left |-> children], classes)

Read(class, element) ==
    LET read[c \in DOMAIN Classes, e \in Within(element, LAMBDA x : x.children)] ==
            LET required == PerLayer(c, Required)
                listed   == Listed(c, e)
                parts    == Classes[c].parts
                visited  == ReadAll(parts \o listed, e.children, LAMBDA k, x : read[k, x])
            IN  IF \/ e.tag # Tags[c]
                   \/ \E f \in DOMAIN required : required[f] \notin DOMAIN e.attributes
                   \/ "none" \in Range(listed)
                   \/ ~visited.ok
                THEN Failed
                ELSE [class    |-> c,
                      fields   |-> [f \in DOMAIN required |-> e.attributes[required[f]]],
                      text     |-> e.text,
                      parts    |-> [p \in Range(parts) |->
                                      visited.read[CHOOSE i \in DOMAIN parts : parts[i] = p]],
                      elements |-> SubSeq(visited.read, Len(parts) + 1, Len(visited.read))]
    IN  read[class, element]

RoundTrips(o) == Read(o.class, Write(o)) = o
==============================================================================

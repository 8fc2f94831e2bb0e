--------------------------- MODULE ResponseValue ---------------------------
(***************************************************************************)
(* A response value as the program holds it: a variant of one type, which  *)
(* may also be a pointer to a constant value that others hold.  A call     *)
(* that changes the value copies what it points to first.  A map keeps its *)
(* members in their order and, to find them, the indices of the members in *)
(* the order of their names.                                               *)
(*                                                                         *)
(* Values are those of ResponseJson but for <<"Map", [map, members]>>,     *)
(* <<"Shared", value>>, <<"String", <<text, flags>>>>, flags being a set   *)
(* of "json" and "input", and <<"Scalar", <<value>>>>, or <<>> of none.    *)
(***************************************************************************)
EXTENDS ResponseJson

CONSTANTS
  Alphabet,   \* the names of members, in their order
  Leaves,     \* values that are set, or added to maps and lists
  MaxMembers, \* bound on maps and lists
  MaxShared   \* bound on values shared by values

VARIABLE held \* the value that calls are made on

Error == <<"error", 0>>
Done(value, result) == [value |-> value, result |-> result]
Fails(value) == Done(value, Error)

-----------------------------------------------------------------------------
(* Identifiers: bytes, or a text that may be Base64.                       *)

EmptyId(id) == <<id[1], <<>>>>
IsBase64(id) == id[1] = "bytes" \/ Base!ValidateBase64(id[2])
Size(id) == Len(id[2])

\* What gives access to the bytes needs bytes; only release converts.
Bytes(id) == IF id[1] = "bytes" THEN <<"bytes", id[2]>> ELSE Error
Opaque(id) == IF id[1] = "opaque" THEN <<"text", id[2]>> ELSE Error
ReleaseBytes(id) ==
  IF id[1] = "bytes" THEN <<"bytes", id[2]>>
  ELSE IF Base!Throws(id[2]) THEN Error ELSE <<"bytes", Base!Decode(id[2])>>
ReleaseOpaque(id) == <<"text", IF id[1] = "opaque" THEN id[2] ELSE Base!Encode(id[2])>>

-----------------------------------------------------------------------------
(* Types, copies and shared values.                                        *)

EmptyMap == [map |-> <<>>, members |-> <<>>]

\* Value(Type).
ValueOfType(type) ==
  <<type, CASE type = "Map" -> EmptyMap
            [] type \in {"List", "EnumValue", "Scalar"} -> <<>>
            [] type = "String" -> <<<<>>, {}>>
            [] type = "ID" -> <<"bytes", <<>>>>
            [] type = "Boolean" -> FALSE
            [] type \in {"Null", "Int", "Float"} -> 0>>

RECURSIVE Data(_)
Data(value) == IF value[1] = "Shared" THEN Data(value[2]) ELSE value
TypeOf(value) == Type(Data(value))

NameLess(a, b) ==
  (CHOOSE i \in DOMAIN Alphabet : Alphabet[i] = a) < (CHOOSE i \in DOMAIN Alphabet : Alphabet[i] = b)

\* Mutant of SortedIndices: a copy has its indices in the order of the members.
IndicesInOrder(map) == [i \in DOMAIN map |-> i]

SortedIndices(map) ==
  SetToSortSeq({i \in DOMAIN map : \A j \in 1..(i - 1) : map[j][1] # map[i][1]},
               LAMBDA i, j : NameLess(map[i][1], map[j][1]))

\* A scalar that was never set, or was released, can not be copied.
RECURSIVE CanCopy(_)
CanCopy(value) ==
  CASE value[1] = "Map" -> \A i \in DOMAIN value[2].map : CanCopy(value[2].map[i][2])
    [] value[1] = "List" -> \A i \in DOMAIN value[2] : CanCopy(value[2][i])
    [] value[1] = "Scalar" -> value[2] # <<>>
    [] OTHER -> TRUE

\* A copy of a shared value shares it.
RECURSIVE Copy(_)
Copy(value) ==
  CASE value[1] = "Map" ->
         LET map == [i \in DOMAIN value[2].map |-> <<value[2].map[i][1], Copy(value[2].map[i][2])>>]
         IN  <<"Map", [map |-> map, members |-> SortedIndices(map)]>>
    [] value[1] = "List" -> <<"List", [i \in DOMAIN value[2] |-> Copy(value[2][i])]>>
    [] OTHER -> value

\* Mutant of Unshared: a value that is shared is not copied.
StillShared(value) == value

\* What each call that changes a value begins with.
Unshared(value) == IF value[1] = "Shared" THEN Copy(value[2]) ELSE value

-----------------------------------------------------------------------------
(* Values of one type.                                                     *)

SetString(value, text) ==
  CASE value[1] = "EnumValue" -> Done(<<"EnumValue", text>>, Null)
    [] value[1] = "ID" -> Done(<<"ID", <<"opaque", text>>>>, Null)
    [] value[1] = "String" -> Done(<<"String", <<text, value[2][2]>>>>, Null)
    [] OTHER -> Fails(value)

SetInt(value, n) == IF value[1] \in {"Int", "Float"} THEN Done(<<value[1], n>>, Null) ELSE Fails(value)
SetOther(value, leaf) == IF value[1] = leaf[1] THEN Done(leaf, Null) ELSE Fails(value)

GetMap(value) == IF value[1] = "Map" THEN <<"Members", value[2].map>> ELSE Error
GetString(value) ==
  CASE value[1] = "EnumValue" -> <<"text", value[2]>>
    [] value[1] = "ID" -> Opaque(value[2])
    [] value[1] = "String" -> <<"text", value[2][1]>>
    [] OTHER -> Error
GetFloat(value) == IF value[1] \in {"Int", "Float"} THEN <<"Float", value[2]>> ELSE Error
GetScalar(value) == IF value[1] = "Scalar" /\ value[2] # <<>> THEN value ELSE Error
GetOther(value, type) == IF value[1] = type THEN value ELSE Error

Get(value, type) ==
  CASE type = "Map" -> GetMap(Data(value))
    [] type = "String" -> GetString(Data(value))
    [] type = "Float" -> GetFloat(Data(value))
    [] type = "Scalar" -> GetScalar(Data(value))
    [] type \in {"List", "Boolean", "Int", "ID"} -> GetOther(Data(value), type)

ReleaseMap(value) ==
  IF value[1] = "Map" THEN Done(ValueOfType("Map"), <<"Members", value[2].map>>) ELSE Fails(value)
ReleaseList(value) == IF value[1] = "List" THEN Done(ValueOfType("List"), value) ELSE Fails(value)
ReleaseString(value) ==
  CASE value[1] = "EnumValue" -> Done(ValueOfType("EnumValue"), <<"text", value[2]>>)
    [] value[1] = "ID" -> Done(<<"ID", EmptyId(value[2])>>, ReleaseOpaque(value[2]))
    [] value[1] = "String" -> Done(ValueOfType("String"), <<"text", value[2][1]>>)
    [] OTHER -> Fails(value)
ReleaseScalar(value) ==
  IF value[1] = "Scalar" /\ value[2] # <<>> THEN Done(ValueOfType("Scalar"), value) ELSE Fails(value)
\* Of a string that was read, its text; its flags stay.
ReleaseId(value) ==
  IF value[1] = "ID" THEN Done(<<"ID", EmptyId(value[2])>>, value)
  ELSE IF value[1] = "String" /\ value[2][2] # {}
  THEN Done(<<"String", <<<<>>, value[2][2]>>>>, <<"ID", <<"opaque", value[2][1]>>>>)
  ELSE Fails(value)

-----------------------------------------------------------------------------
(* Maps and lists.                                                         *)

\* equal_range over the indices: from the first that is not less to the first
\* that is greater.
RangeOf(data, name) ==
  LET NameAt(i) == data.map[data.members[i]][1]
  IN  [first |-> Cardinality({i \in DOMAIN data.members : NameLess(NameAt(i), name)}) + 1,
       last |-> Cardinality({i \in DOMAIN data.members : ~NameLess(name, NameAt(i))}) + 1]

EmplaceBack(value, name, member) ==
  IF value[1] # "Map" THEN Fails(value)
  ELSE LET range == RangeOf(value[2], name)
       IN  IF range.first # range.last THEN Done(value, <<"Boolean", FALSE>>)
           ELSE Done(<<"Map", [map |-> Append(value[2].map, <<name, member>>),
                               members |-> InsertAt(value[2].members, range.first, Len(value[2].members) + 1)]>>,
                     <<"Boolean", TRUE>>)

\* The index of a member, or none for the end.
Find(value, name) ==
  IF value[1] # "Map" THEN Error
  ELSE LET range == RangeOf(value[2], name)
       IN  IF range.first = range.last THEN <<"end", 0>> ELSE <<"at", value[2].members[range.first]>>
Member(value, name) ==
  LET found == Find(value, name)
  IN  IF found[1] = "at" THEN value[2].map[found[2]][2] ELSE Error

AddElement(value, element) ==
  IF value[1] = "List" THEN Done(<<"List", Append(value[2], element)>>, Null) ELSE Fails(value)
Element(value, index) == IF value[1] = "List" /\ index + 1 \in DOMAIN value[2] THEN value[2][index + 1] ELSE Error
SizeOf(value) ==
  IF value[1] = "Map" THEN <<"Int", Len(value[2].map)>>
  ELSE IF value[1] = "List" THEN <<"Int", Len(value[2])>> ELSE Error
Reserve(value) == IF value[1] \in {"Map", "List"} THEN Done(value, Null) ELSE Fails(value)

-----------------------------------------------------------------------------
(* Strings that were read, and equality.                                   *)

\* Only of the value's own string, not of one that it shares.
Mark(value, flag) ==
  Done(IF value[1] = "String" THEN <<"String", <<value[2][1], value[2][2] \cup {flag}>>>> ELSE value, Null)
ValueMaybeEnum(value) == value[1] = "EnumValue" \/ (value[1] = "String" /\ "json" \in value[2][2])
ValueMaybeId(value) == value[1] = "ID" \/ (value[1] = "String" /\ value[2][2] # {})

\* Ids to the left of a value of another type are not compared: the program ends.
RECURSIVE Equal(_, _)
SameData(a, b) ==
  CASE a[1] = "Map" ->
         /\ DOMAIN a[2].map = DOMAIN b[2].map
         /\ \A i \in DOMAIN a[2].map : a[2].map[i][1] = b[2].map[i][1] /\ Equal(a[2].map[i][2], b[2].map[i][2])
    [] a[1] = "List" -> DOMAIN a[2] = DOMAIN b[2] /\ \A i \in DOMAIN a[2] : Equal(a[2][i], b[2][i])
    [] a[1] = "String" -> a[2][1] = b[2][1] /\ (a[2][2] = {}) = (b[2][2] = {})
    [] a[1] = "ID" -> Base!IdEqual(a[2], b[2])
    [] a[1] = "Scalar" -> DOMAIN a[2] = DOMAIN b[2] /\ \A i \in DOMAIN a[2] : Equal(a[2][i], b[2][i])
    [] OTHER -> a[2] = b[2]
EqualData(a, b) ==
  IF a[1] = b[1] THEN SameData(a, b)
  ELSE IF a[1] = "String" /\ b[1] = "EnumValue" THEN "json" \in a[2][2] /\ a[2][1] = b[2]
  ELSE IF a[1] = "EnumValue" /\ b[1] = "String" THEN "json" \in b[2][2] /\ a[2] = b[2][1]
  ELSE a[1] = "String" /\ b[1] = "ID" /\ a[2][2] # {} /\ Base!IdEqual(b[2], <<"opaque", a[2][1]>>)
Equal(a, b) == EqualData(Data(a), Data(b))
EqualEnds(a, b) == TypeOf(a) = "ID" /\ TypeOf(b) # "ID"

-----------------------------------------------------------------------------
(* Calls, as pairs of what is called and what with.                        *)

Queries ==
  {<<"get", type>> : type \in {"Map", "String", "Float", "Scalar", "List", "Boolean", "Int", "ID"}}
    \cup {<<"find", i>> : i \in DOMAIN Alphabet} \cup {<<"member", i>> : i \in DOMAIN Alphabet}
    \cup {<<"element", i>> : i \in 0..MaxMembers} \cup {<<"size", 0>>, <<"maybe_enum", 0>>, <<"maybe_id", 0>>}
Answer(query, value) ==
  LET data == Data(value)
  IN  CASE query[1] = "get" -> Get(value, query[2])
        [] query[1] = "find" -> Find(data, Alphabet[query[2]])
        [] query[1] = "member" -> Member(data, Alphabet[query[2]])
        [] query[1] = "element" -> Element(data, query[2])
        [] query[1] = "size" -> SizeOf(data)
        [] query[1] = "maybe_enum" -> <<"Boolean", ValueMaybeEnum(data)>>
        [] query[1] = "maybe_id" -> <<"Boolean", ValueMaybeId(data)>>

Changes ==
  {<<"set", leaf>> : leaf \in {<<"Boolean", TRUE>>, <<"Float", 1>>}
                                 \cup {leaf \in Leaves : leaf[1] \in {"String", "Int", "Scalar", "ID"}}}
    \cup {<<"release", type>> : type \in {"Map", "List", "String", "Scalar", "ID"}}
    \cup {<<"emplace_back", <<i, leaf>>>> : i \in DOMAIN Alphabet, leaf \in Leaves}
    \cup {<<"add", leaf>> : leaf \in Leaves} \cup {<<"reserve", 0>>}
Change(change, value) ==
  CASE change[1] = "set" /\ change[2][1] = "String" -> SetString(value, change[2][2][1])
    [] change[1] = "set" /\ change[2][1] = "Int" -> SetInt(value, change[2][2])
    [] change[1] = "set" /\ change[2][1] \notin {"String", "Int"} -> SetOther(value, change[2])
    [] change[1] = "release" /\ change[2] = "Map" -> ReleaseMap(value)
    [] change[1] = "release" /\ change[2] = "List" -> ReleaseList(value)
    [] change[1] = "release" /\ change[2] = "String" -> ReleaseString(value)
    [] change[1] = "release" /\ change[2] = "Scalar" -> ReleaseScalar(value)
    [] change[1] = "release" /\ change[2] = "ID" -> ReleaseId(value)
    [] change[1] = "emplace_back" -> EmplaceBack(value, Alphabet[change[2][1]], change[2][2])
    [] change[1] = "add" -> AddElement(value, change[2])
    [] change[1] = "reserve" -> Reserve(value)

\* A scalar that is shared without a value can not be copied.
Made(change, value) ==
  IF value[1] = "Shared" /\ ~CanCopy(value[2]) THEN Fails(value) ELSE Change(change, Unshared(value))

RECURSIVE Depth(_)
Depth(value) == IF value[1] = "Shared" THEN Depth(value[2]) + 1 ELSE 0
Large(value) ==
  \/ TypeOf(value) = "Map" /\ Len(Data(value)[2].map) >= MaxMembers
  \/ TypeOf(value) = "List" /\ Len(Data(value)[2]) >= MaxMembers

ValueInit == held \in {ValueOfType(type) : type \in {"Map", "List", "String", "Null", "Boolean", "Int", "Float", "EnumValue", "ID", "Scalar"}}
MakeChange ==
  \E change \in Changes :
    /\ change[1] \in {"emplace_back", "add"} => ~Large(held)
    /\ held' = Made(change, held).value
MarkRead == \E flag \in {"json", "input"} : held' = Mark(held, flag).value
Share == Depth(held) < MaxShared /\ held' = <<"Shared", held>>
CopyHeld == CanCopy(held) /\ held' = Copy(held)

ValueNext == MakeChange \/ MarkRead \/ Share \/ CopyHeld

-----------------------------------------------------------------------------
\* The value as it would be if nothing were shared.
RECURSIVE Plain(_)
Plain(value) ==
  CASE value[1] = "Shared" -> Plain(value[2])
    [] value[1] = "Map" ->
         <<"Map", [map |-> [i \in DOMAIN value[2].map |-> <<value[2].map[i][1], Plain(value[2].map[i][2])>>],
                   members |-> value[2].members]>>
    [] value[1] = "List" -> <<"List", [i \in DOMAIN value[2] |-> Plain(value[2][i])]>>
    [] OTHER -> value
PlainAnswer(answer) ==
  IF answer[1] # "Members" THEN Plain(answer)
  ELSE <<"Members", [i \in DOMAIN answer[2] |-> <<answer[2][i][1], Plain(answer[2][i][2])>>]>>

\* A member is found by its name, whatever order members were added in, and
\* there is no second member of a name.
FindsMembers ==
  TypeOf(held) = "Map" =>
    LET map == Data(held)[2].map
    IN  /\ IsInjective([i \in DOMAIN map |-> map[i][1]])
        /\ \A k \in DOMAIN Alphabet :
             LET found == Find(Data(held), Alphabet[k])
             IN  IF \E i \in DOMAIN map : map[i][1] = Alphabet[k]
                 THEN found[1] = "at" /\ map[found[2]][1] = Alphabet[k]
                 ELSE found[1] = "end"

\* Who holds a value can not tell whether it is shared: it answers alike, and a
\* change leaves alike what it is made on.  Only what is shared by a value that
\* is shared itself, or can not be copied, can not be changed at all.
SharedIsAlike ==
  /\ \A query \in Queries : PlainAnswer(Answer(query, held)) = PlainAnswer(Answer(query, Plain(held)))
  /\ \A change \in Changes :
       LET made == Made(change, held)
           plain == Made(change, Plain(held))
       IN  \/ made.result = Error /\ (Depth(held) > 1 \/ ~CanCopy(Data(held)))
           \/ PlainAnswer(made.result) = PlainAnswer(plain.result) /\ Plain(made.value) = Plain(plain.value)

\* Values are equal to themselves, to what they are when nothing is shared and
\* to their copies, and equality has no sides, but for an id.
EqualityHasNoSides ==
  /\ Equal(held, held) /\ Equal(held, Plain(held)) /\ Equal(Plain(held), held)
  /\ CanCopy(held) => Equal(held, Copy(held))
  /\ \A leaf \in Leaves : ~EqualEnds(held, leaf) /\ ~EqualEnds(leaf, held) => (Equal(held, leaf) <=> Equal(leaf, held))

\* An id can be released as bytes exactly if it is Base64, which are then those
\* that it gives access to, and is the same id as its text, which is only empty
\* if the id is.
IdsAreReleased ==
  TypeOf(held) = "ID" =>
    LET id == Data(held)[2]
        text == ReleaseString(Data(held)).result[2]
    IN  /\ IsBase64(id) <=> ReleaseBytes(id) # Error
        /\ Bytes(id) \in {Error, ReleaseBytes(id)} /\ Opaque(id) \in {Error, <<"text", text>>}
        /\ Size(id) = 0 <=> text = <<>>
        /\ Equal(held, SetString(Data(held), text).value)
        /\ IsBase64(id) => ReleaseBytes(<<"opaque", text>>) = ReleaseBytes(id)

ValueFits == FindsMembers /\ SharedIsAlike /\ EqualityHasNoSides /\ IdsAreReleased
=============================================================================

-------------------------------- MODULE Amf --------------------------------
(***************************************************************************)
(* The AMF0 codec of amf.c: an invoke built through the API (amf_invoke_*, *)
(* amf_object_set, amf_array_set), written to bytes by this program or by  *)
(* a peer that also uses the two array forms, and parsed again.            *)
(*                                                                         *)
(* Everything is kept that decides where an element starts and ends: type  *)
(* bytes, length bytes, end marks.  What a number holds is a repeated byte.*)
(* What follows nested elements is a recursive function over the elements  *)
(* that are at most MaxDepth objects deep, or over the positions of a      *)
(* buffer; each has its body in an operator of its own.                    *)
(*                                                                         *)
(* AMF3 is not modelled: AMF_AVMPLUS (17), where amf.c:542-546 hands over  *)
(* to amf3.c, is read like a type that the code does not know.             *)
(***************************************************************************)
EXTENDS Integers, SequencesExt

CONSTANTS
    NULL,                   \* a pointer to nothing
    Base,                   \* values of a length byte, 256 in the code
    MaxElems, MaxMembers,   \* bounds: elements of an invoke, of an object
    MaxDepth,               \* bound: objects inside objects
    MaxMarks,               \* bound: bytes behind a buffer that read as end marks
    Keys, Strs,             \* strings that are used
    Values                  \* elements that are used inside others

ASSUME BaseAssumption == Base \in Nat /\ Base > 10
ASSUME BoundsAssumption ==
    MaxElems \in Nat /\ MaxMembers \in Nat /\ MaxMarks \in Nat /\ MaxDepth \in Nat \ {0}

VARIABLES
    inv,                    \* struct _invoke: elem (nmemb is its length), cur_elem
    wire,                   \* what was written, NULL before
    back                    \* what the parser returned

vars == <<inv, wire, back>>

AMF_NUMBER == 0
AMF_BOOLEAN == 1
AMF_STRING == 2
AMF_OBJECT == 3
AMF_NULL == 5
AMF_UNDEFINED == 6
AMF_ECMA_ARRAY == 8
AMF_OBJECT_END == 9
AMF_STRICT_ARRAY == 10

(* calloc gives an element whose other fields are empty *)
amf_alloc(t) == [type |-> t, num |-> 0, str |-> NULL, obj |-> <<>>]
amf_number(n) == [amf_alloc(AMF_NUMBER) EXCEPT !.num = n]
amf_bool(b) == [amf_alloc(AMF_BOOLEAN) EXCEPT !.num = IF b = 0 THEN 0 ELSE 1]
amf_string(s) == [amf_alloc(AMF_STRING) EXCEPT !.str = s]
(* a length of 0 gives no string where amf_string gives an empty one *)
amf_stringf(s) == amf_string(IF s = <<>> THEN NULL ELSE s)
amf_array(n) ==
    [amf_alloc(AMF_STRICT_ARRAY) EXCEPT
        !.obj = [i \in 1..n |-> [key |-> NULL, val |-> NULL]]]

----------------------------------------------------------------------------
(* What an element is: its type says which of the other fields is used.    *)
(* Strings end at a 0 and have their length written in two bytes; objects  *)
(* are in one another at most MaxDepth deep, and arrays are not in objects.*)

KeysDistinct(a) == a # NULL /\ a.type = AMF_OBJECT =>
    \A i, j \in DOMAIN a.obj : a.obj[i].key = a.obj[j].key => i = j

Strings == {s \in Seq(1..(Base - 1)) : Len(s) < Base * Base}

Plain ==
    [type : {AMF_NUMBER}, num : 0..(Base - 1), str : {NULL}, obj : {<<>>}]
        \cup [type : {AMF_BOOLEAN}, num : {0, 1}, str : {NULL}, obj : {<<>>}]
        \cup [type : {AMF_STRING}, num : {0}, str : Strings \cup {NULL}, obj : {<<>>}]
        \cup [type : {AMF_NULL, AMF_UNDEFINED}, num : {0}, str : {NULL}, obj : {<<>>}]

Objects(S) ==
    {a \in [type : {AMF_OBJECT}, num : {0}, str : {NULL},
            obj : Seq([key : Strings, val : S])] : KeysDistinct(a)}

Nested[d \in 0..MaxDepth] ==
    Plain \cup Objects(IF d = 0 THEN {} ELSE Nested[d - 1])

Element == Nested[MaxDepth]
Array == [type : {AMF_STRICT_ARRAY}, num : {0}, str : {NULL},
          obj : Seq([key : {NULL}, val : Element \cup {NULL}])]
Item == Element \cup Array \cup {NULL}

ASSUME ValuesAssumption ==
    /\ Keys \subseteq Strings /\ Strs \subseteq Strings
    /\ Values \subseteq Nested[MaxDepth - 1]
ASSUME NullAssumption ==
    NULL \notin Strings \cup Element \cup Array \cup Seq(Item)
                    \cup Seq([key : Strings, val : Element])

----------------------------------------------------------------------------
(* Objects: a list of members, looked up by key.                           *)

object_index(a, k) == {i \in DOMAIN a.obj : a.obj[i].key = k}

\* Mutant: a key that is there already is added a second time.
SetAppends(a, k, v) == [a EXCEPT !.obj = Append(@, [key |-> k, val |-> v])]

amf_object_set(a, k, v) ==
    IF object_index(a, k) = {}
    THEN [a EXCEPT !.obj = Append(@, [key |-> k, val |-> v])]
    ELSE [a EXCEPT !.obj = [i \in DOMAIN @ |->
            IF i \in object_index(a, k) THEN [@[i] EXCEPT !.val = v] ELSE @[i]]]

amf_array_set(a, i, v) == [a EXCEPT !.obj[i].val = v]

----------------------------------------------------------------------------
(* Writing.                                                                *)

amf_strlen(s) == IF s = NULL THEN 0 ELSE Len(s)

Total(ns) ==
    LET upto[n \in 0..Len(ns)] == IF n = 0 THEN 0 ELSE upto[n - 1] + ns[n]
    IN upto[Len(ns)]

\* Mutant: the end of an object is counted without its mark.
SizeNoMark(size, a) ==
    CASE a.type = AMF_NUMBER -> 9
      [] a.type = AMF_BOOLEAN -> 2
      [] a.type = AMF_STRING -> 3 + amf_strlen(a.str)
      [] a.type = AMF_OBJECT -> 3 + Total([i \in DOMAIN a.obj |->
            2 + amf_strlen(a.obj[i].key) + size[a.obj[i].val]])
      [] OTHER -> 1

SizeOf(size, a) ==
    CASE a.type = AMF_NUMBER -> 9
      [] a.type = AMF_BOOLEAN -> 2
      [] a.type = AMF_STRING -> 3 + amf_strlen(a.str)
      [] a.type = AMF_OBJECT -> 4 + Total([i \in DOMAIN a.obj |->
            2 + amf_strlen(a.obj[i].key) + size[a.obj[i].val]])
      [] OTHER -> 1
amf_size[a \in Element] == SizeOf(amf_size, a)

amf_invoke_buf_size(elems) ==
    Total([i \in DOMAIN elems |-> IF elems[i] = NULL THEN 1 ELSE amf_size[elems[i]]])

Bytes(s) == IF s = NULL THEN <<0, 0>> ELSE <<Len(s) \div Base, Len(s) % Base>> \o s
Times(n, x) == [i \in 1..n |-> x]

ToBuf(buf, a) == <<a.type>> \o
    CASE a.type = AMF_NUMBER -> Times(8, a.num)
      [] a.type = AMF_BOOLEAN -> <<a.num>>
      [] a.type = AMF_STRING -> Bytes(a.str)
      [] a.type = AMF_OBJECT -> FlattenSeq([i \in DOMAIN a.obj |->
            Bytes(a.obj[i].key) \o buf[a.obj[i].val]]) \o <<0, 0, AMF_OBJECT_END>>
      [] OTHER -> <<>>
amf_to_buf[a \in Element] == ToBuf(amf_to_buf, a)

amf_invoke_to_buf(elems) ==
    FlattenSeq([i \in DOMAIN elems |->
        IF elems[i] = NULL THEN <<AMF_NULL>> ELSE amf_to_buf[elems[i]]])

(* A peer writes the same, and has two more forms: an object with its      *)
(* number of members first, and an array.  The upper two bytes of the four *)
(* of a number of members are 0 in all invokes that are built here.        *)
Int32(n) == <<0, 0, n \div Base, n % Base>>
PeerElement(a) ==
    IF a.type = AMF_OBJECT
    THEN <<AMF_ECMA_ARRAY>> \o Int32(Len(a.obj)) \o Tail(amf_to_buf[a])
    ELSE amf_to_buf[a]
PeerBytes(a) ==
    IF a = NULL THEN <<AMF_NULL>>
    ELSE IF a.type = AMF_STRICT_ARRAY
    THEN <<AMF_STRICT_ARRAY>> \o Int32(Len(a.obj)) \o
            FlattenSeq([i \in DOMAIN a.obj |-> PeerElement(a.obj[i].val)])
    ELSE PeerElement(a)
PeerWrites(elems) == FlattenSeq([i \in DOMAIN elems |-> PeerBytes(elems[i])])

----------------------------------------------------------------------------
(* Parsing a buffer: its bytes, and how many of those behind it happen to  *)
(* read as end marks, for the parser looks at the byte where an element    *)
(* ends, in the buffer or not (amf.c:575, 602).  Positions count from 1;   *)
(* End is the first one behind the bytes.  val is NULL when the code       *)
(* returns NULL, and when an assertion stops it.                           *)

Pos == Nat \ {0}
End(b) == Len(b.bytes) + 1
At(b, p) ==
    IF p < End(b) THEN b.bytes[p]
    ELSE IF p < End(b) + b.marks THEN AMF_OBJECT_END ELSE 0
Size16(b, p) == Base * b.bytes[p] + b.bytes[p + 1]
Size32(b, p) == Base * Base * Size16(b, p) + Size16(b, p + 2)
Chars(b, p, q) ==       \* what strdup and %.*s take from p to before q
    LET zeros == {i \in p..(q - 1) : b.bytes[i] = 0}
    IN SubSeq(b.bytes, p, (IF zeros = {} THEN q ELSE Min(zeros)) - 1)
Parsed(a, p) == [val |-> a, next |-> p]
Failed == Parsed(NULL, 0)

(* the members from p to the end: the do ... while leaves the loop at an   *)
(* end mark, behind a key or where the next key would start                *)
ParseMembers(b, parse, p) ==
    LET v == p + 2 + Size16(b, p)
        e == parse["element"][v]
        m == [key |-> Chars(b, p + 2, v), val |-> e.val]
        rest == parse["members"][e.next]
    IN IF p + 2 >= End(b) \/ v > End(b) THEN Failed
       ELSE IF At(b, v) = AMF_OBJECT_END THEN Parsed(<<>>, v + 1)
       ELSE IF e.val = NULL THEN Failed
       ELSE IF At(b, e.next) = AMF_OBJECT_END THEN Parsed(<<m>>, e.next + 1)
       ELSE IF rest.val = NULL THEN Failed
       ELSE Parsed(<<m>> \o rest.val, rest.next)

Filled(ms) ==
    LET upto[n \in 0..Len(ms)] ==
            IF n = 0 THEN amf_alloc(AMF_OBJECT)
            ELSE amf_object_set(upto[n - 1], ms[n].key, ms[n].val)
    IN upto[Len(ms)]

ParseObject(b, parse, p) ==
    LET ms == parse["members"][p]
    IN IF ms.val = NULL THEN Failed ELSE Parsed(Filled(ms.val), ms.next)

(* every element is read from where the first one is: taken is not added   *)
ParseArray(b, parse, p) ==
    LET n == Size32(b, p)
        e == parse["element"][p + 4]
    IN IF p + 4 > End(b) \/ (n > 0 /\ e.val = NULL) THEN Failed
       ELSE Parsed([amf_array(n) EXCEPT
                !.obj = [i \in 1..n |-> [@[i] EXCEPT !.val = e.val]]], p + 4)

\* Mutant: the characters are copied and not stepped over.
ParseStringStays(b, p) ==
    LET q == p + 2 + Size16(b, p)
    IN IF p + 2 >= End(b) \/ q > End(b) THEN Failed
       ELSE Parsed(amf_stringf(Chars(b, p + 2, q)), p + 2)

ParseString(b, p) ==
    LET q == p + 2 + Size16(b, p)
    IN IF p + 2 >= End(b) \/ q > End(b) THEN Failed
       ELSE Parsed(amf_stringf(Chars(b, p + 2, q)), q)

ParseElement(b, parse, start) ==
    LET type == b.bytes[start]
        p == start + 1
    IN IF start >= End(b) THEN Failed           \* assert(sz)
       ELSE
       CASE type = AMF_NUMBER ->
              IF p + 8 > End(b) THEN Failed ELSE Parsed(amf_number(b.bytes[p]), p + 8)
         [] type = AMF_BOOLEAN ->
              IF p >= End(b) THEN Failed ELSE Parsed(amf_bool(b.bytes[p]), p + 1)
         [] type = AMF_STRING -> ParseString(b, p)
         [] type = AMF_OBJECT -> ParseObject(b, parse, p)
         [] type = AMF_ECMA_ARRAY ->
              IF p + 4 > End(b) THEN Failed ELSE ParseObject(b, parse, p + 4)
         [] type = AMF_STRICT_ARRAY -> ParseArray(b, parse, p)
         [] type \in {AMF_NULL, AMF_UNDEFINED} -> Parsed(amf_alloc(type), p)
         [] OTHER -> Parsed(amf_alloc(AMF_UNDEFINED), End(b))

parse_element(b) ==
    LET parse[w \in {"element", "members"}] == [p \in Pos |->
            IF w = "element" THEN ParseElement(b, parse, p) ELSE ParseMembers(b, parse, p)]
    IN parse

FromBuf(b, from, p) ==
    LET e == parse_element(b)["element"][p]
        rest == from[e.next]
    IN IF p >= End(b) THEN <<>>
       ELSE IF e.val = NULL \/ rest = NULL THEN NULL
       ELSE <<e.val>> \o rest
amf_invoke_from_buf(b) ==
    LET from[p \in Pos] == FromBuf(b, from, p) IN from[1]

----------------------------------------------------------------------------
(* Building an invoke, sending or receiving it, reading it.                *)

Fresh == {amf_number(9), amf_bool(9), amf_alloc(AMF_NULL), amf_alloc(AMF_UNDEFINED),
          amf_alloc(AMF_OBJECT)}
            \cup {amf_array(n) : n \in 0..MaxMembers} \cup {amf_string(s) : s \in Strs} \cup {amf_stringf(s) : s \in Strs}

Building == wire = NULL
Written(b) == wire' = b /\ UNCHANGED <<inv, back>>
IsType(i, t) == inv.elem[i] # NULL /\ inv.elem[i].type = t

amf_invoke_new(n) == [elem |-> [i \in 1..n |-> NULL], cur |-> 0]

Init ==
    /\ \E n \in 0..MaxElems : inv = amf_invoke_new(n)
    /\ wire = NULL /\ back = NULL

amf_invoke_set(i, a) == [inv EXCEPT !.elem[i] = a]

Set ==
    /\ Building
    /\ \E i \in DOMAIN inv.elem, a \in Fresh : inv' = amf_invoke_set(i, a)
    /\ UNCHANGED <<wire, back>>

(* append fills the next slot, or makes one                                *)
amf_invoke_append(a) ==
    LET i == inv.cur + 1
    IN [elem |-> IF i > Len(inv.elem) THEN Append(inv.elem, a)
                 ELSE [inv.elem EXCEPT ![i] = a],
        cur |-> i]

AppendElem ==
    /\ Building /\ inv.cur < MaxElems
    /\ \E a \in Fresh : inv' = amf_invoke_append(a)
    /\ UNCHANGED <<wire, back>>

ObjectSet ==
    /\ Building
    /\ \E i \in DOMAIN inv.elem, k \in Keys, v \in Values :
         /\ IsType(i, AMF_OBJECT)
         /\ \/ Len(inv.elem[i].obj) < MaxMembers
            \/ object_index(inv.elem[i], k) # {}
         /\ inv' = [inv EXCEPT !.elem[i] = amf_object_set(@, k, v)]
    /\ UNCHANGED <<wire, back>>

ArraySet ==
    /\ Building
    /\ \E i \in DOMAIN inv.elem, v \in Values :
         /\ IsType(i, AMF_STRICT_ARRAY)
         /\ \E j \in DOMAIN inv.elem[i].obj :
              inv' = [inv EXCEPT !.elem[i] = amf_array_set(@, j, v)]
    /\ UNCHANGED <<wire, back>>

(* do_invoke: a buffer of amf_invoke_buf_size, filled.  An array aborts.   *)
NoArray == \A i \in DOMAIN inv.elem : ~IsType(i, AMF_STRICT_ARRAY)

Send ==
    /\ Building /\ NoArray
    /\ Written(amf_invoke_to_buf(inv.elem))

(* The same invoke from a peer, its arrays complete                        *)
Receive ==
    /\ Building
    /\ \A i \in DOMAIN inv.elem : IsType(i, AMF_STRICT_ARRAY) =>
         \A j \in DOMAIN inv.elem[i].obj : inv.elem[i].obj[j].val # NULL
    /\ Written(PeerWrites(inv.elem))

\* rtmp.c, r_invoke and r_flex_message, and what mayhem.c does with both
Read ==
    /\ wire # NULL /\ back = NULL
    /\ \E marks \in 0..MaxMarks :
         back' = [result |-> amf_invoke_from_buf([bytes |-> wire, marks |-> marks])]
    /\ UNCHANGED <<inv, wire>>

Next == Set \/ AppendElem \/ ObjectSet \/ ArraySet \/ Send \/ Receive \/ Read

Spec == Init /\ [][Next]_vars

----------------------------------------------------------------------------
(* Shapes: an invoke has elements or empty slots, cur_elem is a slot or    *)
(* the end, and no object has a key twice, in what was built and in what   *)
(* was read from any bytes (object_set replaces, amf.c:203-238).           *)
TypeOK ==
    /\ inv.elem \in Seq(Item) /\ Len(inv.elem) <= MaxElems
    /\ inv.cur \in 0..Len(inv.elem)
    /\ back # NULL /\ back.result # NULL =>
         \A i \in DOMAIN back.result : KeysDistinct(back.result[i])

(* The buffer that do_invoke (rtmp.c:623-628) allocates by                 *)
(* amf_invoke_buf_size is filled by amf_invoke_to_buf to the last byte and *)
(* no further: the two walk the elements separately.                       *)
SizeExact ==
    NoArray /\ wire = amf_invoke_to_buf(inv.elem) => Len(wire) = amf_invoke_buf_size(inv.elem)

(* What the parser makes of an element it can read: an empty string comes  *)
(* back as none, an object in either form as an object, an empty slot as   *)
(* null, and an array as its first element repeated, followed by all of    *)
(* its elements as further elements of the invoke.                         *)
ReadBack(read, a) ==
    IF a = NULL THEN amf_alloc(AMF_NULL)
    ELSE IF a.type = AMF_STRING THEN amf_stringf(IF a.str = NULL THEN <<>> ELSE a.str)
    ELSE [a EXCEPT !.obj = [i \in DOMAIN @ |->
            [key |-> @[i].key, val |-> read[@[i].val]]]]
AsRead[a \in Element] == ReadBack(AsRead, a)

Unfolded(a) ==
    IF a # NULL /\ a.type = AMF_STRICT_ARRAY
    THEN <<[a EXCEPT !.obj = [i \in DOMAIN @ |-> a.obj[1]]]>>
            \o [i \in DOMAIN a.obj |-> a.obj[i].val]
    ELSE <<a>>

Elements == FlattenSeq([i \in DOMAIN inv.elem |-> Unfolded(inv.elem[i])])

(* The end of the message may not be an empty string (amf.c:530)           *)
EmptyString(a) == a # NULL /\ a.type = AMF_STRING /\ amf_strlen(a.str) = 0
EmptyTail == Elements # <<>> /\ EmptyString(Last(Elements))

(* and no key but an object's first may be as long as its length's first   *)
(* byte reads as an end mark (amf.c:602).                                  *)
HasKeyAsEnd(has, a) == a # NULL /\ \E i \in DOMAIN a.obj :
    \/ i > 1 /\ a.type = AMF_OBJECT /\ Len(a.obj[i].key) \div Base = AMF_OBJECT_END
    \/ has[a.obj[i].val]
KeyAsEnd[a \in Element] == HasKeyAsEnd(KeyAsEnd, a)

(* What was sent or received is read as it was built, up to AsRead, except *)
(* that an invoke that ends in an empty string is refused as a whole; this *)
(* holds of every invoke without a key that looks like an end mark         *)
(* (amf.c:442-489 and 504-642 against each other).                         *)
RoundTrip ==
    back # NULL /\ (\A i \in DOMAIN inv.elem : ~HasKeyAsEnd(KeyAsEnd, inv.elem[i])) =>
        back.result = IF EmptyTail THEN NULL
                      ELSE [i \in DOMAIN Elements |-> ReadBack(AsRead, Elements[i])]
=============================================================================

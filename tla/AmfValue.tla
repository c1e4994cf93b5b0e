------------------------------ MODULE AmfValue ------------------------------
(***************************************************************************)
(* The values both versions of AMF share (src/amf/value.rs), tagged, and   *)
(* the cursor both decoders work with.  Numbers and strings are opaque but *)
(* for the empty string.  The properties of an object are a function from  *)
(* keys to values; a HashMap has no order, so an encoder is given one.     *)
(***************************************************************************)
EXTENDS Integers, Sequences, SequencesExt

CONSTANT MaxNestingDepth    \* MAX_NESTING_DEPTH

Null == <<"Null">>
Undefined == <<"Undefined">>
Boolean(b) == <<"Boolean", b>>
Number(n) == <<"Number", n>>
Integer(i) == <<"Integer", i>>
String(s) == <<"String", s>>
Array(elements) == <<"Array", elements>>
Object(properties) == <<"Object", properties>>
EcmaArray(properties) == <<"EcmaArray", properties>>
TypedObject(class_name, properties) == <<"TypedObject", properties, class_name>>
Date(timestamp) == <<"Date", timestamp>>
Xml(s) == <<"Xml", s>>
ByteArray(data) == <<"ByteArray", data>>

Kind(value) == value[1]

(* An Option is a set of at most one element.                              *)
None == {}
Or(option, default) == IF option = None THEN default ELSE CHOOSE x \in option : TRUE

AsStr(value) == IF Kind(value) = "String" THEN {value[2]} ELSE None
AsNumber(value) == IF Kind(value) \in {"Number", "Integer"} THEN {value[2]} ELSE None
AsArray(value) == IF Kind(value) = "Array" THEN {value[2]} ELSE None
AsObject(value) ==
    IF Kind(value) \in {"Object", "EcmaArray", "TypedObject"} THEN {value[2]} ELSE None

(* get: the value of a key, Undefined if there is none.                    *)
NoProperties == << >>
Get(value, key) ==
    LET properties == Or(AsObject(value), NoProperties)
    IN  IF key \in DOMAIN properties THEN properties[key] ELSE Undefined

----------------------------------------------------------------------------
(* What is on the wire: bytes, and longer things as one token each.        *)

Byte(b) == <<"byte", b>>

(* A decoder at work: the rest of its buffer, its nesting depth and what   *)
(* it has just read; error is "" as long as there is none.  "Misread" is   *)
(* no error of the code: the decoder takes a part of one thing for         *)
(* another, and what it makes of it is not followed.                       *)
Fail(d, error) == [d EXCEPT !.error = error]

Give(d, value) == [d EXCEPT !.value = value]

Take(d, kind) ==
    IF d.buf = << >> THEN Fail(d, "UnexpectedEof")
    ELSE IF Head(d.buf)[1] # kind THEN Fail(d, "Misread")
    ELSE [d EXCEPT !.buf = Tail(@), !.value = Head(d.buf)[2]]

(* op applied to what has been read.                                       *)
Then(d, op(_)) == IF d.error # "" THEN d ELSE op(d)

Put(properties, key, value) ==
    [k \in DOMAIN properties \cup {key} |-> IF k = key THEN value ELSE properties[k]]

(* The keys of the properties in the order a HashMap happens to give.      *)
Keys(properties, order) == SelectSeq(order, LAMBDA key : key \in DOMAIN properties)
=============================================================================

-------------------------------- MODULE Amf0 --------------------------------
(***************************************************************************)
(* Encoder and decoder of AMF0 (src/amf/amf0.rs).                          *)
(***************************************************************************)
EXTENDS AmfValue

CONSTANT LongStrings    \* strings of more than 65535 bytes

Marker == [Number |-> 0, Boolean |-> 1, String |-> 2, Object |-> 3, Null |-> 5,
           Undefined |-> 6, Reference |-> 7, EcmaArray |-> 8, ObjectEnd |-> 9,
           Array |-> 10, Date |-> 11, LongString |-> 12, Unsupported |-> 13,
           Xml |-> 15, TypedObject |-> 16, AvmPlus |-> 17]

----------------------------------------------------------------------------
(* Encoder.  Strings carry 16 or 32 bits of length: "utf8", "utf8long".    *)

RECURSIVE Encode(_, _)

Members(properties, order) ==
    FlattenSeq([i \in DOMAIN Keys(properties, order) |->
        LET key == Keys(properties, order)[i]
        IN  << <<"utf8", key>> >> \o Encode(properties[key], order)])
    \o << <<"utf8", "">>, Byte(Marker.ObjectEnd) >>

(* encode; AMF0 has neither integers nor byte arrays.                      *)
Encode(value, order) ==
    LET kind == Kind(value)
    IN  CASE kind \in {"Null", "Undefined"} -> << Byte(Marker[kind]) >>
          [] kind = "ByteArray" -> << Byte(Marker.Null) >>
          [] kind = "Boolean" -> << Byte(Marker.Boolean), Byte(IF value[2] THEN 1 ELSE 0) >>
          [] kind \in {"Number", "Integer"} -> << Byte(Marker.Number), <<"f64", value[2]>> >>
          [] kind = "String" ->
                IF value[2] \in LongStrings
                THEN << Byte(Marker.LongString), <<"utf8long", value[2]>> >>
                ELSE << Byte(Marker.String), <<"utf8", value[2]>> >>
          [] kind = "Xml" -> << Byte(Marker.Xml), <<"utf8long", value[2]>> >>
          [] kind = "Date" -> << Byte(Marker.Date), <<"date", value[2]>> >>
          [] kind = "Object" -> << Byte(Marker.Object) >> \o Members(value[2], order)
          [] kind = "EcmaArray" ->
                << Byte(Marker.EcmaArray), <<"u32", Len(Keys(value[2], order))>> >>
                \o Members(value[2], order)
          [] kind = "TypedObject" ->
                << Byte(Marker.TypedObject), <<"utf8", value[3]>> >> \o Members(value[2], order)
          [] kind = "Array" ->
                << Byte(Marker.Array), <<"u32", Len(value[2])>> >>
                \o FlattenSeq([i \in DOMAIN value[2] |-> Encode(value[2][i], order)])

EncodeAll(values, order) ==
    FlattenSeq([i \in DOMAIN values |-> Encode(values[i], order)])

----------------------------------------------------------------------------
(* Decoder.                                                                *)

Decoder(buf, lenient) ==
    [buf |-> buf, references |-> << >>, lenient |-> lenient, depth |-> 0,
     value |-> Null, error |-> ""]

(* A value under construction gets its place in the reference table.       *)
Track(d) == [d EXCEPT !.references = Append(@, Null)]

Finished(d, index, value) ==
    [d EXCEPT !.references[index] = value, !.value = value]

RECURSIVE Decode(_), DecodeMembers(_, _), DecodeElements(_, _, _)

(* After an empty key.  A lenient decoder takes whatever byte is next for  *)
(* the end of the object.                                                  *)
EndOfMembers(d, properties) ==
    IF d.buf = << >>
    THEN IF d.lenient THEN Give(d, properties) ELSE Fail(d, "UnexpectedEof")
    ELSE Then(Take(d, "byte"),
              LAMBDA e : IF e.value = Marker.ObjectEnd \/ e.lenient THEN Give(e, properties)
                         ELSE Fail(e, "InvalidObjectEnd"))

DecodeMembers(d, properties) ==
    Then(Take(d, "utf8"), LAMBDA k :
        IF k.value = "" THEN EndOfMembers(k, properties)
        ELSE Then(Decode(k), LAMBDA v :
                DecodeMembers(v, Put(properties, k.value, v.value))))

DecodeElements(d, count, elements) ==
    IF count = 0 THEN Give(d, elements)
    ELSE Then(Decode(d), LAMBDA v : DecodeElements(v, count - 1, Append(elements, v.value)))

(* decode_object, decode_ecma_array and decode_typed_object: the value is  *)
(* empty but for its properties.                                           *)
DecodeObject(d, empty) ==
    Then(DecodeMembers(Track(d), NoProperties),
         LAMBDA e : Finished(e, Len(d.references) + 1, [empty EXCEPT ![2] = e.value]))

DecodeStrictArray(d) ==
    Then(Take(d, "u32"), LAMBDA n :
        Then(DecodeElements(Track(n), n.value, << >>),
             LAMBDA e : Finished(e, Len(n.references) + 1, Array(e.value))))

DecodeReference(d) ==
    Then(Take(d, "u16"), LAMBDA i :
        IF i.value >= Len(i.references) THEN Fail(i, "InvalidReference")
        ELSE Give(i, i.references[i.value + 1]))

(* decode_value; d has read the marker.  An AMF3 value is not skipped: the *)
(* decoder goes on behind its marker.                                      *)
DecodeValue(d) ==
    CASE d.value = Marker.Number -> Then(Take(d, "f64"), LAMBDA e : Give(e, Number(e.value)))
      [] d.value = Marker.Boolean -> Then(Take(d, "byte"), LAMBDA e : Give(e, Boolean(e.value # 0)))
      [] d.value = Marker.String -> Then(Take(d, "utf8"), LAMBDA e : Give(e, String(e.value)))
      [] d.value = Marker.LongString ->
            Then(Take(d, "utf8long"), LAMBDA e : Give(e, String(e.value)))
      [] d.value = Marker.Xml -> Then(Take(d, "utf8long"), LAMBDA e : Give(e, Xml(e.value)))
      [] d.value = Marker.Date -> Then(Take(d, "date"), LAMBDA e : Give(e, Date(e.value)))
      [] d.value = Marker.Object -> DecodeObject(d, Object(NoProperties))
      [] d.value = Marker.EcmaArray ->
            Then(Take(d, "u32"), LAMBDA e : DecodeObject(e, EcmaArray(NoProperties)))
      [] d.value = Marker.TypedObject ->
            Then(Take(d, "utf8"), LAMBDA e :
                DecodeObject(e, TypedObject(e.value, NoProperties)))
      [] d.value = Marker.Array -> DecodeStrictArray(d)
      [] d.value = Marker.Reference -> DecodeReference(d)
      [] d.value \in {Marker.Null, Marker.AvmPlus} -> Give(d, Null)
      [] d.value \in {Marker.Undefined, Marker.Unsupported} -> Give(d, Undefined)
      [] OTHER -> IF d.lenient THEN Give(d, Undefined) ELSE Fail(d, "UnknownMarker")

(* decode.  The depth is not taken back where the nesting is too deep.     *)
Decode(d) ==
    IF d.buf = << >> THEN Fail(d, "UnexpectedEof")
    ELSE LET deeper == [d EXCEPT !.depth = @ + 1]
         IN  IF deeper.depth > MaxNestingDepth THEN Fail(deeper, "NestingTooDeep")
             ELSE LET e == Then(Take(deeper, "byte"), DecodeValue)
                  IN  [e EXCEPT !.depth = @ - 1]

(* decode_all, and what is left of an AMF0 body: values until the buffer   *)
(* is empty.                                                               *)
RECURSIVE DecodeAll(_, _)
DecodeAll(d, values) ==
    IF d.buf = << >> THEN Give(d, values)
    ELSE Then(Decode(d), LAMBDA v : DecodeAll(v, Append(values, v.value)))
=============================================================================

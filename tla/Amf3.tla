-------------------------------- MODULE Amf3 --------------------------------
(***************************************************************************)
(* Encoder and decoder of AMF3 (src/amf/amf3.rs).  The header of a string, *)
(* an array, a date... is a U29 whose low bit tells inline from reference: *)
(* here <<"inline", rest>> and <<"ref", index>>.  An inline string and its *)
(* characters are one token, <<"text", s>>.                                *)
(***************************************************************************)
EXTENDS AmfValue, U29

Marker3 == [Undefined |-> 0, Null |-> 1, False |-> 2, True |-> 3, Integer |-> 4,
            Double |-> 5, String |-> 6, XmlDoc |-> 7, Date |-> 8, Array |-> 9,
            Object |-> 10, Xml |-> 11, ByteArray |-> 12]

----------------------------------------------------------------------------
(* Encoder: what it has written and the strings it may refer back to.      *)

Encoder3 == [buf |-> << >>, string_refs |-> << >>]

Write(e, tokens) == [e EXCEPT !.buf = @ \o tokens]

(* write_string; the empty string is never referred to.                    *)
WriteString(e, s) ==
    IF s = "" THEN Write(e, << <<"text", "">> >>)
    ELSE IF Contains(e.string_refs, s)
         THEN Write(e, << <<"ref", SelectInSeq(e.string_refs, LAMBDA t : t = s) - 1>> >>)
    ELSE Write([e EXCEPT !.string_refs = Append(@, s)], << <<"text", s>> >>)

RECURSIVE Encode3(_, _, _)

(* The header of every object: an inline trait (bit 0), dynamic (bit 2),   *)
(* without sealed members; bit 1, externalizable, is set too.              *)
WriteObject(e, class_name, properties, order) ==
    LET begun == WriteString(Write(e, << Byte(Marker3.Object), <<"inline", 7>> >>), class_name)
    IN  WriteString(
            FoldLeft(LAMBDA f, key : Encode3(WriteString(f, key), properties[key], order),
                     begun, Keys(properties, order)),
            "")

Encode3(e, value, order) ==
    LET kind == Kind(value)
        number == << Byte(Marker3.Double), <<"f64", value[2]>> >>
    IN  CASE kind \in {"Undefined", "Null"} -> Write(e, << Byte(Marker3[kind]) >>)
          [] kind = "Boolean" ->
                Write(e, << Byte(IF value[2] THEN Marker3.True ELSE Marker3.False) >>)
          [] kind = "Integer" ->
                IF value[2] \in IntMin..IntMax
                THEN Write(e, << Byte(Marker3.Integer), <<"u29", WriteU29(Unsigned(value[2]))>> >>)
                ELSE Write(e, number)
          [] kind = "Number" -> Write(e, number)
          [] kind = "String" -> WriteString(Write(e, << Byte(Marker3.String) >>), value[2])
          [] kind = "Array" ->
                FoldLeft(LAMBDA f, element : Encode3(f, element, order),
                         Write(e, << Byte(Marker3.Array), <<"inline", Len(value[2])>>,
                                     <<"text", "">> >>),
                         value[2])
          [] kind \in {"Object", "EcmaArray"} -> WriteObject(e, "", value[2], order)
          [] kind = "TypedObject" -> WriteObject(e, value[3], value[2], order)
          [] kind = "Date" ->
                Write(e, << Byte(Marker3.Date), <<"inline", 0>>, <<"f64", value[2]>> >>)
          [] kind \in {"Xml", "ByteArray"} ->
                Write(e, << Byte(Marker3[kind]), <<"inline", 1>>, <<"data", value[2]>> >>)

(* A slip: the strings of the body before are kept.                        *)
FinishKeepStrings(e) == [e EXCEPT !.buf = << >>]

(* finish: the next body starts with an empty table.                       *)
Finish(e) == Encoder3

----------------------------------------------------------------------------
(* Decoder.                                                                *)

Decoder3(buf) ==
    [buf |-> buf, string_refs |-> << >>, object_refs |-> << >>, trait_refs |-> << >>,
     lenient |-> TRUE, depth |-> 0, value |-> Null, error |-> ""]

(* reset, before the next body.                                            *)
Reset3(d) == [Decoder3(d.buf) EXCEPT !.lenient = d.lenient]

(* An entry of one of the tables.                                          *)
Referred(d, table, index) ==
    IF index >= Len(table) THEN Fail(d, "InvalidReference") ELSE Give(d, table[index + 1])

(* The header of a value with its own token of content: a reference, or    *)
(* what Inline makes of the rest of the header.                            *)
Header3(d, table, Inline(_)) ==
    IF d.buf = << >> THEN Fail(d, "UnexpectedEof")
    ELSE IF Head(d.buf)[1] = "ref"
         THEN Then(Take(d, "ref"), LAMBDA e : Referred(e, table, e.value))
         ELSE Then(Take(d, "inline"), Inline)

(* read_string.                                                            *)
ReadString(d) ==
    IF d.buf # << >> /\ Head(d.buf)[1] = "ref"
    THEN Then(Take(d, "ref"), LAMBDA e : Referred(e, e.string_refs, e.value))
    ELSE Then(Take(d, "text"), LAMBDA e :
            IF e.value = "" THEN e ELSE [e EXCEPT !.string_refs = Append(@, e.value)])

(* decode_date, decode_xml, decode_byte_array: inline values get a place   *)
(* in the table of objects once they are read.                             *)
DecodeLeaf(d, content, kind) ==
    Header3(d, d.object_refs, LAMBDA h :
        Then(Take(h, content), LAMBDA e :
            [e EXCEPT !.value = << kind, @ >>, !.object_refs = Append(@, << kind, e.value >>)]))

RECURSIVE Decode3(_), DecodePairs(_, _), DecodeDense(_, _, _), DecodeSealed(_, _, _),
          ReadNames(_, _, _)

(* Keys and values up to the empty key.                                    *)
DecodePairs(d, properties) ==
    Then(ReadString(d), LAMBDA k :
        IF k.value = "" THEN Give(k, properties)
        ELSE Then(Decode3(k), LAMBDA v : DecodePairs(v, Put(properties, k.value, v.value))))

DecodeDense(d, count, elements) ==
    IF count = 0 THEN Give(d, elements)
    ELSE Then(Decode3(d), LAMBDA v : DecodeDense(v, count - 1, Append(elements, v.value)))

DecodeSealed(d, names, properties) ==
    IF names = << >> THEN Give(d, properties)
    ELSE Then(Decode3(d), LAMBDA v :
            DecodeSealed(v, Tail(names), Put(properties, Head(names), v.value)))

ReadNames(d, count, names) ==
    IF count = 0 THEN Give(d, names)
    ELSE Then(ReadString(d), LAMBDA k : ReadNames(k, count - 1, Append(names, k.value)))

(* An object or array gets its place before its members are read, so that  *)
(* they count from there; until it is complete the place holds Null.       *)
Begun(d) == [d EXCEPT !.object_refs = Append(@, Null)]

Completed(d, index, value) == [d EXCEPT !.object_refs[index] = value, !.value = value]

(* decode_array.  With an associative part the dense one gets its indices  *)
(* for keys; a dense array has an index for each element.                  *)
DecodeArray(d) ==
    Header3(d, d.object_refs, LAMBDA h :
        LET index == Len(h.object_refs) + 1
        IN  Then(DecodePairs(Begun(h), NoProperties), LAMBDA a :
                Then(DecodeDense(a, h.value, << >>), LAMBDA e :
                    Completed(e, index,
                        IF a.value = NoProperties THEN Array(e.value)
                        ELSE EcmaArray([k \in DOMAIN a.value
                                        \cup {ToString(i - 1) : i \in DOMAIN e.value} |->
                                IF \E i \in DOMAIN e.value : k = ToString(i - 1)
                                THEN e.value[CHOOSE i \in DOMAIN e.value : k = ToString(i - 1)]
                                ELSE a.value[k]])))))

(* The traits of an object: an earlier trait, or an inline one, which gets *)
(* a place in the table.  Bit 0 of the header tells which, bit 2 whether   *)
(* members follow the sealed ones; bit 1 is not looked at.                 *)
ReadTrait(d, header) ==
    IF header % 2 = 0 THEN Referred(d, d.trait_refs, header \div 2)
    ELSE Then(ReadString(d), LAMBDA c :
            Then(ReadNames(c, header \div 8, << >>), LAMBDA e :
                LET trait == [class_name |-> c.value, properties |-> e.value,
                              is_dynamic |-> (header \div 4) % 2 = 1]
                IN  [e EXCEPT !.value = trait, !.trait_refs = Append(@, trait)]))

(* decode_object.                                                          *)
DecodeObject3(d) ==
    Header3(d, d.object_refs, LAMBDA h :
        LET index == Len(h.object_refs) + 1
        IN  Then(ReadTrait(Begun(h), h.value), LAMBDA t :
                Then(DecodeSealed(t, t.value.properties, NoProperties), LAMBDA s :
                    Then(IF t.value.is_dynamic THEN DecodePairs(s, s.value) ELSE s, LAMBDA e :
                        Completed(e, index,
                            IF t.value.class_name = "" THEN Object(e.value)
                            ELSE TypedObject(t.value.class_name, e.value))))))

(* decode_value; d has read the marker.                                    *)
DecodeValue3(d) ==
    CASE d.value = Marker3.Undefined -> Give(d, Undefined)
      [] d.value = Marker3.Null -> Give(d, Null)
      [] d.value = Marker3.False -> Give(d, Boolean(FALSE))
      [] d.value = Marker3.True -> Give(d, Boolean(TRUE))
      [] d.value = Marker3.Integer ->
            Then(Take(d, "u29"), LAMBDA e : Give(e, Integer(SignExtended(ReadU29(e.value)[1]))))
      [] d.value = Marker3.Double -> Then(Take(d, "f64"), LAMBDA e : Give(e, Number(e.value)))
      [] d.value = Marker3.String -> Then(ReadString(d), LAMBDA e : Give(e, String(e.value)))
      [] d.value = Marker3.Date -> DecodeLeaf(d, "f64", "Date")
      [] d.value \in {Marker3.Xml, Marker3.XmlDoc} -> DecodeLeaf(d, "data", "Xml")
      [] d.value = Marker3.ByteArray -> DecodeLeaf(d, "data", "ByteArray")
      [] d.value = Marker3.Array -> DecodeArray(d)
      [] d.value = Marker3.Object -> DecodeObject3(d)
      [] OTHER -> IF d.lenient THEN Give(d, Undefined) ELSE Fail(d, "UnknownMarker")

(* decode.                                                                 *)
Decode3(d) ==
    IF d.buf = << >> THEN Fail(d, "UnexpectedEof")
    ELSE LET deeper == [d EXCEPT !.depth = @ + 1]
         IN  IF deeper.depth > MaxNestingDepth THEN Fail(deeper, "NestingTooDeep")
             ELSE LET e == Then(Take(deeper, "byte"), DecodeValue3)
                  IN  [e EXCEPT !.depth = @ - 1]
=============================================================================

------------------------------- MODULE MCWire -------------------------------
(***************************************************************************)
(* Messages and values for Wire: every type of message and of value,       *)
(* nested and empty ones, and references.                                  *)
(***************************************************************************)
EXTENDS Wire

MCOrder == << "a", "b", "app", "level", "code", "0", "1" >>

Inner == Object([a |-> String("x"), b |-> Integer(3)])

MCValues ==
    {Inner, String("x"), String(""), Integer(-1), Integer(3000000), Integer(300000000),
     TypedObject("a", [b |-> Array(<< String("a"), Date(5), ByteArray("bytes") >>)]),
     EcmaArray([a |-> Xml("x")])}

MCMessages ==
    {<<"SetChunkSize", 3>>, <<"Abort", 4>>, <<"Acknowledgement", 9>>,
     <<"WindowAckSize", 8>>, <<"SetPeerBandwidth", 8, 2>>,
     <<"UserControl", <<"StreamBegin", 1>> >>, <<"UserControl", <<"PingRequest", 9>> >>,
     <<"UserControl", <<"SetBufferLength", 1, 5>> >>,
     <<"UserControl", <<"Unknown", 31, << U32(6) >> >> >>,
     <<"UserControl", <<"Unknown", 32, << Byte(6) >> >> >>,
     <<"Audio", 0, << <<"tag", "sound">> >> >>, <<"Video", 0, << <<"tag", "picture">> >> >>,
     <<"Aggregate", << <<"tag", "tags">> >> >>, <<"Unknown", 99, << <<"tag", "payload">> >> >>}
    \cup {<<kind, Command("play", 2, object, arguments, 0)>> :
            kind \in {"Command", "CommandAmf3"},
            object \in {Null, Inner},
            arguments \in {<< >>, << String("long"), Boolean(TRUE) >>,
                           << EcmaArray([a |-> Inner, b |-> Undefined]), Inner >>,
                           << Array(<< Inner, Array(<< >>) >>), TypedObject("C", [a |-> Null]) >>}}
    \cup {<<kind, DataMessage("onMetaData", values, 0)>> :
            kind \in {"Data", "DataAmf3"},
            values \in {<< >>, << Inner, Date(4), Xml("x"), ByteArray("bytes") >>}}

(* The top bit of a chunk size; an object end omitted at the end of the    *)
(* message; references to an object that is complete and to one that is    *)
(* not; a transaction id that is no number; no leading zero in AMF3.  The  *)
(* last three are misread: an object end omitted before other arguments    *)
(* and inside of an array, a switch to AMF3.                               *)
Start == EncodeAll(<< String("play"), Number(2), Null >>, MCOrder)
Pair == Encode(Inner, MCOrder)

MCForeign ==
    {<<1, << U32(9) >>, <<"SetChunkSize", 1>> >>,
     <<20, Start \o SubSeq(Pair, 1, Len(Pair) - 1),
       <<"Command", Command("play", 2, Null, << Inner >>, 0)>> >>,
     <<20, Start \o Pair \o << Byte(7), <<"u16", 0>> >>,
       <<"Command", Command("play", 2, Null, << Inner, Inner >>, 0)>> >>,
     <<20, Start \o << Byte(10), <<"u32", 2>> >> \o Pair \o << Byte(7), <<"u16", 1>> >>,
       <<"Command", Command("play", 2, Null, << Array(<< Inner, Inner >>) >>, 0)>> >>,
     <<20, Start \o << Byte(10), <<"u32", 1>>, Byte(7), <<"u16", 0>> >>,
       <<"Command", Command("play", 2, Null, << Array(<< Null >>) >>, 0)>> >>,
     <<20, EncodeAll(<< String("play"), Null >>, MCOrder),
       <<"Command", Command("play", 0, Null, << >>, 0)>> >>,
     <<17, Start, <<"CommandAmf3", Command("play", 2, Null, << >>, 0)>> >>,
     <<18, EncodeAll(<< Number(1), Inner >>, MCOrder),
       <<"Data", DataMessage("", << Inner >>, 0)>> >>,
     <<20, Start \o SubSeq(Pair, 1, Len(Pair) - 1) \o EncodeAll(<< Null, Boolean(TRUE) >>, MCOrder),
       <<"Command", Command("play", 2, Null, << Inner, Null, Boolean(TRUE) >>, 0)>> >>,
     <<18, EncodeAll(<< String("onMetaData") >>, MCOrder) \o << Byte(10), <<"u32", 2>> >>
           \o SubSeq(Pair, 1, Len(Pair) - 1) \o Pair,
       <<"Data", DataMessage("onMetaData", << Array(<< Inner, Inner >>) >>, 0)>> >>,
     <<20, Start \o << Byte(17), Byte(3) >>,
       <<"Command", Command("play", 2, Null, << Boolean(TRUE) >>, 0)>> >>}
=============================================================================

----------------------------- MODULE MCMessages -----------------------------
(***************************************************************************)
(* Words of a byte or two, integers of 12 and 16 bits, the spellings where *)
(* reading is hard, and a message of each kind.                            *)
(***************************************************************************)
EXTENDS Messages, TLC

MCWords ==
    [Cmd |-> <<67>>, Value |-> <<86>>, Major |-> <<77>>, Minor |-> <<78>>,
     Patch |-> <<72>>, IsOpen |-> <<73>>, IpAddr |-> <<65>>, Title |-> <<84>>,
     Album |-> <<66>>, Artist |-> <<82>>, CoverUrl |-> <<85>>, SampleRate |-> <<83>>,
     Format |-> <<70>>, Channels |-> <<76>>, Duration |-> <<68>>, Position |-> <<80>>,
     PlayStatus |-> <<89>>, SET_VOLUME |-> <<118>>, SET_MUTE |-> <<109>>,
     SET_STEP_VOLUME |-> <<115>>, SnapServerIPAddr |-> <<97>>, http |-> <<104, 47>>,
     localhost |-> <<108>>]
MCBytes(w) == MCWords[w]

MCserverIP == <<49, 50>>

Spelling(t, v) == [text |-> t, v |-> v]

\* A name, and "C" as an escape.
MCNames == {Spelling(<<34, 97, 34>>, <<97>>), Spelling(<<34, 92, 117, 48, 48, 52, 51, 34>>, <<67>>)}

\* The widest unsigned integer and one more, the least integer, a real; a
\* surrogate pair and an escaped slash; raw multi-byte characters and escapes of
\* a quote, a backslash and a control character.
MCScalars ==
    {Spelling(<<54, 53, 53, 51, 53>>, UIntValue(65535)),
     Spelling(<<54, 53, 53, 51, 54>>, RealValue(65536, 0)),
     Spelling(<<45, 51, 50, 55, 54, 56>>, IntValue(-32768)),
     Spelling(<<49, 46, 53, 101, 49>>, RealValue(15, 0)),
     Spelling(<<34, 92, 117, 100, 56, 51, 100, 92, 117, 68, 69, 48, 48, 92, 47, 34>>,
              StringValue(<<240, 159, 152, 128, 47>>)),
     Spelling(<<34, 195, 169, 240, 159, 152, 128, 92, 34, 92, 92, 92, 117, 48, 48, 49, 102, 34>>,
              StringValue(<<195, 169, 240, 159, 152, 128, 34, 92, 31>>))}

\* A space and a comment.
MCPaddings == {<<>>, <<32, 47, 42, 42, 47>>}

Set(c, members) == Object(members @@ [Cmd |-> IntValue(LightningCastCommCmd[c])])
Num(n) == IntValue(n)
Text(n) == StringValue(<<n>>)

MCAndroidMessages ==
    {Set("SET_VERSION", [Major |-> Num(1), Minor |-> Num(0), Patch |-> Num(0)]),
     Set("SET_METADATA", [Title |-> StringValue(<<195, 169>>), Album |-> Text(1), Artist |-> Text(34),
                          CoverUrl |-> StringValue(<<104, 47, 108, 58, 57>>)]),
     Set("SET_METADATA", [Title |-> Num(7), CoverUrl |-> StringValue(<<104, 47, 120>>)]),
     Set("SET_METADATA", [Title |-> ArrayValue(<<>>)]),
     Set("SET_AUDIOFORMAT", [SampleRate |-> Num(441), Format |-> Num(16), Channels |-> Num(2)]),
     Set("SET_AUDIOFORMAT", [SampleRate |-> Num(441), Format |-> Text(49)]),
     Set("SET_DURATION", [Duration |-> Num(1999)]), Set("SET_DURATION", [Duration |-> Num(-1)]),
     Set("SET_DURATION", [Duration |-> UIntValue(maxInt + 1)]),
     Set("SET_POSITION", [Position |-> Num(maxInt)]), Set("SET_POSITION", [Position |-> Num(3)]),
     Set("SET_POSITION", [Position |-> Num(minInt)]),
     Set("SET_STATUS", [PlayStatus |-> BoolValue(TRUE)]),
     Set("SET_PLAY", [Value |-> NullValue]), Set("SET_PAUSE", [Value |-> NullValue]),
     Set("SET_STOP", [Value |-> NullValue]), Set("SET_EXIT", [Value |-> NullValue]),
     Set("SET_VOLUME", [SET_VOLUME |-> Num(98)]), Set("SET_VOLUME", [SET_VOLUME |-> Num(3)]),
     Set("SET_VOLUME", [SET_VOLUME |-> Num(maxInt)]), Set("SET_VOLUME", [SET_VOLUME |-> Num(minInt)]),
     Set("SET_VOLUME", [Value |-> Num(30)]), Set("SET_MUTE", [SET_MUTE |-> Num(1)]),
     Set("SET_STEP_VOLUME", [SET_STEP_VOLUME |-> Num(5)]),
     Set("NOTIFY_ALIVE", [Value |-> NullValue]), Set("NOTIFY_MUTE", [Value |-> Num(0)]),
     Object([Cmd |-> Num(1), IpAddr |-> StringValue(MCserverIP)]),
     Object([Cmd |-> Num(1), IpAddr |-> ArrayValue(<<>>)]), Object([Value |-> Num(1)])}
=============================================================================

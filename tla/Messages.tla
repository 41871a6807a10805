------------------------------ MODULE Messages ------------------------------
(***************************************************************************)
(* What a message means: LightningCastClient::doParse with its doSet       *)
(* handlers, LightningCastServer::doParse, sendRemoteCommand, and the keys *)
(* of the main program, over the texts that JsonReader reads and JsonValue *)
(* writes.                                                                 *)
(*                                                                         *)
(* One exchange is followed.  Android writes a document, token by token    *)
(* in any spelling JSON allows, or one of its messages; the frame it       *)
(* arrives in holds all of it or only a first part; the endpoint parses    *)
(* and handles it, and sends the message of a key.                         *)
(*                                                                         *)
(* A definition named after another one with a suffix is that definition   *)
(* with a fault seeded; no specification uses it.                          *)
(***************************************************************************)
EXTENDS JsonReader

CONSTANTS
    Bytes(_),        \* the bytes of a word of the protocol; "http" is "http://"
    serverIP,        \* the address the session is connected to, as bytes
    Names,           \* spellings of member names: [text, v]
    Scalars,         \* spellings of values: [text, v]
    Paddings,        \* what Android may write between tokens: spaces, comments
    AndroidMessages, \* the objects Android sends to LightningCastClient
    MaxItems         \* values in one document (bounds the model)

VARIABLES
    text,       \* what Android has written so far
    padding,    \* what it writes between tokens
    open,       \* the arrays and objects to be closed: [v, name], outermost first
    items,      \* how many values it has written
    document,   \* the value it stands for, once complete
    place,      \* "android", "keys", "done"
    received,   \* how many bytes the frame held
    outcome,    \* of doParse: "none", "true", "false" or, by an exception, "terminated"
    fields,     \* the members of LightningCastClient that messages set
    sent        \* what the endpoint sent: [to, text], in order

generator == <<text, padding, open, items, document>>
vars == <<generator, place, received, outcome, fields, sent>>

\* LightningCastCommCmd
LightningCastCommCmd ==
    [SET_VERSION |-> 1, SET_EXIT |-> 2, SET_METADATA |-> 3, SET_AUDIOFORMAT |-> 4,
     SET_DURATION |-> 5, SET_POSITION |-> 6, SET_STATUS |-> 7, SET_PLAY |-> 8, SET_PAUSE |-> 9,
     SET_STOP |-> 10, SET_VOLUME |-> 11, SET_MUTE |-> 12, SET_STEP_VOLUME |-> 13,
     NOTIFY_VERSION |-> 101, NOTIFY_EXIT |-> 102, NOTIFY_ALIVE |-> 103, NOTIFY_PLAY |-> 104,
     NOTIFY_PAUSE |-> 105, NOTIFY_STOP |-> 106, NOTIFY_PREVIOUS |-> 107, NOTIFY_NEXT |-> 108,
     NOTIFY_SEEK |-> 109, NOTIFY_VOLUME_CONTROL |-> 110, NOTIFY_VOLUME |-> 111,
     NOTIFY_MUTE |-> 112]

LightningCastHandshakeCmd == [NONE |-> 0, OPEN |-> 1, CLOSE |-> 2]
LIGHTNINGCASTCLIENTCmd == [NONE |-> 0, START |-> 1, STOP |-> 2, REPORT_DATA |-> 3]

lightningcast_version == [major |-> 1, minor |-> 0, patch |-> 0]

-----------------------------------------------------------------------------
(* Sending                                                                 *)

Object(members) == ObjectValue([k \in {Bytes(w) : w \in DOMAIN members} |->
                       members[CHOOSE w \in DOMAIN members : Bytes(w) = k]])

Sends(to, members) == [to |-> to, text |-> Write(Object(members))]

sendRemoteCommand(c, value) ==
    Sends("android",
          IF c = "NOTIFY_VERSION"
          THEN [Cmd |-> IntValue(LightningCastCommCmd[c]),
                Major |-> IntValue(lightningcast_version.major),
                Minor |-> IntValue(lightningcast_version.minor),
                Patch |-> IntValue(lightningcast_version.patch)]
          ELSE [Cmd |-> IntValue(LightningCastCommCmd[c]), Value |-> IntValue(value)])

sendAlive == Sends("android", [Cmd |-> IntValue(LightningCastCommCmd["NOTIFY_ALIVE"])])

\* SnapcastComm::sendStart takes the audio format and does not send it.
sendStart(ip) ==
    Sends("player", [Cmd |-> IntValue(LIGHTNINGCASTCLIENTCmd["START"]),
                     SnapServerIPAddr |-> StringValue(ip)])

sendStop == Sends("player", [Cmd |-> IntValue(LIGHTNINGCASTCLIENTCmd["STOP"])])

\* do_open, when it has connected.
Greeting(volume) ==
    <<sendRemoteCommand("NOTIFY_VERSION", 0), sendRemoteCommand("NOTIFY_VOLUME_CONTROL", 1),
      sendRemoteCommand("NOTIFY_VOLUME", volume), sendRemoteCommand("NOTIFY_MUTE", 0)>>

-----------------------------------------------------------------------------
InitialFields ==
    [sample_rate |-> 0, format |-> 0, channels |-> 0, duration |-> 0, position |-> 0,
     play_status |-> 0, current_volume |-> 50,
     title |-> <<>>, album |-> <<>>, artist |-> <<>>, cover_url |-> <<>>]

\* A session has begun.
Init ==
    /\ text = <<>> /\ padding \in Paddings /\ open = <<>> /\ items = 0 /\ document = NullValue
    /\ place = "android" /\ received = 0 /\ outcome = "none"
    /\ fields = InitialFields
    /\ sent = Greeting(fields.current_volume)

-----------------------------------------------------------------------------
(* Android                                                                 *)

OpenText(v)  == <<IF v.type = "arrayValue" THEN Ascii.open ELSE Ascii.begin>>
CloseText(v) == <<IF v.type = "arrayValue" THEN Ascii.close ELSE Ascii.end>>

Parts(v) == IF v.type = "arrayValue" THEN v.elements ELSE v.members

\* What precedes an item of v.
ItemText(v, name) ==
    (IF DOMAIN Parts(v) = {} THEN <<>> ELSE <<Ascii.comma>>) \o padding
        \o (IF v.type = "arrayValue" THEN <<>> ELSE name.text \o <<Ascii.colon>> \o padding)

Writes == place = "android" /\ open # <<>>

\* A document is an array or an object.
BeginDocument(v) ==
    /\ place = "android" /\ text = <<>>
    /\ text' = OpenText(v)
    /\ open' = <<[v |-> v, name |-> <<>>]>>
    /\ UNCHANGED <<padding, items, document, place, received, outcome, fields, sent>>

Nest(v, name) ==
    /\ Writes /\ items < MaxItems
    /\ text' = text \o ItemText(Last(open).v, name) \o OpenText(v)
    /\ open' = Append(open, [v |-> v, name |-> name.v])
    /\ items' = items + 1
    /\ UNCHANGED <<padding, document, place, received, outcome, fields, sent>>

Item(name, scalar) ==
    /\ Writes /\ items < MaxItems
    /\ text' = text \o ItemText(Last(open).v, name) \o scalar.text
    /\ open' = [open EXCEPT ![Len(open)].v = With(@, name.v, scalar.v)]
    /\ items' = items + 1
    /\ UNCHANGED <<padding, document, place, received, outcome, fields, sent>>

\* Closes the innermost array or object.
End ==
    /\ Writes
    /\ LET inner == Last(open)
           outer == Len(open) - 1
       IN
       /\ text' = text \o (IF DOMAIN Parts(inner.v) = {} THEN <<>> ELSE padding)
                     \o CloseText(inner.v)
       /\ IF outer = 0 THEN document' = inner.v /\ open' = <<>>
          ELSE /\ open' = [Front(open) EXCEPT ![outer].v = With(@, inner.name, inner.v)]
               /\ UNCHANGED document
    /\ UNCHANGED <<padding, items, place, received, outcome, fields, sent>>

SendMessage(m) ==
    /\ place = "android" /\ text = <<>>
    /\ text' = writeValue(m) /\ document' = m
    /\ UNCHANGED <<padding, open, items, place, received, outcome, fields, sent>>

-----------------------------------------------------------------------------
(* LightningCastClient                                                     *)

\* What a handler of messages does: the result of doParse, the members, and
\* what is sent.
Handled(f, msgs) == [outcome |-> "true", fields |-> f, sent |-> msgs]
Refused          == [outcome |-> "false", fields |-> fields, sent |-> <<>>]
Terminated(f, msgs) == [outcome |-> "terminated", fields |-> f, sent |-> msgs]

\* root[w] for each word, in order, as asString gives them.
Strings(root, words) == [i \in DOMAIN words |-> StringMember(root, Bytes(words[i]))]
AllOk(results) == \A i \in DOMAIN results : results[i].ok

\* Division of ints.
Quotient(x, y) == IF x >= 0 THEN x \div y ELSE -((-x) \div y)

\* The first "http://localhost" gets the address of the session.
Localhost(url) ==
    LET http  == Bytes("http")
        local == http \o Bytes("localhost")
        from  == {p \in DOMAIN url : match(url, p, local)}
        first == CHOOSE p \in from : \A q \in from : p <= q
    IN  IF from = {} THEN url
        ELSE SubSeq(url, 1, first + Len(http) - 1) \o serverIP
                \o SubSeq(url, first + Len(local), Len(url))

\* The heartbeat is sent before the message is handled.
doSetMetadata(root) ==
    LET s == Strings(root, <<"Title", "Album", "Artist", "CoverUrl">>) IN
    IF ~AllOk(s) THEN Terminated(fields, <<sendAlive>>)
    ELSE Handled([fields EXCEPT !.title = s[1].v, !.album = s[2].v, !.artist = s[3].v,
                                !.cover_url = Localhost(s[4].v)], <<sendAlive>>)

\* The handlers of numbers: targets are pairs of a word and the member it is
\* assigned to, one after the other, so that those before one that throws are
\* set.  A word that is read into a local variable has none.
Local == "local"
doSetInts(root, targets, msgs) ==
    LET n == [i \in DOMAIN targets |-> IntMember(root, Bytes(targets[i][1]))]
        got == {i \in DOMAIN n : \A j \in 1..i : n[j].ok}
        New(k) == {n[i].v : i \in {j \in got : targets[j][2] = k}}
        f == [k \in DOMAIN fields |->
                IF New(k) = {} THEN fields[k] ELSE CHOOSE x \in New(k) : TRUE]
    IN  IF got = DOMAIN n THEN Handled(f, msgs) ELSE Terminated(f, msgs)

doSetLightningcastVersion(root) ==
    doSetInts(root, <<<<"Major", Local>>, <<"Minor", Local>>, <<"Patch", Local>>>>, <<>>)

doSetAudioFormat(root) ==
    doSetInts(root, <<<<"SampleRate", "sample_rate">>, <<"Format", "format">>,
                      <<"Channels", "channels">>>>, <<>>)

doSetDuration_Floor(root) ==
    LET n == IntMember(root, Bytes("Duration")) IN
    IF n.ok THEN Handled([fields EXCEPT !.duration = n.v \div 1000], <<>>)
            ELSE Terminated(fields, <<>>)

\* Milliseconds become seconds.
doSetDuration(root) ==
    LET n == IntMember(root, Bytes("Duration")) IN
    IF n.ok THEN Handled([fields EXCEPT !.duration = Quotient(n.v, 1000)], <<>>)
            ELSE Terminated(fields, <<>>)

doSetPosition(root) == doSetInts(root, <<<<"Position", "position">>>>, <<>>)

doSetStatus(root) == doSetInts(root, <<<<"PlayStatus", "play_status">>>>, <<>>)

doSetVolume(root) == doSetInts(root, <<<<"SET_VOLUME", "current_volume">>>>, <<sendAlive>>)

doSetMute(root) == doSetInts(root, <<<<"SET_MUTE", Local>>>>, <<>>)

doSetStepVolume(root) == doSetInts(root, <<<<"SET_STEP_VOLUME", Local>>>>, <<sendAlive>>)

\* switch (cmd)
Dispatch(root, c) ==
    LET Is(w) == c = LightningCastCommCmd[w] IN
    CASE Is("SET_VERSION")     -> doSetLightningcastVersion(root)
      [] Is("SET_METADATA")    -> doSetMetadata(root)
      [] Is("SET_AUDIOFORMAT") -> doSetAudioFormat(root)
      [] Is("SET_DURATION")    -> doSetDuration(root)
      [] Is("SET_POSITION")    -> doSetPosition(root)
      [] Is("SET_STATUS")      -> doSetStatus(root)
      [] Is("SET_PLAY")        -> Handled(fields, <<sendStart(serverIP)>>)
      [] Is("SET_PAUSE") \/ Is("SET_STOP") -> Handled(fields, <<sendStop>>)
      [] Is("SET_VOLUME")      -> doSetVolume(root)
      [] Is("SET_MUTE")        -> doSetMute(root)
      [] Is("SET_STEP_VOLUME") -> doSetStepVolume(root)
      [] Is("NOTIFY_ALIVE")    -> Handled(fields, <<>>)
      [] OTHER -> Refused

\* LightningCastClient::doParse
ClientParse(payload) ==
    Let(parse(payload), LAMBDA p :
        IF ~p.ok THEN Refused
        ELSE Let(IntMember(p.v, Bytes("Cmd")), LAMBDA c :
                 IF c.ok THEN Dispatch(p.v, c.v) ELSE Terminated(fields, <<>>)))

\* LightningCastServer::doParse; the reply says whether the client connected.
Opened(root, is_open) ==
    IF ~StringMember(root, Bytes("IpAddr")).ok THEN Terminated(fields, <<>>)
    ELSE Handled(fields, <<Sends("android",
                             [Cmd |-> IntValue(LightningCastHandshakeCmd["OPEN"]),
                              IsOpen |-> IntValue(IF is_open THEN 1 ELSE 0)])>>)

ServerParse(payload, is_open) ==
    Let(parse(payload), LAMBDA p :
        IF ~p.ok THEN Refused
        ELSE Let(IntMember(p.v, Bytes("Cmd")), LAMBDA c :
                 CASE ~c.ok -> Terminated(fields, <<>>)
                   [] c.ok /\ c.v = LightningCastHandshakeCmd["OPEN"] -> Opened(p.v, is_open)
                   [] OTHER -> Refused))

Takes(result) ==
    /\ outcome' = result.outcome
    /\ fields' = result.fields
    /\ sent' = sent \o result.sent
    /\ place' = IF result.outcome = "true" THEN "keys" ELSE "done"
    /\ UNCHANGED generator

\* The payload of the frame, all of the text or the first n bytes.
Arrives(n) == place = "android" /\ open = <<>> /\ n \in DOMAIN text /\ received' = n

ClientReads(n) == Arrives(n) /\ Takes(ClientParse(SubSeq(text, 1, n)))

ServerReads ==
    /\ Arrives(Len(text))
    /\ \E is_open \in BOOLEAN : Takes(ServerParse(text, is_open))

-----------------------------------------------------------------------------
(* main: the keys                                                          *)

\* A sum that does not fit an int is undefined behaviour.  The addition wraps
\* around; a comparison of it compares what has wrapped around, or is compiled
\* to one of the volume itself with the bound shifted, which never overflows.
Wrapped(x) == ((x - minInt) % (2 * (maxInt + 1))) + minInt

Compared(x, shifted) == IF shifted THEN x ELSE Wrapped(x)

KeyCommand_NoClamp(ch, shifted) ==
    LET up   == Wrapped(fields.current_volume + 5)
        down == Wrapped(fields.current_volume - 5)
        Under100 == fields.current_volume < 100
        Over0    == Compared(fields.current_volume - 5, shifted) > 0
    IN
    CASE ch = "k" -> sendRemoteCommand("NOTIFY_PLAY", 0)
      [] ch = "s" -> sendRemoteCommand("NOTIFY_STOP", 0)
      [] ch = "p" -> sendRemoteCommand("NOTIFY_PAUSE", 0)
      [] ch = "n" -> sendRemoteCommand("NOTIFY_NEXT", 0)
      [] ch = "b" -> sendRemoteCommand("NOTIFY_PREVIOUS", 0)
      [] ch = "r" -> sendRemoteCommand("NOTIFY_VOLUME", IF Under100 THEN up ELSE 100)
      [] ch = "e" -> sendRemoteCommand("NOTIFY_VOLUME", IF Over0 THEN down ELSE 0)
      [] ch = "u" -> sendRemoteCommand("NOTIFY_SEEK", Wrapped(fields.position + 5))
      [] ch = "y" -> sendRemoteCommand("NOTIFY_SEEK", Wrapped(fields.position - 5))

KeyCommand(ch, shifted) ==
    LET up   == Wrapped(fields.current_volume + 5)
        down == Wrapped(fields.current_volume - 5)
        Under100 == Compared(fields.current_volume + 5, shifted) < 100
        Over0    == Compared(fields.current_volume - 5, shifted) > 0
    IN
    CASE ch = "k" -> sendRemoteCommand("NOTIFY_PLAY", 0)
      [] ch = "s" -> sendRemoteCommand("NOTIFY_STOP", 0)
      [] ch = "p" -> sendRemoteCommand("NOTIFY_PAUSE", 0)
      [] ch = "n" -> sendRemoteCommand("NOTIFY_NEXT", 0)
      [] ch = "b" -> sendRemoteCommand("NOTIFY_PREVIOUS", 0)
      [] ch = "r" -> sendRemoteCommand("NOTIFY_VOLUME", IF Under100 THEN up ELSE 100)
      [] ch = "e" -> sendRemoteCommand("NOTIFY_VOLUME", IF Over0 THEN down ELSE 0)
      [] ch = "u" -> sendRemoteCommand("NOTIFY_SEEK", Wrapped(fields.position + 5))
      [] ch = "y" -> sendRemoteCommand("NOTIFY_SEEK", Wrapped(fields.position - 5))

Keys == {"k", "s", "p", "n", "b", "r", "e", "u", "y"}

Key(ch) ==
    /\ place = "keys"
    /\ \E shifted \in BOOLEAN : sent' = Append(sent, KeyCommand(ch, shifted))
    /\ place' = "done"
    /\ UNCHANGED <<generator, received, outcome, fields>>

-----------------------------------------------------------------------------
Android ==
    \/ \E v \in {ArrayValue(<<>>), EmptyObject} :
          BeginDocument(v) \/ \E name \in Names : Nest(v, name)
    \/ \E name \in Names, scalar \in Scalars : Item(name, scalar)
    \/ End
    \/ \E m \in AndroidMessages : SendMessage(m)

Endpoint ==
    \/ \E n \in DOMAIN text : ClientReads(n)
    \/ ServerReads
    \/ \E ch \in Keys : Key(ch)

Next == Android \/ Endpoint

Spec == Init /\ [][Next]_vars

-----------------------------------------------------------------------------
(* Properties                                                              *)

Complete == place = "android" /\ open = <<>> /\ text # <<>>
Parsed   == outcome # "none" /\ received = Len(text)

\* However a document is spelled (white space and comments between its tokens,
\* escapes and surrogate pairs in its strings, numbers up to and beyond the
\* widest integer), the reader finds the value it stands for.
ReadsWhatIsWritten ==
    Complete => parse(text) = [ok |-> TRUE, v |-> document, next |-> Len(text) + 1]

\* A frame that holds only the first part of a document changes nothing and ends
\* the session: no first part is ever taken for a message.
TruncationRejected ==
    outcome # "none" /\ received < Len(text)
        => outcome = "false" /\ <<fields, sent>> = <<InitialFields, Greeting(50)>>

\* What FastWriter writes, Reader reads back, whatever characters the strings
\* have (reals are not written by the endpoint).
RECURSIVE HasReal(_)
HasReal(v) ==
    CASE v.type = "realValue" -> TRUE
      [] v.type \in {"arrayValue", "objectValue"} ->
            \E i \in DOMAIN Parts(v) : HasReal(Parts(v)[i])
      [] OTHER -> FALSE

WritesReadBack ==
    Complete /\ ~HasReal(document) =>
        \E p \in {parse(Write(document))} : p.ok /\ p.v = document

\* The exception of a failed conversion ends the process; no message whose
\* numbers fit an int and whose texts are strings raises one, even if it lacks
\* some of its members.
Texts == {Bytes(w) : w \in {"Title", "Album", "Artist", "CoverUrl", "IpAddr"}}

WellTyped(v) ==
    /\ v.type = "objectValue"
    /\ \A k \in DOMAIN v.members :
          IF k \in Texts THEN v.members[k].type = "stringValue"
          ELSE v.members[k].type = "intValue" /\ v.members[k].n \in minInt..maxInt

WellTypedHandled == Parsed /\ WellTyped(document) => outcome # "terminated"

\* Android reads from every message a Cmd of the protocol, and from a volume key
\* a volume of 0 to 100 at most one step from what it last set.
Sent(i) == parse(sent[i].text).v

CmdKnown(root) ==
    \E c \in {IntMember(root, Bytes("Cmd"))} :
       c.ok /\ c.v \in Range(LightningCastCommCmd) \cup Range(LightningCastHandshakeCmd)

KeyRight(cmd, value) ==
    /\ cmd = LightningCastCommCmd["NOTIFY_VOLUME"] /\ fields.current_volume \in 0..100
          => value \in 0..100 /\ value - fields.current_volume \in -5..5
    /\ cmd = LightningCastCommCmd["NOTIFY_SEEK"]
             /\ fields.position \in minInt + 5..maxInt - 5
          => value - fields.position \in {-5, 5}

SentReadable ==
    /\ place \in {"keys", "done"} =>
          \A i \in DOMAIN sent : \A root \in {Sent(i)} : CmdKnown(root)
    /\ place = "done" /\ outcome = "true" =>
          \A root \in {Sent(Len(sent))} :
             KeyRight(IntMember(root, Bytes("Cmd")).v, IntMember(root, Bytes("Value")).v)

\* The duration is the whole seconds of what Android sent, and a cover of
\* Android's own web server is looked for at the address of the session.
FieldsAgree ==
    Parsed /\ outcome = "true" /\ document \in AndroidMessages =>
        /\ Bytes("Duration") \in DOMAIN document.members =>
              LET ms == document.members[Bytes("Duration")].n
              IN  ms - 1000 * fields.duration \in IF ms >= 0 THEN 0..999 ELSE -999..0
        /\ \A p \in DOMAIN fields.cover_url :
              ~match(fields.cover_url, p, Bytes("http") \o Bytes("localhost"))
=============================================================================

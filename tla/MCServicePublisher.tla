------------------------- MODULE MCServicePublisher -------------------------
(***************************************************************************)
(* Queries of other hosts, as packets, for TLC.                            *)
(***************************************************************************)
EXTENDS ServicePublisher

Host == create_nlabel(HostText)
Type == create_nlabel(RegType)
Svc  == <<Instance>> \o Type

Cells(name) == [i \in DOMAIN name |-> Label(name[i])]
Name(name)  == Append(Cells(name), Root)

\* A class of 32769 asks for a unicast answer.
Question(name, type)  == name \o <<Field(type), Field(1)>>
Unicast(name, type)   == name \o <<Field(type), Field(32769)>>
Answer1(name, type, ttl, len, data) ==
    name \o <<Field(type), Field(1), Field(ttl), Field(len)>> \o data

Packet(flags, questions, answers) ==
    [id |-> 7, flags |-> flags, num_qn |-> Len(questions), num_ans_rr |-> Len(answers),
     num_add_rr |-> 0, body |-> FlattenSeq(questions) \o FlattenSeq(answers)]

MCPackets ==
    { \* a query for two names, the second compressed
      Packet(0, <<Question(Name(Svc), "SRV"),
                  Question(<<Label("_services"), Label("_dns-sd"), Label("_udp"), Pointer(4)>>,
                           "PTR")>>, <<>>),
      \* browsing, and a unicast question, which is skipped
      Packet(0, <<Question(Name(Type), "PTR"), Unicast(Name(Host), "A")>>, <<>>),
      \* browsing with the service known, long enough and not long enough
      Packet(0, <<Question(Name(Type), "PTR")>>,
             <<Answer1(Name(Type), "PTR", 2250, Len(Svc) + 1, Name(Svc))>>),
      Packet(0, <<Question(Name(Type), "PTR"), Question(Name(Host), "ANY")>>,
             <<Answer1(<<Pointer(1)>>, "PTR", 2249, 2, <<Label(Instance), Pointer(1)>>)>>),
      \* the address known, and everything of an instance asked for
      Packet(0, <<Question(Name(Host), "A"), Question(Name(Svc), "ANY")>>,
             <<Answer1(<<Pointer(1)>>, "A", 120, 1, <<Field("ip1")>>)>>),
      \* a response, and a packet cut off in its answer
      Packet(MDNS_FLAG_RESP, <<>>, <<Answer1(Name(Type), "PTR", 4500, Len(Svc) + 1, Name(Svc))>>),
      Packet(0, <<Question(Name(Host), "A")>>, <<Answer1(<<Pointer(1)>>, "A", 120, 2, <<Field("ip1")>>)>>)
    }

\* No interface to use, or two: a host with one is this one before its second
\* address is added.
MCInterfaces == {<<>>, <<"ip1", "ip2">>}
=============================================================================

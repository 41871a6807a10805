-------------------------- MODULE ServicePublisher --------------------------
(***************************************************************************)
(* The ServicePublisher thread, which registers the endpoint with the mDNS *)
(* responder, and the main program, which unregisters it when the user     *)
(* quits.  The two share the pointer svr and the server behind it.         *)
(***************************************************************************)
EXTENDS Mdnsd

CONSTANT Interfaces     \* what getifaddrs may find: sequences of IPv4 addresses

VARIABLES
    ppc,            \* where the publisher thread is
    svr,            \* the pointer: no constructor sets it
    freed,          \* the server has been freed
    ifa,            \* the interfaces not yet registered
    stop_thread,
    mpc             \* where main is

publisher == <<ppc, svr, ifa>>
main      == <<freed, stop_thread, mpc>>
vars      == <<mdnsd, publisher, main>>

PublisherPc == {"start", "assign", "getifaddrs", "hostname", "others", "service", "notify",
                "sleep", "exited", "crashed", "hung"}
MainPc      == {"keys", "stopFlag", "notify", "stopWait", "stopThread", "join", "done",
                "crashed", "hung"}

HostText     == <<"LightningCastDeviceSample", ".", "local">>
RegType      == <<"_lightningcast", ".", "_tcp", ".", "local">>
Instance     == "LightningCastDeviceSample"
LIGHTNINGCASTTCPPORT == 7700

TypeOK ==
    /\ MdnsdTypeOK
    /\ ppc \in PublisherPc /\ mpc \in MainPc
    /\ svr \in {"null", "garbage", "set"}
    /\ freed \in BOOLEAN /\ stop_thread \in BOOLEAN

Init ==
    /\ MdnsdInit
    /\ ppc = "start" /\ svr \in {"null", "garbage"} /\ ifa = <<>>
    /\ freed = FALSE /\ stop_thread = FALSE /\ mpc = "keys"

-----------------------------------------------------------------------------
(* The publisher thread                                                    *)

\* mdnsd_start fails, and the thread sleeps until it is stopped, or its thread
\* runs before the pointer is assigned.
mdnsd_start ==
    /\ ppc = "start"
    /\ \/ Started /\ ppc' = "assign" /\ UNCHANGED svr
       \/ svr' = "null" /\ ppc' = "sleep" /\ UNCHANGED pc
    /\ UNCHANGED <<registry, notify_pipe, shutdown, reply, request, job, seen, believed, ifa, main>>

Assign ==
    /\ ppc = "assign"
    /\ svr' = "set" /\ ppc' = "getifaddrs"
    /\ UNCHANGED <<mdnsd, ifa, main>>

\* It fails, finds no interface to use, or some.
GetIfAddrs ==
    /\ ppc = "getifaddrs"
    /\ ifa' \in Interfaces
    /\ ppc' = IF ifa' = <<>> THEN "sleep" ELSE "hostname"
    /\ UNCHANGED <<mdnsd, svr, main>>

\* A call into the server that main may have freed meanwhile.
Alive == svr = "set" /\ ~freed

SetHostname ==
    /\ ppc = "hostname" /\ Alive
    /\ mdnsd_set_hostname(HostText, Head(ifa))
    /\ ifa' = Tail(ifa) /\ ppc' = "others"
    /\ UNCHANGED <<notify_pipe, shutdown, responder, svr, main>>

\* The other addresses of the host, one record each.
AddOther ==
    /\ ppc = "others" /\ ifa # <<>> /\ Alive
    /\ mdnsd_add_rr(rr_create_a(create_nlabel(HostText), Head(ifa)))
    /\ ifa' = Tail(ifa)
    /\ UNCHANGED <<notify_pipe, shutdown, responder, ppc, svr, main>>

NoOthers ==
    /\ ppc = "others" /\ ifa = <<>>
    /\ ppc' = "service"
    /\ UNCHANGED <<mdnsd, svr, ifa, main>>

RegisterService ==
    /\ ppc = "service" /\ Alive
    /\ mdnsd_register_svc(Instance, RegType, LIGHTNINGCASTTCPPORT, <<"ver=1.0">>)
    /\ ppc' = "notify"
    /\ UNCHANGED <<notify_pipe, shutdown, responder, svr, ifa, main>>

\* The last step of mdnsd_register_svc, after the mutex.
NotifyServer ==
    /\ ppc = "notify" /\ Alive
    /\ write_pipe /\ ppc' = "sleep"
    /\ UNCHANGED <<registry, shutdown, responder, svr, ifa, main>>

\* The server is gone under the publisher's feet: undefined behaviour.  The call
\* ends the process, waits for ever on a mutex that is no more, or returns.
UsesFreed ==
    /\ ~Alive
    /\ \/ /\ ppc \in {"hostname", "service", "notify"} \/ (ppc = "others" /\ ifa # <<>>)
          /\ ppc' \in {"crashed", "hung"} /\ UNCHANGED ifa
       \/ /\ ppc = "hostname" \/ (ppc = "others" /\ ifa # <<>>)
          /\ ppc' = "others" /\ ifa' = Tail(ifa)
       \/ ppc = "service" /\ ppc' = "notify" /\ UNCHANGED ifa
       \/ ppc = "notify" /\ ppc' = "sleep" /\ UNCHANGED ifa
    /\ UNCHANGED <<mdnsd, svr, main>>

PublisherExits ==
    /\ ppc = "sleep" /\ stop_thread
    /\ ppc' = "exited"
    /\ UNCHANGED <<mdnsd, svr, ifa, main>>

-----------------------------------------------------------------------------
(* main after q: mdns_tinysvcmdns_unregister with mdnsd_stop, stop_thread, join *)

\* mdnsd_stop on a garbage pointer is undefined behaviour: it ends the process,
\* or waits for ever for the 2 that nobody writes there.
Unregister ==
    /\ mpc = "keys"
    /\ \/ svr = "null" /\ mpc' = "stopThread"
       \/ svr = "set" /\ mpc' = "stopFlag"
       \/ svr = "garbage" /\ mpc' \in {"crashed", "hung"}
    /\ UNCHANGED <<mdnsd, publisher, freed, stop_thread>>

SetStopFlag ==
    /\ mpc = "stopFlag" /\ mpc' = "notify"
    /\ StopFlag
    /\ UNCHANGED <<registry, notify_pipe, responder, publisher, freed, stop_thread>>

StopNotifies ==
    /\ mpc = "notify" /\ mpc' = "stopWait"
    /\ write_pipe
    /\ UNCHANGED <<registry, shutdown, responder, publisher, freed, stop_thread>>

\* The thread has ended; everything is freed and svr reset.
StopFrees ==
    /\ mpc = "stopWait" /\ Stopped
    /\ Release /\ freed' = TRUE /\ svr' = "null"
    /\ mpc' = "stopThread"
    /\ UNCHANGED <<notify_pipe, responder, ppc, ifa, stop_thread>>

StopThread ==
    /\ mpc = "stopThread" /\ mpc' = "join"
    /\ stop_thread' = TRUE
    /\ UNCHANGED <<mdnsd, publisher, freed>>

Join ==
    /\ mpc = "join" /\ ppc = "exited"
    /\ mpc' = "done"
    /\ UNCHANGED <<mdnsd, publisher, freed, stop_thread>>

-----------------------------------------------------------------------------
\* The process ends when main returns or a thread crashes, not when one hangs.
Running == mpc \notin {"done", "crashed"} /\ ppc # "crashed"

Responder == Running /\ main_loop /\ UNCHANGED <<publisher, main>>

Publisher ==
    /\ Running
    /\ \/ mdnsd_start \/ Assign \/ GetIfAddrs \/ SetHostname \/ AddOther \/ NoOthers
       \/ RegisterService \/ NotifyServer \/ UsesFreed \/ PublisherExits

Main == Running /\ (SetStopFlag \/ StopNotifies \/ StopFrees \/ StopThread \/ Join)

Environment ==
    /\ Running
    /\ \/ Receive /\ UNCHANGED <<publisher, main>>
       \/ Unregister

Next == Responder \/ Publisher \/ Main \/ Environment

Spec == Init /\ [][Next]_vars

\* Every thread that can run does; packets and q come when they come.
Fairness == WF_vars(Responder) /\ WF_vars(Publisher) /\ WF_vars(Main)

FairSpec == Spec /\ Fairness

-----------------------------------------------------------------------------
(* Properties                                                              *)

\* What the reply has to say about record e, from the records that were
\* registered when the query came, the questions and the known answers: the
\* first one that is this record tells how long the querier will still know it.
Asked(e) == \E c \in ToSet(request.calls) :
                /\ heap[e].name = c[1]
                /\ heap[e].type = c[2] \/ (c[2] = "ANY" /\ heap[e].type # "NSEC")
\* Known answer k is record e: same name, same type and, where the reader keeps
\* the data, same data.
SameRecord(k, e) ==
    /\ k.name = heap[e].name /\ k.type = heap[e].type
    /\ k.type \in {"A", "PTR", "TXT"} => k.data = heap[e].data
Known(e) == \E i \in DOMAIN request.known :
                /\ SameRecord(request.known[i], e)
                /\ \A j \in 1..(i - 1) : ~SameRecord(request.known[j], e)
                /\ 2 * request.known[i].ttl + 1 >= heap[e].ttl
\* A known answer that rr_entry_match takes for e, though it is another record of
\* its name and type: the data is compared for PTR only.
Mistaken(e) == \E k \in ToSet(request.known) :
                   /\ k.name = heap[e].name /\ k.type = heap[e].type /\ k.type # "PTR"
                   /\ ~SameRecord(k, e)
Registered(g) == UNION {ToSet(g[i].rr) : i \in DOMAIN g}

\* process_mdns_pkt and announce_srv: a reply answers with every record that was
\* asked for and registered, once, except those the querier knows, although
\* records are registered between its questions.  Left open are the records that
\* rr_entry_match mistakes a known answer for, which the code drops although the
\* querier does not know them: with two interfaces, the second address where the
\* first one is known.
AnswersRight ==
    pc = "send" =>
        /\ IsInjective(reply.rr_ans)
        /\ ToSet(reply.rr_ans)
             \subseteq {e \in Registered(group) : Asked(e) /\ (~Known(e) \/ Mistaken(e))}
        /\ {e \in Registered(seen) : Asked(e) /\ ~Known(e) /\ ~Mistaken(e)}
             \subseteq ToSet(reply.rr_ans)

\* The records that a client needs to use record e.
Needs(e, x) ==
    LET r == heap[e] s == heap[x] IN
    \/ r.type = "PTR" /\ s.name = r.data /\ s.type # "NSEC"
    \/ r.type = "SRV" /\ s.name = r.data.target /\ s.type # "NSEC"
    \/ r.type = "SRV" /\ s.name = r.name /\ s.type = "TXT"
    \/ r.type = "A" /\ s.name = r.name /\ s.type = "NSEC"
ClosedUnderNeeds(answers, additional, records) ==
    \A e \in answers \cup additional : {x \in records : Needs(e, x)} \subseteq additional

\* add_related_rr walks the additional records while it appends to them: at the
\* end they hold all that an answer or another additional record needs, and
\* nothing that could be left out.
AdditionalComplete ==
    pc = "send" =>
        LET ans == ToSet(reply.rr_ans)  add == ToSet(reply.rr_add) IN
        /\ ClosedUnderNeeds(ans, add, Registered(seen))
        /\ \A S \in SUBSET add :
              ClosedUnderNeeds(ans, S, add) => S = add

\* mdns_encode_pkt against mdns_parse_pkt: a host that reads the packet with
\* this very code finds the counts of the header, the names behind their
\* compression and the data of A, PTR and TXT records (it skips that of SRV and
\* NSEC), and no byte is left over.
PacketReadable ==
    pc \in {"send", "sendBye"} /\ reply.num_ans_rr > 0 =>
        LET pkt == mdns_encode_pkt(reply, heap)
            read == mdns_parse_pkt(pkt)
            rest == ParseAll(LAMBDA o : mdns_parse_rr(pkt.body, o), pkt.num_add_rr, read.next)
            Same(r, e) == /\ r.name = heap[e].name /\ r.type = heap[e].type
                          /\ r.ttl = heap[e].ttl /\ r.cache_flush = heap[e].cache_flush
                          /\ r.type \in {"A", "PTR", "TXT"} => r.data = heap[e].data
            AllSame(rrs, es) == /\ Len(rrs) = Len(es)
                                /\ \A i \in DOMAIN es : Same(rrs[i], es[i])
        IN  /\ read.ok /\ AllSame(read.rr_ans, reply.rr_ans)
            /\ rest.next = Len(pkt.body) + 1 /\ AllSame(rest.rrs, reply.rr_add)

\* When the responder has stopped no querier still believes in a service it was
\* told of, whenever the service was registered and whoever asked for it.
GoodbyeComplete == pc = "stopped" => believed = {}

\* mdnsd_stop frees the server only when the detached responder is done with it;
\* then every record is freed, and freed once, though it is in up to three lists.
FreedOnce ==
    freed => /\ pc = "stopped"
             /\ IsInjective(released) /\ ToSet(released) = DOMAIN heap

\* A registered service is announced, unless the user quits first.
Announced == services # <<>> ~> ToSet(services) \cap believed # {} \/ mpc # "keys"

\* mdnsd_stop returns, whatever the responder was doing when it was called, and
\* main then joins the publisher and returns, unless the server was freed while
\* the publisher was still registering with it.  A quit that finds garbage in svr
\* is not spoken of: main may then crash or wait for ever.
QuitEnds ==
    /\ mpc = "stopFlag" ~> mpc = "stopThread"
    /\ mpc = "stopThread" /\ (freed => ppc = "sleep") ~> mpc = "done"
=============================================================================

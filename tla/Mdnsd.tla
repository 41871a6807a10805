------------------------------- MODULE Mdnsd -------------------------------
(***************************************************************************)
(* The mDNS responder: a detached thread that answers the queries of the   *)
(* network from the records other threads register, announces services     *)
(* and, when it is stopped, says goodbye for them.                         *)
(*                                                                         *)
(* Every critical section of data_lock is one action: a reply is put       *)
(* together by one locked lookup after the other, and a registration may   *)
(* come between two of them.                                               *)
(*                                                                         *)
(* A definition named after another one with a suffix is that definition   *)
(* with a fault seeded.                                                    *)
(***************************************************************************)
EXTENDS MdnsPacket

CONSTANT Packets    \* what other hosts may multicast

\* The counts of a packet and the times to live of its records are numbers.
ASSUME PacketsAssumption ==
    \A pkt \in Packets :
        /\ pkt.num_qn \in Nat /\ pkt.num_ans_rr \in Nat
        /\ \A r \in ToSet(mdns_parse_pkt(pkt).rr_ans) : r.ttl \in Nat

VARIABLES
    heap,           \* the rr_entry structures, in the order they were created
    group,          \* svr->group
    announce,       \* svr->announce
    services,       \* svr->services
    hostname,       \* svr->hostname, <<>> is NULL
    notify_pipe,    \* bytes written to the pipe and not read
    stop_flag,
    released,       \* history: <<>>, then the records mdnsd_stop has freed
    pc,             \* where main_loop is
    reply,          \* mdns_reply
    request,        \* what the reply answers: the lookups asked for, the known answers
    job,            \* lookups left, and the position of add_related_rr in its list
    seen,           \* history: svr->group when the request was taken up
    believed        \* history: the services a querier has been told of and not taken leave of

registry  == <<heap, group, announce, services, hostname>>
shutdown  == <<stop_flag, released>>
responder == <<pc, reply, request, job, seen, believed>>
mdnsd     == <<registry, notify_pipe, shutdown, responder>>

ResponderPc == {"off", "loop", "select", "answer", "related", "send", "announce",
                "goodbye", "sendBye", "finish", "stopped"}

NoJob == [calls |-> <<>>, section |-> "rr_ans", at |-> 1]

MdnsdTypeOK ==
    /\ \A e \in ToSet(announce) \cup ToSet(services) : e \in DOMAIN heap
    /\ \A g \in ToSet(group) : \A e \in ToSet(g.rr) : heap[e].name = g.name
    /\ notify_pipe \in Nat /\ stop_flag \in 0..2
    /\ pc \in ResponderPc
    /\ ToSet(reply.rr_ans) \cup ToSet(reply.rr_add) \cup believed \subseteq DOMAIN heap
    /\ job.at \in 1..Len(heap) + 1

MdnsdInit ==
    /\ heap = <<>> /\ group = <<>> /\ announce = <<>> /\ services = <<>> /\ hostname = <<>>
    /\ notify_pipe = 0 /\ stop_flag = 0 /\ released = <<>>
    /\ pc = "off" /\ reply = mdns_init_reply(0)
    /\ request = [calls |-> <<>>, known |-> <<>>]
    /\ job = NoJob /\ seen = <<>> /\ believed = {}

-----------------------------------------------------------------------------
(* Registration, called by other threads                                   *)

\* mdnsd_start creates the thread.
Started == pc = "off" /\ pc' = "loop"

\* The n records after the first ones of the memory h join their groups.
rr_group_addAll(h, first, n) ==
    LET g[i \in 0..n] == IF i = 0 THEN group ELSE rr_group_add(g[i - 1], h, first + i)
    IN  g[n]

AddRecords(records) ==
    \E h \in {heap \o records} :
        heap' = h /\ group' = rr_group_addAll(h, Len(heap), Len(records))

mdnsd_set_hostname(text, ip) ==
    /\ hostname = <<>>
    /\ hostname' = create_nlabel(text)
    /\ AddRecords(<<rr_create_a(create_nlabel(text), ip),
                    [rr_set_nsec(rr_create(create_nlabel(text), "NSEC"), "A")
                      EXCEPT !.ttl = DEFAULT_TTL_FOR_RECORD_WITH_HOSTNAME]>>)
    /\ UNCHANGED <<announce, services>>

mdnsd_add_rr(rr) ==
    /\ AddRecords(<<rr>>)
    /\ UNCHANGED <<announce, services, hostname>>

\* The records of a service: TXT if it has texts, SRV, the PTR of its type and
\* the PTR that lists the type.  The host is the server's own.
ServiceRecords(instance_name, type, port, txt) ==
    LET type_nlabel == create_nlabel(type)
        nlabel == join_nlabel(create_label(instance_name), type_nlabel)
        txt_e == rr_add_txt(rr_create(nlabel, "TXT"), txt)
    IN  (IF txt = <<>> THEN <<>> ELSE <<txt_e>>) \o
        <<rr_create_srv(nlabel, port, hostname),
          rr_create_ptr(type_nlabel, nlabel),
          rr_create_ptr(SERVICES_DNS_SD_NLABEL, type_nlabel)>>

\* The PTR that lists the type takes the place of the service in the lists.
mdnsd_register_svc_WrongPtr(instance_name, type, port, txt) ==
    /\ hostname # <<>>
    /\ AddRecords(ServiceRecords(instance_name, type, port, txt))
    /\ announce' = rr_list_append(announce, Len(heap') - 1)
    /\ services' = rr_list_append(services, Len(heap'))
    /\ UNCHANGED hostname

mdnsd_register_svc(instance_name, type, port, txt) ==
    /\ hostname # <<>>
    /\ AddRecords(ServiceRecords(instance_name, type, port, txt))
    /\ announce' = rr_list_append(announce, Len(heap') - 1)
    /\ services' = rr_list_append(services, Len(heap') - 1)
    /\ UNCHANGED hostname

write_pipe_Lost == notify_pipe' = notify_pipe

write_pipe == notify_pipe' = notify_pipe + 1

-----------------------------------------------------------------------------
(* main_loop                                                               *)

\* A new reply is begun: the lookups of its questions, the known answers.
Begin(id, calls, known) ==
    /\ reply' = mdns_init_reply(id)
    /\ request' = [calls |-> calls, known |-> known]
    /\ job' = [NoJob EXCEPT !.calls = calls]
    /\ seen' = group
    /\ pc' = "answer"

Loop ==
    /\ pc = "loop"
    /\ pc' = IF stop_flag = 0 THEN "select" ELSE "goodbye"
    /\ UNCHANGED <<registry, notify_pipe, shutdown, reply, request, job, seen, believed>>

\* The notify pipe goes first; one byte of it is read.
Notified ==
    /\ pc = "select" /\ notify_pipe > 0
    /\ notify_pipe' = notify_pipe - 1 /\ pc' = "announce"
    /\ UNCHANGED <<registry, shutdown, reply, request, job, seen, believed>>

\* process_mdns_pkt takes up a standard query; questions for a unicast answer
\* are skipped.
IsQuery(m) == m.ok /\ m.flags < MDNS_FLAG_RESP /\ MDNS_FLAG_GET_OPCODE(m.flags) = 0

Lookups(rr_qn) ==
    LET multicast == Kept(rr_qn, {q \in ToSet(rr_qn) : q.unicast_query = 0})
    IN  [i \in DOMAIN multicast |-> <<multicast[i].name, multicast[i].type>>]

\* What the packets hold, worked out once.
Parsed == [pkt \in Packets |-> mdns_parse_pkt(pkt)]

process_mdns_pkt(pkt) ==
    LET m == Parsed[pkt] IN
    /\ pc = "select" /\ notify_pipe = 0
    /\ IF IsQuery(m)
       THEN Begin(m.id, Lookups(m.rr_qn), m.rr_ans)
       ELSE pc' = "announce" /\ UNCHANGED <<reply, request, job, seen>>
    /\ UNCHANGED <<registry, notify_pipe, shutdown, believed>>

\* populate_answers for the next question; when all are answered the known
\* answers are removed (an announcement has none).
Answer ==
    /\ pc = "answer"
    /\ IF job.calls # <<>>
       THEN LET c == Head(job.calls) IN
            /\ reply' = PopulateAnswers(reply, Answers(group, heap, c[1], c[2]))
            /\ job' = [job EXCEPT !.calls = Tail(@)]
            /\ pc' = pc
       ELSE /\ reply' = RemoveKnown(reply, heap, request.known)
            /\ job' = NoJob /\ pc' = "related"
    /\ UNCHANGED <<registry, notify_pipe, shutdown, request, seen, believed>>

\* add_related_rr over the answers, then over the additional records
\* themselves, a list that grows while it is walked.
add_related_rr ==
    /\ pc = "related"
    /\ UNCHANGED <<registry, notify_pipe, shutdown, request, seen, believed>>
    /\ \/ /\ job.calls # <<>>
          /\ LET c == Head(job.calls)
             IN  reply' = PopulateAdditional(reply, Answers(group, heap, c[1], c[2]))
          /\ job' = [job EXCEPT !.calls = Tail(@)]
          /\ UNCHANGED pc
       \/ /\ job.calls = <<>> /\ job.at <= Len(reply[job.section])
          /\ job' = [job EXCEPT !.calls = Related(heap[reply[job.section][job.at]]),
                                !.at = @ + 1]
          /\ UNCHANGED <<reply, pc>>
       \/ /\ job.calls = <<>> /\ job.at > Len(reply[job.section])
          /\ IF job.section = "rr_ans"
             THEN job' = [NoJob EXCEPT !.section = "rr_add"] /\ pc' = pc
             ELSE job' = NoJob /\ pc' = "send"
          /\ UNCHANGED reply

\* What the queriers know once a packet with these records has been sent.
IsService(e) == heap[e].type = "PTR" /\ heap[e].name # SERVICES_DNS_SD_NLABEL
Told(es) == (believed \cup {e \in es : IsService(e) /\ heap[e].ttl > 0})
                \ {e \in es : heap[e].ttl = 0}

send_packet(es) == believed' = IF reply.num_ans_rr > 0 THEN Told(es) ELSE believed

Send ==
    /\ pc = "send" /\ pc' = "announce"
    /\ send_packet(ToSet(reply.rr_ans) \cup ToSet(reply.rr_add))
    /\ UNCHANGED <<registry, notify_pipe, shutdown, reply, request, job, seen>>

\* The head of the announce list is taken off and announce_srv begun.
Announce ==
    /\ pc = "announce"
    /\ IF announce = <<>>
       THEN pc' = "loop" /\ UNCHANGED <<announce, reply, request, job, seen>>
       ELSE /\ announce' = rr_list_remove(announce, Head(announce))
            /\ Begin(0, <<<<heap[Head(announce)].name, "PTR">>,
                          <<SERVICES_DNS_SD_NLABEL, "PTR">>>>, <<>>)
    /\ UNCHANGED <<heap, group, services, hostname, notify_pipe, shutdown, believed>>

\* The time to live of every service becomes 0, in the records themselves.
Goodbye ==
    /\ pc = "goodbye" /\ pc' = "sendBye"
    /\ heap' = [e \in DOMAIN heap |->
                  IF Contains(services, e) THEN [heap[e] EXCEPT !.ttl = 0] ELSE heap[e]]
    /\ reply' = PopulateAnswers(mdns_init_reply(0), services)
    /\ UNCHANGED <<group, announce, services, hostname, notify_pipe, shutdown,
                   request, job, seen, believed>>

SendBye ==
    /\ pc = "sendBye" /\ pc' = "finish"
    /\ send_packet(ToSet(reply.rr_ans))
    /\ reply' = mdns_init_reply(0)
    /\ UNCHANGED <<registry, notify_pipe, shutdown, request, job, seen>>

\* The thread's last access to the server.
Finish ==
    /\ pc = "finish" /\ pc' = "stopped"
    /\ stop_flag' = 2
    /\ UNCHANGED <<registry, notify_pipe, released, reply, request, job, seen, believed>>

Receive == \E pkt \in Packets : process_mdns_pkt(pkt)

main_loop ==
    Loop \/ Notified \/ Answer \/ add_related_rr \/ Send \/ Announce \/ Goodbye \/ SendBye \/ Finish

-----------------------------------------------------------------------------
(* mdnsd_stop, called by another thread                                    *)

\* The loop is entered only while the thread has not seen the flag.
Stopped_Flag1 == stop_flag # 0

StopFlag == stop_flag' = 1 /\ UNCHANGED released
Stopped == stop_flag = 2

\* Everything is freed; the groups own the records, the other lists do not.
Release ==
    /\ released' = rr_group_destroy(group)
    /\ group' = <<>> /\ announce' = <<>> /\ services' = <<>>
    /\ UNCHANGED <<heap, hostname, stop_flag>>
=============================================================================

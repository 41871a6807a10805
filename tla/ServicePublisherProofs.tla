----------------------- MODULE ServicePublisherProofs -----------------------
(***************************************************************************)
(* Theorems about the mDNS responder and the threads that register with it *)
(* and stop it, for any packets and interfaces.  Each of the invariants    *)
(* below is inductive given those before it.                               *)
(***************************************************************************)
EXTENDS ServicePublisher, MdnsPacketProofs

-----------------------------------------------------------------------------
(* The invariants                                                          *)

\* How far a quit has come is the same on both sides: the responder has ended
\* if and only if it has said so, and only then is anything freed.
ControlInv ==
    /\ pc \in ResponderPc /\ ppc \in PublisherPc /\ mpc \in MainPc
    /\ svr \in {"null", "garbage", "set"} /\ freed \in BOOLEAN /\ stop_thread \in BOOLEAN
    /\ notify_pipe \in Nat /\ stop_flag \in 0..2
    /\ mpc \in {"keys", "stopFlag"} => stop_flag = 0
    /\ stop_flag = 2 <=> pc = "stopped"
    /\ pc \in {"goodbye", "sendBye", "finish"} => stop_flag # 0
    /\ freed => pc = "stopped" /\ mpc \in {"stopThread", "join", "done"}

\* Until they are freed the groups hold every record, and services every service.
RegistryInv ==
    /\ IsHeap(heap)
    /\ announce \in Seq(DOMAIN heap)
    /\ services \in Seq(DOMAIN heap) /\ IsInjective(services)
    /\ ~freed => /\ GroupsOf(heap, group, DOMAIN heap)
                 /\ \A e \in DOMAIN heap : IsService(e) => e \in ToSet(services)
    /\ freed => group = <<>> /\ IsInjective(released) /\ ToSet(released) = DOMAIN heap

\* The goodbye lists all that anybody believes in.
ReplyInv ==
    /\ IsReply(reply, DOMAIN heap)
    /\ believed \subseteq {e \in DOMAIN heap : IsService(e)}
    /\ pc = "sendBye" => /\ believed \subseteq ToSet(reply.rr_ans)
                         /\ \A e \in ToSet(reply.rr_ans) : heap[e].ttl = 0
    /\ pc \in {"finish", "stopped"} => believed = {}

\* Where add_related_rr is in the list it walks.
JobInv ==
    /\ job = [calls |-> job.calls, section |-> job.section, at |-> job.at]
    /\ IsSeq(job.calls) /\ job.section \in {"rr_ans", "rr_add"}
    /\ job.at \in Nat \ {0} /\ job.at <= Len(reply[job.section]) + 1
    /\ pc # "related" => job.section = "rr_ans" /\ job.at = 1

\* What rr_entry_match finds for record e among the known answers, and whether
\* the answer e is dropped for it.
Matched(k, e) ==
    /\ k.name = heap[e].name /\ k.type = heap[e].type
    /\ k.type = "PTR" => k.data = heap[e].data
Dropped(e) == \E i \in DOMAIN request.known :
                  /\ Matched(request.known[i], e)
                  /\ \A j \in 1..(i - 1) : ~Matched(request.known[j], e)
                  /\ 2 * request.known[i].ttl + 1 >= heap[e].ttl

\* Every registered record that has been asked for is in the reply or will be
\* found by a lookup that is left.
AnswerInv ==
    /\ request = [calls |-> request.calls, known |-> request.known]
    /\ IsSeq(request.calls) /\ IsSeq(request.known)
    /\ \A k \in ToSet(request.known) : k.ttl \in Nat
    /\ Registered(seen) \subseteq DOMAIN heap
    /\ pc = "answer" =>
        /\ ToSet(job.calls) \subseteq ToSet(request.calls)
        /\ \A e \in ToSet(reply.rr_ans) : Asked(e)
        /\ \A e \in Registered(seen) :
              Asked(e) => \/ e \in ToSet(reply.rr_ans)
                          \/ \E c \in ToSet(job.calls) : Matches(heap[e], c[1], c[2])
    /\ pc \in {"related", "send"} =>
        /\ \A e \in ToSet(reply.rr_ans) : Asked(e) /\ ~Dropped(e)
        /\ \A e \in Registered(seen) : Asked(e) /\ ~Dropped(e) => e \in ToSet(reply.rr_ans)

\* The records whose needs add_related_rr has looked up, or is looking up.
Walked ==
    IF job.section = "rr_ans" THEN {reply.rr_ans[i] : i \in 1..(job.at - 1)}
    ELSE ToSet(reply.rr_ans) \cup {reply.rr_add[i] : i \in 1..(job.at - 1)}

NothingSpare ==
    \A S \in SUBSET ToSet(reply.rr_add) :
        ClosedUnderNeeds(ToSet(reply.rr_ans), S, ToSet(reply.rr_add)) => S = ToSet(reply.rr_add)

\* What a walked record needs is among the additional records or will be found
\* by a lookup that is left; and a lookup is left only for a record that needs it.
AdditionalInv ==
    /\ pc = "answer" => reply.rr_add = <<>>
    /\ pc = "related" =>
        /\ \A e \in Walked : \A x \in Registered(seen) :
              Needs(e, x) => \/ x \in ToSet(reply.rr_add)
                             \/ \E c \in ToSet(job.calls) : Matches(heap[x], c[1], c[2])
        /\ \A c \in ToSet(job.calls) :
              \E e \in ToSet(reply.rr_ans) \cup ToSet(reply.rr_add) : c \in ToSet(Related(heap[e]))
        /\ NothingSpare
    /\ pc = "send" =>
        /\ ClosedUnderNeeds(ToSet(reply.rr_ans), ToSet(reply.rr_add), Registered(seen))
        /\ NothingSpare

\* What is registered can be written into a packet: names are lists of labels,
\* and the data is what the type of the record says.
WritableInv ==
    /\ IsSeq(hostname)
    /\ \A e \in DOMAIN heap : Encodable(heap[e])

-----------------------------------------------------------------------------
(* The steps                                                               *)

\* The steps that touch neither the records nor the responder's work.
Quiet == UNCHANGED <<heap, group, announce, services, released, pc, reply, request, job, seen,
                     believed, freed>>

\* The calls that register records.
Registers == SetHostname \/ AddOther \/ RegisterService

\* What a step does to the records and the responder's work.
LEMMA StepCases ==
    ASSUME Next
    PROVE  \/ Quiet
           \/ Registers
           \/ StopFrees
           \/ mdnsd_start /\ pc = "off" /\ pc' = "loop"
           \/ (main_loop \/ Receive) /\ UNCHANGED <<publisher, main>>
<1> USE DEF mdnsd, registry, shutdown, responder, publisher, main, Quiet
<1>1. CASE Responder
  BY <1>1 DEF Responder
<1>2. CASE Publisher
  <2>1. CASE mdnsd_start
    BY <2>1 DEF mdnsd_start, Started
  <2>2. CASE Assign \/ GetIfAddrs \/ NoOthers \/ NotifyServer \/ UsesFreed \/ PublisherExits
    BY <2>2 DEF Assign, GetIfAddrs, NoOthers, NotifyServer, UsesFreed, PublisherExits
  <2> QED
    BY <1>2, <2>1, <2>2 DEF Publisher, Registers
<1>3. CASE Main
  BY <1>3 DEF Main, SetStopFlag, StopNotifies, StopThread, Join, StopFlag
<1>4. CASE Environment
  BY <1>4 DEF Environment, Unregister
<1> QED
  BY <1>1, <1>2, <1>3, <1>4 DEF Next

-----------------------------------------------------------------------------
(* The quit                                                                *)

LEMMA ControlInit == Init => ControlInv
<1> SUFFICES ASSUME Init PROVE ControlInv
  OBVIOUS
<1>1. /\ pc = "off" /\ ppc = "start" /\ mpc = "keys" /\ notify_pipe = 0 /\ stop_flag = 0
      /\ svr \in {"null", "garbage"} /\ freed = FALSE /\ stop_thread = FALSE
  BY DEF Init, MdnsdInit
<1>2. freed \in BOOLEAN /\ ~freed /\ stop_thread \in BOOLEAN
  BY <1>1, Zenon
<1>3. /\ pc = "off" /\ ppc = "start" /\ mpc = "keys" /\ notify_pipe = 0 /\ stop_flag = 0
      /\ svr \in {"null", "garbage"}
  BY <1>1
<1> QED
  BY <1>2, <1>3 DEF ControlInv, ResponderPc, PublisherPc, MainPc

\* ControlInv is kept by the responder, the publisher and main.
LEMMA ControlResponder ==
    ASSUME ControlInv, main_loop \/ Receive, UNCHANGED <<publisher, main>>
    PROVE  ControlInv'
<1> USE DEF publisher, main, ControlInv, ResponderPc, shutdown
<1>1. CASE Loop \/ Notified
  BY <1>1 DEF Loop, Notified
<1>2. CASE Answer \/ add_related_rr \/ Send
  BY <1>2 DEF Answer, add_related_rr, Send
<1>3. CASE Announce
  BY <1>3 DEF Announce, Begin
<1>4. CASE Goodbye \/ SendBye \/ Finish
  BY <1>4 DEF Goodbye, SendBye, Finish
<1>5. CASE Receive
  BY <1>5 DEF Receive, process_mdns_pkt, Begin
<1> QED
  BY <1>1, <1>2, <1>3, <1>4, <1>5 DEF main_loop

LEMMA ControlPublisher ==
    ASSUME ControlInv, Publisher
    PROVE  ControlInv'
<1> USE DEF mdnsd, registry, shutdown, responder, main, ControlInv, ResponderPc, PublisherPc
<1>1. CASE mdnsd_start \/ Assign \/ GetIfAddrs
  BY <1>1 DEF mdnsd_start, Started, Assign, GetIfAddrs
<1>2. CASE Registers
  BY <1>2 DEF Registers, SetHostname, AddOther, RegisterService
<1>3. CASE NoOthers \/ NotifyServer \/ UsesFreed \/ PublisherExits
  BY <1>3 DEF NoOthers, NotifyServer, write_pipe, UsesFreed, PublisherExits
<1> QED
  BY <1>1, <1>2, <1>3 DEF Publisher, Registers

LEMMA ControlMain ==
    ASSUME ControlInv, Main \/ Unregister
    PROVE  ControlInv'
<1> USE DEF mdnsd, registry, shutdown, responder, publisher, ControlInv, MainPc
<1>1. CASE SetStopFlag \/ StopNotifies
  BY <1>1 DEF SetStopFlag, StopFlag, StopNotifies, write_pipe
<1>2. CASE StopFrees
  BY <1>2 DEF StopFrees, Stopped, Release
<1>3. CASE StopThread
  <2>1. /\ mpc = "stopThread" /\ mpc' = "join" /\ stop_thread' = TRUE
        /\ UNCHANGED <<pc, ppc, svr, freed, notify_pipe, stop_flag>>
    BY <1>3 DEF StopThread
  <2> QED
    BY <2>1
<1>5. CASE Join
  BY <1>5 DEF Join
<1>4. CASE Unregister
  BY <1>4 DEF Unregister
<1> QED
  BY <1>1, <1>2, <1>3, <1>4, <1>5 DEF Main

LEMMA ControlKept == ControlInv /\ [Next]_vars => ControlInv'
<1> SUFFICES ASSUME ControlInv, [Next]_vars PROVE ControlInv'
  OBVIOUS
<1>1. CASE UNCHANGED vars
  BY <1>1 DEF vars, mdnsd, registry, shutdown, responder, publisher, main, ControlInv
<1>2. CASE Next
  BY <1>2, ControlResponder, ControlPublisher, ControlMain DEF Next, Responder, Environment
<1> QED
  BY <1>1, <1>2

LEMMA ControlHolds == Spec => []ControlInv
BY ControlInit, ControlKept, PTL DEF Spec

-----------------------------------------------------------------------------
(* The records                                                             *)

\* Records are appended to the memory and otherwise left alone.
Grows == /\ DOMAIN heap \subseteq DOMAIN heap'
         /\ \A e \in DOMAIN heap : heap'[e] = heap[e]

\* The recursion of rr_group_addAll has a solution.
AddedUpTo(h, first, n, g) ==
    g = [i \in 0..n |-> IF i = 0 THEN group ELSE rr_group_add(g[i - 1], h, first + i)]

LEMMA AddedSolved ==
    ASSUME NEW h, NEW first, NEW n \in Nat
    PROVE  \E g : AddedUpTo(h, first, n, g)
<1> DEFINE Sol == {k \in Nat : \E g : AddedUpTo(h, first, k, g)}
<1>1. 0 \in Sol
  <2>1. AddedUpTo(h, first, 0, [i \in 0..0 |-> group])
    BY DEF AddedUpTo
  <2> QED
    BY <2>1
<1>2. ASSUME NEW k \in Nat, k \in Sol PROVE k + 1 \in Sol
  <2>1. PICK f : AddedUpTo(h, first, k, f)
    BY <1>2
  <2> DEFINE last == rr_group_add(f[k], h, first + (k + 1))
             g == [i \in 0..(k + 1) |-> IF i = k + 1 THEN last ELSE f[i]]
  <2>2. \A i \in 0..k : f[i] = IF i = 0 THEN group ELSE rr_group_add(f[i - 1], h, first + i)
    BY <2>1 DEF AddedUpTo
  <2>3. g = [i \in 0..(k + 1) |-> IF i = 0 THEN group ELSE rr_group_add(g[i - 1], h, first + i)]
    BY <2>2
  <2>4. AddedUpTo(h, first, k + 1, g)
    BY <2>3 DEF AddedUpTo
  <2> QED
    BY <2>4
<1> HIDE DEF Sol
<1>3. Nat \subseteq Sol
  BY <1>1, <1>2, Induction
<1> QED
  BY <1>3 DEF Sol

\* The new records join the groups.
LEMMA GroupAddAll ==
    ASSUME NEW h, NEW first \in Nat, NEW n \in Nat, GroupsOf(h, group, 1..first)
    PROVE  GroupsOf(h, rr_group_addAll(h, first, n), 1..(first + n))
<1> DEFINE c == CHOOSE g : AddedUpTo(h, first, n, g)
<1>1. AddedUpTo(h, first, n, c)
  BY AddedSolved
<1>2. rr_group_addAll(h, first, n) = c[n]
  BY DEF rr_group_addAll, AddedUpTo
<1> HIDE DEF c
<1>3. c[0] = group /\ \A i \in 1..n : c[i] = rr_group_add(c[i - 1], h, first + i)
  <2>1. c = [i \in 0..n |-> IF i = 0 THEN group ELSE rr_group_add(c[i - 1], h, first + i)]
    BY <1>1 DEF AddedUpTo
  <2>2. 0 \in 0..n /\ \A i \in 1..n : i \in 0..n /\ i # 0
    OBVIOUS
  <2> QED
    BY <2>1, <2>2
<1> DEFINE Good == {k \in Nat : k <= n => GroupsOf(h, c[k], 1..(first + k))}
<1>4. 0 \in Good
  BY <1>3
<1>5. ASSUME NEW k \in Nat, k \in Good PROVE k + 1 \in Good
  <2> SUFFICES ASSUME k + 1 <= n PROVE GroupsOf(h, c[k + 1], 1..(first + (k + 1)))
    OBVIOUS
  <2> DEFINE D == 1..(first + k)
             e == first + (k + 1)
  <2>1. GroupsOf(h, c[k], D)
    BY <1>5
  <2>2. k + 1 \in 1..n /\ k + 1 - 1 = k
    OBVIOUS
  <2>3. c[k + 1] = rr_group_add(c[k], h, e)
    BY <1>3, <2>2
  <2>4. e \notin D /\ 1..(first + (k + 1)) = D \cup {e}
    OBVIOUS
  <2> HIDE DEF D, e
  <2>5. GroupsOf(h, rr_group_add(c[k], h, e), D \cup {e})
    BY <2>1, <2>4, GroupAdd
  <2> QED
    BY <2>3, <2>4, <2>5
<1> HIDE DEF Good
<1>6. Nat \subseteq Good
  BY <1>4, <1>5, Induction
<1>7. n \in Good /\ n <= n
  BY <1>6
<1> QED
  BY <1>2, <1>7 DEF Good

\* Of the records of a service only the PTR of its type is a service.
LEMMA ServiceEntries ==
    ASSUME NEW instance, NEW type, NEW port, NEW txt, txt # <<>>
    PROVE  LET records == ServiceRecords(instance, type, port, txt) IN
           /\ IsHeap(records) /\ Len(records) = 4
           /\ \A i \in 1..4 : /\ records[i].type = "PTR"
                              /\ records[i].name # SERVICES_DNS_SD_NLABEL
                              => i = 3
<1> DEFINE tn == create_nlabel(type)
           nl == join_nlabel(create_label(instance), tn)
           a == rr_add_txt(rr_create(nl, "TXT"), txt)
           b == rr_create_srv(nl, port, hostname)
           c == rr_create_ptr(tn, nl)
           d == rr_create_ptr(SERVICES_DNS_SD_NLABEL, tn)
           records == ServiceRecords(instance, type, port, txt)
<1>1. records = <<a>> \o <<b, c, d>>
  BY DEF ServiceRecords
<1>2. IsEntry(a) /\ IsEntry(b) /\ IsEntry(c) /\ IsEntry(d)
  BY Entries
<1>3. a.type = "TXT" /\ b.type = "SRV" /\ d.name = SERVICES_DNS_SD_NLABEL
  BY DEF rr_create, rr_create_srv, rr_create_ptr, rr_add_txt
<1> HIDE DEF a, b, c, d, records
<1>4. Len(records) = 4 /\ records[1] = a /\ records[2] = b /\ records[4] = d
  BY <1>1
<1>5. IsHeap(records)
  BY <1>1, <1>2, HeapOf
<1>6. \A i \in 1..4 : i = 1 \/ i = 2 \/ i = 3 \/ i = 4
  OBVIOUS
<1>7. ASSUME NEW i \in 1..4, records[i].type = "PTR", records[i].name # SERVICES_DNS_SD_NLABEL
      PROVE  i = 3
  BY <1>3, <1>4, <1>6, <1>7
<1> QED
  BY <1>4, <1>5, <1>7 DEF records

\* What a registration does to the memory and the groups.
LEMMA Adding ==
    ASSUME RegistryInv, ~freed, NEW records, IsHeap(records), AddRecords(records)
    PROVE  /\ IsHeap(heap') /\ Len(heap') = Len(heap) + Len(records)
           /\ Grows
           /\ \A e \in DOMAIN heap' \ DOMAIN heap :
                 e - Len(heap) \in DOMAIN records /\ heap'[e] = records[e - Len(heap)]
           /\ GroupsOf(heap', group', DOMAIN heap')
<1>1. /\ heap' = heap \o records
      /\ group' = rr_group_addAll(heap', Len(heap), Len(records))
  BY DEF AddRecords
<1>2. /\ Len(heap) \in Nat /\ DOMAIN heap = 1..Len(heap) /\ IsHeap(heap)
      /\ Len(records) \in Nat /\ DOMAIN records = 1..Len(records)
  BY HeapShape DEF RegistryInv
<1> DEFINE A == ToSet(heap) \cup ToSet(records)
<1>3. heap \in Seq(A) /\ records \in Seq(A)
  BY IsSeqSeq DEF IsHeap, RegistryInv
<1>4. /\ heap' \in Seq(A) /\ Len(heap') = Len(heap) + Len(records)
      /\ DOMAIN heap' = 1..Len(heap')
      /\ \A i \in 1..Len(heap) : heap'[i] = heap[i]
      /\ \A i \in 1..Len(records) : heap'[Len(heap) + i] = records[i]
  BY <1>1, <1>3
<1> HIDE DEF A
<1>5. \A e \in DOMAIN heap' \ DOMAIN heap :
                 e - Len(heap) \in DOMAIN records /\ heap'[e] = records[e - Len(heap)]
  <2> SUFFICES ASSUME NEW e \in DOMAIN heap' \ DOMAIN heap
               PROVE  e - Len(heap) \in DOMAIN records /\ heap'[e] = records[e - Len(heap)]
    OBVIOUS
  <2> DEFINE i == e - Len(heap)
  <2>1. i \in 1..Len(records) /\ Len(heap) + i = e
    BY <1>2, <1>4
  <2> HIDE DEF i
  <2>2. heap'[e] = records[i]
    BY <1>4, <2>1
  <2> QED
    BY <1>2, <2>1, <2>2 DEF i
<1>6. Grows
  BY <1>2, <1>4 DEF Grows
<1>7. IsHeap(heap')
  <2>1. IsSeq(heap')
    BY <1>4, SeqIsSeq
  <2>2. \A e \in DOMAIN heap' : IsEntry(heap'[e])
    <3>1. \A e \in DOMAIN heap : IsEntry(heap'[e])
      BY <1>2, <1>6, HeapShape DEF Grows
    <3>2. \A i \in DOMAIN records : IsEntry(records[i])
      BY HeapShape
    <3> QED
      BY <1>5, <3>1, <3>2
  <2> QED
    BY <2>1, <2>2 DEF IsHeap
<1>8. GroupsOf(heap', group, 1..Len(heap))
  <2>1. GroupsOf(heap, group, DOMAIN heap)
    BY DEF RegistryInv
  <2>2. \A e \in DOMAIN heap : heap'[e].name = heap[e].name
    BY <1>6 DEF Grows
  <2> QED
    BY <1>2, <2>1, <2>2, GroupsKept
<1>9. GroupsOf(heap', group', DOMAIN heap')
  <2>1. GroupsOf(heap', rr_group_addAll(heap', Len(heap), Len(records)),
                 1..(Len(heap) + Len(records)))
    BY <1>2, <1>8, GroupAddAll
  <2> QED
    BY <1>1, <1>4, <2>1
<1> QED
  BY <1>4, <1>5, <1>6, <1>7, <1>9

\* The calls that register records leave the responder's work alone.
LEMMA RegisterStep ==
    ASSUME ControlInv, RegistryInv, Registers
    PROVE  /\ ~freed /\ UNCHANGED <<shutdown, responder, freed>>
           /\ IsHeap(heap') /\ Grows
           /\ GroupsOf(heap', group', DOMAIN heap')
           /\ announce' \in Seq(DOMAIN heap') /\ services' \in Seq(DOMAIN heap')
           /\ IsInjective(services')
           /\ \A e \in DOMAIN heap' : IsService(e)' => e \in ToSet(services')
<1>1. ~freed /\ UNCHANGED <<shutdown, responder, freed>>
  BY DEF Registers, SetHostname, AddOther, RegisterService, Alive, main
<1>2. /\ IsHeap(heap) /\ Len(heap) \in Nat /\ DOMAIN heap = 1..Len(heap)
      /\ announce \in Seq(DOMAIN heap) /\ services \in Seq(DOMAIN heap) /\ IsInjective(services)
      /\ \A e \in DOMAIN heap : IsService(e) => e \in ToSet(services)
  BY <1>1, HeapShape DEF RegistryInv
<1>3. ASSUME NEW records, IsHeap(records), AddRecords(records),
             \A i \in DOMAIN records : records[i].type # "PTR",
             UNCHANGED <<announce, services>>
      PROVE  /\ IsHeap(heap') /\ Grows /\ GroupsOf(heap', group', DOMAIN heap')
             /\ announce' \in Seq(DOMAIN heap') /\ services' \in Seq(DOMAIN heap')
             /\ IsInjective(services')
             /\ \A e \in DOMAIN heap' : IsService(e)' => e \in ToSet(services')
  <2>1. /\ IsHeap(heap') /\ Grows
        /\ \A e \in DOMAIN heap' \ DOMAIN heap :
                 e - Len(heap) \in DOMAIN records /\ heap'[e] = records[e - Len(heap)]
        /\ GroupsOf(heap', group', DOMAIN heap')
    BY <1>1, <1>3, Adding
  <2>2. announce \in Seq(DOMAIN heap') /\ services \in Seq(DOMAIN heap')
    BY <1>2, <2>1, ListGrows DEF Grows
  <2>3. \A e \in DOMAIN heap' : heap'[e].type = "PTR" => e \in DOMAIN heap
    BY <1>3, <2>1
  <2>4. \A e \in DOMAIN heap : IsService(e)' => IsService(e)
    BY <2>1 DEF Grows, IsService
  <2>5. \A e \in DOMAIN heap' : IsService(e)' => e \in ToSet(services)
    BY <1>2, <2>3, <2>4 DEF IsService
  <2> QED
    BY <1>2, <1>3, <2>1, <2>2, <2>5
<1>4. CASE SetHostname
  <2> DEFINE a == rr_create_a(create_nlabel(HostText), Head(ifa))
             n == [rr_set_nsec(rr_create(create_nlabel(HostText), "NSEC"), "A")
                     EXCEPT !.ttl = DEFAULT_TTL_FOR_RECORD_WITH_HOSTNAME]
             records == <<a, n>>
  <2>1. AddRecords(records) /\ UNCHANGED <<announce, services>>
    BY <1>4 DEF SetHostname, mdnsd_set_hostname
  <2>2. IsEntry(a) /\ IsEntry(n) /\ a.type = "A" /\ n.type = "NSEC"
    BY Entries DEF rr_create_a, rr_create, rr_set_nsec
  <2> HIDE DEF a, n
  <2>3. IsHeap(records) /\ \A i \in DOMAIN records : records[i].type # "PTR"
    BY <2>2, HeapOf
  <2> HIDE DEF records
  <2> QED
    BY <1>1, <1>3, <2>1, <2>3
<1>5. CASE AddOther
  <2> DEFINE a == rr_create_a(create_nlabel(HostText), Head(ifa))
             records == <<a>>
  <2>1. AddRecords(records) /\ UNCHANGED <<announce, services>>
    BY <1>5 DEF AddOther, mdnsd_add_rr
  <2>2. IsEntry(a) /\ a.type = "A"
    BY Entries DEF rr_create_a, rr_create
  <2> HIDE DEF a
  <2>3. IsHeap(records) /\ \A i \in DOMAIN records : records[i].type # "PTR"
    BY <2>2, HeapOf
  <2> HIDE DEF records
  <2> QED
    BY <1>1, <1>3, <2>1, <2>3
<1>6. CASE RegisterService
  <2> DEFINE records == ServiceRecords(Instance, RegType, LIGHTNINGCASTTCPPORT, <<"ver=1.0">>)
             e == Len(heap') - 1
  <2>1. /\ AddRecords(records)
        /\ announce' = rr_list_append(announce, e) /\ services' = rr_list_append(services, e)
    BY <1>6 DEF RegisterService, mdnsd_register_svc
  <2>2. /\ IsHeap(records) /\ Len(records) = 4 /\ DOMAIN records = 1..4
        /\ \A i \in 1..4 : records[i].type = "PTR" /\ records[i].name # SERVICES_DNS_SD_NLABEL
                              => i = 3
    BY ServiceEntries, HeapShape, <<"ver=1.0">> # <<>>
  <2> HIDE DEF records
  <2>3. /\ IsHeap(heap') /\ Len(heap') = Len(heap) + 4 /\ Grows
        /\ \A x \in DOMAIN heap' \ DOMAIN heap :
                 x - Len(heap) \in DOMAIN records /\ heap'[x] = records[x - Len(heap)]
        /\ GroupsOf(heap', group', DOMAIN heap')
    BY <1>1, <2>1, <2>2, Adding
  <2>4. DOMAIN heap' = 1..Len(heap') /\ e \in DOMAIN heap'
    BY <1>2, <2>3, HeapShape
  <2>5. announce \in Seq(DOMAIN heap') /\ services \in Seq(DOMAIN heap')
    BY <1>2, <2>3, ListGrows DEF Grows
  <2>6. /\ announce' \in Seq(DOMAIN heap') /\ services' \in Seq(DOMAIN heap')
        /\ ToSet(services') = ToSet(services) \cup {e} /\ IsInjective(services')
    <3> HIDE DEF e
    <3> QED
      BY <1>2, <2>1, <2>4, <2>5, ListAppend
  <2>7. ASSUME NEW x \in DOMAIN heap', IsService(x)' PROVE x \in ToSet(services')
    <3>1. CASE x \in DOMAIN heap
      <4>1. IsService(x)
        BY <2>3, <2>7, <3>1 DEF Grows, IsService
      <4> QED
        BY <1>2, <2>6, <3>1, <4>1
    <3>2. CASE x - Len(heap) \in DOMAIN records /\ heap'[x] = records[x - Len(heap)]
      <4>1. x - Len(heap) = 3
        BY <2>2, <2>7, <3>2 DEF IsService
      <4>2. x \in Int
        BY <2>4
      <4>3. x = e
        <5>1. Len(heap) \in Nat /\ Len(heap') = Len(heap) + 4
          BY <1>2, <2>3
        <5> QED
          BY <4>1, <4>2, <5>1
      <4> QED
        BY <2>6, <4>3
    <3> QED
      BY <2>3, <3>1, <3>2
  <2> QED
    BY <1>1, <2>3, <2>6, <2>7
<1> QED
  BY <1>1, <1>4, <1>5, <1>6 DEF Registers

\* The responder changes the records only to take leave.
LEMMA ResponderRegistry ==
    ASSUME ControlInv, main_loop \/ Receive
    PROVE  /\ ~freed /\ UNCHANGED <<group, services, released>>
           /\ UNCHANGED heap \/ Goodbye
           /\ announce' \in {announce, rr_list_remove(announce, Head(announce))}
<1> USE DEF registry, shutdown
<1>1. CASE Loop \/ Notified
  BY <1>1 DEF Loop, Notified, ControlInv
<1>2. CASE Answer \/ add_related_rr \/ Send
  BY <1>2 DEF Answer, add_related_rr, Send, ControlInv
<1>3. CASE Announce
  BY <1>3 DEF Announce, Begin, ControlInv
<1>4. CASE Goodbye \/ SendBye \/ Finish
  BY <1>4 DEF Goodbye, SendBye, Finish, ControlInv
<1>5. CASE Receive
  BY <1>5 DEF Receive, process_mdns_pkt, Begin, ControlInv
<1> QED
  BY <1>1, <1>2, <1>3, <1>4, <1>5 DEF main_loop

\* Taking leave changes nothing but the time to live of the services.
LEMMA GoodbyeHeap ==
    ASSUME RegistryInv, Goodbye
    PROVE  /\ IsHeap(heap') /\ DOMAIN heap' = DOMAIN heap
           /\ \A e \in DOMAIN heap : /\ heap'[e].name = heap[e].name
                                     /\ heap'[e].type = heap[e].type
                                     /\ e \in ToSet(services) => heap'[e].ttl = 0
<1>1. /\ IsHeap(heap) /\ Len(heap) \in Nat /\ DOMAIN heap = 1..Len(heap)
      /\ \A e \in DOMAIN heap : IsEntry(heap[e])
  BY HeapShape DEF RegistryInv
<1>2. \A e : Contains(services, e) <=> e \in ToSet(services)
  <2>1. services \in Seq(DOMAIN heap)
    BY DEF RegistryInv
  <2>2. DOMAIN services = 1..Len(services)
    BY <2>1
  <2> QED
    BY <2>2, ToSetIs DEF Contains
<1>3. heap' = [e \in DOMAIN heap |->
                 IF Contains(services, e) THEN [heap[e] EXCEPT !.ttl = 0] ELSE heap[e]]
  BY DEF Goodbye
<1>4. ASSUME NEW e \in DOMAIN heap
      PROVE  /\ IsEntry(heap'[e])
             /\ heap'[e].name = heap[e].name /\ heap'[e].type = heap[e].type
             /\ e \in ToSet(services) => heap'[e].ttl = 0
  <2> DEFINE r == heap[e]
  <2>1. IsEntry(r)
    BY <1>1
  <2>2. CASE Contains(services, e)
    <3>1. heap'[e] = [r EXCEPT !.ttl = 0]
      BY <1>3, <2>2
    <3> HIDE DEF r
    <3>2. [r EXCEPT !.ttl = 0] = [name |-> r.name, type |-> r.type, ttl |-> 0,
               cache_flush |-> r.cache_flush, rr_class |-> r.rr_class, data |-> r.data]
      BY <2>1 DEF IsEntry
    <3>3. /\ IsEntry([r EXCEPT !.ttl = 0]) /\ [r EXCEPT !.ttl = 0].name = r.name
          /\ [r EXCEPT !.ttl = 0].type = r.type /\ [r EXCEPT !.ttl = 0].ttl = 0
      BY <2>1, <3>2 DEF IsEntry
    <3> QED
      BY <3>1, <3>3 DEF r
  <2>3. CASE ~Contains(services, e)
    BY <1>2, <1>3, <2>1, <2>3
  <2> QED
    BY <2>2, <2>3
<1>5. DOMAIN heap' = DOMAIN heap
  BY <1>3
<1>6. IsSeq(heap')
  <2>1. heap' = [e \in 1..Len(heap) |-> heap'[e]]
    BY <1>1, <1>3
  <2> QED
    BY <1>1, <1>5, <2>1, FunctionIsSeq
<1> QED
  BY <1>4, <1>5, <1>6 DEF IsHeap

LEMMA RegistryInit == Init => RegistryInv
<1> SUFFICES ASSUME Init PROVE RegistryInv
  OBVIOUS
<1>1. heap = <<>> /\ group = <<>> /\ announce = <<>> /\ services = <<>> /\ ~freed
  BY DEF Init, MdnsdInit
<1>2. DOMAIN <<>> = {} /\ IsSeq(<<>>) /\ IsInjective(<<>>) /\ \A A : <<>> \in Seq(A)
  BY DEF IsSeq, IsInjective
<1>3. GroupsOf(<<>>, <<>>, {})
  BY <1>2 DEF GroupsOf
<1> QED
  BY <1>1, <1>2, <1>3 DEF RegistryInv, IsHeap

\* RegistryInv is kept by the responder, and by every step.
LEMMA RegistryResponder ==
    ASSUME ControlInv, RegistryInv, main_loop \/ Receive, UNCHANGED freed
    PROVE  RegistryInv'
<1>1. /\ ~freed /\ UNCHANGED <<group, services, released>>
      /\ UNCHANGED heap \/ Goodbye
      /\ announce' \in {announce, rr_list_remove(announce, Head(announce))}
  BY ResponderRegistry
<1>2. announce' \in Seq(DOMAIN heap)
  BY <1>1, ListRemove DEF RegistryInv
<1>3. CASE UNCHANGED heap
  BY <1>1, <1>2, <1>3 DEF RegistryInv, IsService
<1>4. CASE Goodbye
  <2>1. /\ IsHeap(heap') /\ DOMAIN heap' = DOMAIN heap
        /\ \A e \in DOMAIN heap : /\ heap'[e].name = heap[e].name
                                  /\ heap'[e].type = heap[e].type
    BY <1>4, GoodbyeHeap
  <2>2. GroupsOf(heap', group, DOMAIN heap)
    BY <1>1, <2>1, GroupsKept DEF RegistryInv
  <2> QED
    BY <1>1, <1>2, <2>1, <2>2 DEF RegistryInv, IsService
<1> QED
  BY <1>1, <1>3, <1>4

LEMMA RegistryKept == ControlInv /\ RegistryInv /\ [Next]_vars => RegistryInv'
<1> SUFFICES ASSUME ControlInv, RegistryInv, [Next]_vars PROVE RegistryInv'
  OBVIOUS
<1>1. CASE UNCHANGED <<heap, group, announce, services, released, freed>>
  BY <1>1 DEF RegistryInv, IsService
<1>2. CASE Registers
  BY <1>2, RegisterStep DEF RegistryInv
<1>3. CASE StopFrees
  <2>1. ~freed
    BY <1>3 DEF StopFrees, ControlInv
  <2>2. /\ released' = rr_group_destroy(group) /\ freed'
        /\ group' = <<>> /\ announce' = <<>> /\ services' = <<>> /\ heap' = heap
    BY <1>3 DEF StopFrees, Release
  <2>3. IsInjective(released') /\ ToSet(released') = DOMAIN heap
    BY <2>1, <2>2, DestroyedOnce DEF RegistryInv
  <2>4. IsInjective(<<>>) /\ \A A : <<>> \in Seq(A)
    BY DEF IsInjective
  <2> QED
    BY <2>2, <2>3, <2>4 DEF RegistryInv
<1>4. CASE (main_loop \/ Receive) /\ UNCHANGED <<publisher, main>>
  BY <1>4, RegistryResponder DEF main
<1> QED
  <2>1. UNCHANGED vars => UNCHANGED <<heap, group, announce, services, released, freed>>
    BY DEF vars, mdnsd, registry, shutdown, main
  <2>2. Quiet => UNCHANGED <<heap, group, announce, services, released, freed>>
    BY DEF Quiet
  <2>3. mdnsd_start => UNCHANGED <<heap, group, announce, services, released, freed>>
    BY DEF mdnsd_start, registry, shutdown, main
  <2> QED
    BY <1>1, <1>2, <1>3, <1>4, <2>1, <2>2, <2>3, StepCases

LEMMA RegistryHolds == Spec => [](ControlInv /\ RegistryInv)
BY ControlInit, ControlKept, RegistryInit, RegistryKept, PTL DEF Spec

\* FreedOnce holds: mdnsd_stop frees the records after the responder's last
\* access to them, and each of them once.
THEOREM FreesOnce == Spec => []FreedOnce
<1>1. ControlInv /\ RegistryInv => FreedOnce
  BY DEF ControlInv, RegistryInv, FreedOnce
<1> QED
  BY <1>1, RegistryHolds, PTL

-----------------------------------------------------------------------------
(* What the queriers believe                                               *)

\* The responder leaves its work as it is.
LEMMA ReplyGrowing ==
    ASSUME ReplyInv, Grows, UNCHANGED <<pc, reply, believed>>
    PROVE  ReplyInv'
<1>1. IsReply(reply', DOMAIN heap')
  BY ReplyGrows DEF ReplyInv, Grows
<1>2. believed' \subseteq {e \in DOMAIN heap' : IsService(e)'}
  BY DEF ReplyInv, Grows, IsService
<1>3. ToSet(reply.rr_ans) \subseteq DOMAIN heap
  BY SeqIsSeq DEF ReplyInv, IsReply
<1> QED
  BY <1>1, <1>2, <1>3 DEF ReplyInv, Grows

\* A packet tells of services, or takes leave of them.
LEMMA Sending ==
    ASSUME ReplyInv, NEW es \in SUBSET DOMAIN heap, send_packet(es)
    PROVE  /\ believed' \subseteq {e \in DOMAIN heap : IsService(e)}
           /\ reply.num_ans_rr > 0 /\ believed \subseteq es /\ (\A e \in es : heap[e].ttl = 0)
                => believed' = {}
           /\ ~(reply.num_ans_rr > 0) => believed' = believed
BY DEF ReplyInv, send_packet, Told

\* A lookup made under the lock, while nothing is freed.
LEMMA Found ==
    ASSUME ControlInv, RegistryInv, pc # "stopped", NEW c
    PROVE  LET found == Answers(group, heap, c[1], c[2]) IN
           /\ found \in Seq(DOMAIN heap) /\ IsInjective(found)
           /\ ToSet(found) = {e \in DOMAIN heap : Matches(heap[e], c[1], c[2])}
<1>1. DOMAIN heap = 1..Len(heap) /\ GroupsOf(heap, group, DOMAIN heap)
  BY HeapShape DEF RegistryInv, ControlInv
<1> QED
  BY <1>1, AnswersFound

\* ReplyInv is kept by the lookups, by a new reply, and by every other step.
LEMMA ReplyAnswer ==
    ASSUME ControlInv, RegistryInv, ReplyInv, Answer \/ add_related_rr
    PROVE  /\ ReplyInv' /\ pc' \in {"answer", "related", "send"}
<1> DEFINE D == DOMAIN heap
<1>1. /\ GroupsOf(heap, group, D) /\ DOMAIN heap = 1..Len(heap)
      /\ IsReply(reply, D)
  BY HeapShape DEF ControlInv, RegistryInv, ReplyInv, Answer, add_related_rr
<1>2. /\ UNCHANGED <<heap, believed>> /\ pc' \in {"answer", "related", "send"}
  BY DEF Answer, add_related_rr, registry
<1>3. ASSUME NEW name, NEW type
      PROVE  LET found == Answers(group, heap, name, type) IN
             /\ found \in Seq(D) /\ IsInjective(found)
  BY <1>1, AnswersFound
<1>4. \A name, type : IsReply(PopulateAnswers(reply, Answers(group, heap, name, type)), D)
  BY <1>1, <1>3, PopulatesAnswers
<1>5. \A name, type : IsReply(PopulateAdditional(reply, Answers(group, heap, name, type)), D)
  BY <1>1, <1>3, PopulatesAdditional
<1>6. \A known : IsReply(RemoveKnown(reply, heap, known), D)
  BY <1>1, RemovesKnown
<1>7. IsReply(reply', D)
  <2>1. CASE Answer
    BY <1>4, <1>6, <2>1 DEF Answer
  <2>2. CASE add_related_rr
    BY <1>1, <1>5, <2>2 DEF add_related_rr
  <2> QED
    BY <2>1, <2>2
<1> QED
  BY <1>2, <1>7 DEF ReplyInv, IsService

LEMMA ReplyBegin ==
    ASSUME ReplyInv, NEW id, NEW calls, NEW known, Begin(id, calls, known),
           UNCHANGED <<heap, believed>>
    PROVE  ReplyInv'
<1>1. IsReply(reply', DOMAIN heap) /\ pc' = "answer"
  BY EmptyReply DEF Begin
<1> QED
  BY <1>1 DEF ReplyInv, IsService

LEMMA ReplyResponder ==
    ASSUME ControlInv, RegistryInv, ReplyInv, main_loop \/ Receive
    PROVE  ReplyInv'
<1>0. /\ reply.rr_ans \in Seq(DOMAIN heap) /\ reply.rr_add \in Seq(DOMAIN heap)
      /\ ToSet(reply.rr_ans) \subseteq DOMAIN heap /\ ToSet(reply.rr_add) \subseteq DOMAIN heap
      /\ DOMAIN heap = 1..Len(heap)
  BY SeqIsSeq, HeapShape DEF ReplyInv, IsReply, RegistryInv
<1>1. CASE Loop \/ Notified
  <2>1. UNCHANGED <<heap, reply, believed>> /\ pc' \in {"select", "goodbye", "announce"}
    BY <1>1 DEF Loop, Notified, registry
  <2> QED
    BY <2>1 DEF ReplyInv, IsService
<1>2. CASE Answer \/ add_related_rr
  BY <1>2, ReplyAnswer
<1>3. CASE Send
  <2> DEFINE es == ToSet(reply.rr_ans) \cup ToSet(reply.rr_add)
  <2>1. UNCHANGED <<heap, reply>> /\ pc' = "announce" /\ send_packet(es)
    BY <1>3 DEF Send, registry
  <2>2. es \in SUBSET DOMAIN heap
    BY <1>0
  <2> HIDE DEF es
  <2>3. believed' \subseteq {e \in DOMAIN heap : IsService(e)}
    BY <2>1, <2>2, Sending
  <2> QED
    BY <2>1, <2>3 DEF ReplyInv, IsService
<1>4. CASE Announce
  <2>1. UNCHANGED <<heap, believed>>
    BY <1>4 DEF Announce
  <2>2. CASE announce = <<>>
    <3>1. UNCHANGED reply /\ pc' = "loop"
      BY <1>4, <2>2 DEF Announce
    <3> QED
      BY <2>1, <3>1 DEF ReplyInv, IsService
  <2>3. CASE announce # <<>>
    BY <1>4, <2>1, <2>3, ReplyBegin DEF Announce
  <2> QED
    BY <2>2, <2>3
<1>5. CASE Goodbye
  <2>1. /\ DOMAIN heap' = DOMAIN heap
        /\ \A e \in DOMAIN heap : /\ heap'[e].name = heap[e].name
                                  /\ heap'[e].type = heap[e].type
                                  /\ e \in ToSet(services) => heap'[e].ttl = 0
    BY <1>5, GoodbyeHeap
  <2>2. services \in Seq(DOMAIN heap) /\ IsInjective(services)
        /\ \A e \in DOMAIN heap : IsService(e) => e \in ToSet(services)
    BY <1>5 DEF Goodbye, RegistryInv, ControlInv
  <2>3. reply' = PopulateAnswers(mdns_init_reply(0), services) /\ pc' = "sendBye" /\ UNCHANGED believed
    BY <1>5 DEF Goodbye
  <2>5. IsReply(reply', DOMAIN heap) /\ ToSet(reply'.rr_ans) = ToSet(services)
    BY <2>2, <2>3, FirstAnswers
  <2>6. ToSet(services) \subseteq DOMAIN heap
    BY <2>2, SeqIsSeq
  <2>7. believed \subseteq DOMAIN heap /\ \A e \in believed : IsService(e)
    BY DEF ReplyInv
  <2>8. believed' \subseteq {e \in DOMAIN heap' : IsService(e)'}
    BY <2>1, <2>3, <2>7 DEF IsService
  <2>9. believed' \subseteq ToSet(reply'.rr_ans)
    BY <2>2, <2>3, <2>5, <2>7
  <2>10. \A e \in ToSet(reply'.rr_ans) : heap'[e].ttl = 0
    BY <2>1, <2>5, <2>6
  <2> QED
    BY <2>1, <2>3, <2>5, <2>8, <2>9, <2>10 DEF ReplyInv
<1>6. CASE SendBye
  <2> DEFINE es == ToSet(reply.rr_ans)
  <2>1. /\ UNCHANGED heap /\ pc = "sendBye" /\ pc' = "finish" /\ send_packet(es)
        /\ reply' = mdns_init_reply(0)
    BY <1>6 DEF SendBye, registry
  <2>2. es \in SUBSET DOMAIN heap /\ believed \subseteq es /\ \A e \in es : heap[e].ttl = 0
    BY <1>0, <2>1 DEF ReplyInv
  <2>3. reply.num_ans_rr = Len(reply.rr_ans) /\ Len(reply.rr_ans) \in Nat
    BY <1>0 DEF ReplyInv, IsReply
  <2>4. ~(reply.num_ans_rr > 0) => es = {}
    <3> SUFFICES ASSUME ~(reply.num_ans_rr > 0), NEW e \in es PROVE FALSE
      OBVIOUS
    <3>1. PICK i \in DOMAIN reply.rr_ans : reply.rr_ans[i] = e
      BY ToSetIs
    <3> QED
      BY <1>0, <2>3, <3>1
  <2> HIDE DEF es
  <2>5. believed' = {}
    BY <2>1, <2>2, <2>4, Sending
  <2>6. IsReply(reply', DOMAIN heap)
    BY <2>1, EmptyReply
  <2> QED
    BY <2>1, <2>5, <2>6 DEF ReplyInv
<1>7. CASE Finish
  <2>1. UNCHANGED <<heap, reply, believed>> /\ pc = "finish" /\ pc' = "stopped"
    BY <1>7 DEF Finish, registry
  <2> QED
    BY <2>1 DEF ReplyInv, IsService
<1>8. CASE Receive
  <2>1. PICK pkt \in Packets : process_mdns_pkt(pkt)
    BY <1>8 DEF Receive
  <2>2. UNCHANGED <<heap, believed>>
    BY <2>1 DEF process_mdns_pkt, registry
  <2>3. CASE IsQuery(Parsed[pkt])
    BY <2>1, <2>2, <2>3, ReplyBegin DEF process_mdns_pkt
  <2>4. CASE ~IsQuery(Parsed[pkt])
    <3>1. UNCHANGED reply /\ pc' = "announce"
      BY <2>1, <2>4 DEF process_mdns_pkt
    <3> QED
      BY <2>2, <3>1 DEF ReplyInv, IsService
  <2> QED
    BY <2>3, <2>4
<1> QED
  BY <1>1, <1>2, <1>3, <1>4, <1>5, <1>6, <1>7, <1>8 DEF main_loop

LEMMA ReplyInit == Init => ReplyInv
<1> SUFFICES ASSUME Init PROVE ReplyInv
  OBVIOUS
<1>1. reply = mdns_init_reply(0) /\ believed = {} /\ pc = "off"
  BY DEF Init, MdnsdInit
<1> QED
  BY <1>1, EmptyReply DEF ReplyInv

LEMMA ReplyKept == ControlInv /\ RegistryInv /\ ReplyInv /\ [Next]_vars => ReplyInv'
<1> SUFFICES ASSUME ControlInv, RegistryInv, ReplyInv, [Next]_vars PROVE ReplyInv'
  OBVIOUS
<1>1. CASE UNCHANGED <<heap, pc, reply, believed>>
  BY <1>1 DEF ReplyInv, IsService
<1>2. CASE Registers
  BY <1>2, RegisterStep, ReplyGrowing DEF responder
<1>3. CASE mdnsd_start /\ pc = "off" /\ pc' = "loop"
  <2>1. UNCHANGED <<heap, reply, believed>>
    BY <1>3 DEF mdnsd_start, registry
  <2> QED
    BY <1>3, <2>1 DEF ReplyInv, IsService
<1>4. CASE (main_loop \/ Receive) /\ UNCHANGED <<publisher, main>>
  BY <1>4, ReplyResponder
<1> QED
  <2>1. UNCHANGED vars => UNCHANGED <<heap, pc, reply, believed>>
    BY DEF vars, mdnsd, registry, responder
  <2>2. Quiet => UNCHANGED <<heap, pc, reply, believed>>
    BY DEF Quiet
  <2>3. StopFrees => UNCHANGED <<heap, pc, reply, believed>>
    BY DEF StopFrees, Release, responder
  <2> QED
    BY <1>1, <1>2, <1>3, <1>4, <2>1, <2>2, <2>3, StepCases

LEMMA ReplyHolds == Spec => [](ControlInv /\ RegistryInv /\ ReplyInv)
BY ReplyInit, ReplyKept, RegistryHolds, PTL DEF Spec

\* GoodbyeComplete holds: the goodbye lists every service anybody was told of,
\* with no time to live.
THEOREM GoodbyeToAll == Spec => []GoodbyeComplete
<1>1. ReplyInv => GoodbyeComplete
  BY DEF ReplyInv, GoodbyeComplete
<1> QED
  BY <1>1, ReplyHolds, PTL

-----------------------------------------------------------------------------
(* Where the responder is in its lists                                     *)

\* The groups hold what is registered.
LEMMA RegisteredAll ==
    ASSUME NEW h, NEW D, NEW g, GroupsOf(h, g, D)
    PROVE  Registered(g) = D
<1>1. /\ g \in Seq([name : Names(g), rr : Seq(D)]) /\ DOMAIN g = 1..Len(g)
      /\ \A e \in D : \E i \in DOMAIN g : e \in ToSet(g[i].rr)
  BY DEF GroupsOf
<1>2. \A i \in DOMAIN g : g[i].rr \in Seq(D)
  <2>1. \A i \in DOMAIN g : g[i] \in [name : Names(g), rr : Seq(D)]
    BY <1>1, ElementOfSeq
  <2> QED
    BY <2>1
<1>3. \A i \in DOMAIN g : ToSet(g[i].rr) \subseteq D
  BY <1>2, SeqIsSeq
<1> QED
  BY <1>1, <1>3 DEF Registered

\* What is taken out of the reply is what a known answer matches.
LEMMA UnknownIs ==
    ASSUME IsSeq(request.known), \A k \in ToSet(request.known) : k.ttl \in Nat,
           NEW e, IsEntry(heap[e])
    PROVE  Unknown(request.known, heap[e]) <=> ~Dropped(e)
<1> DEFINE known == request.known
           r == heap[e]
           I == {i \in 1..Len(known) : Matched(known[i], e)}
<1>1. Len(known) \in Nat /\ DOMAIN known = 1..Len(known)
  BY DEF IsSeq
<1>2. \A i \in DOMAIN known : known[i].ttl \in Nat
  BY ToSetIs
<1>3. r.ttl \in Nat
  BY DEF IsEntry
<1>4. rr_entry_match(known, r) = IF I # {} THEN Min(I) ELSE 0
  <2>1. \A k : Matched(k, e) <=> /\ k.type = r.type /\ k.name = r.name
                                 /\ r.type = "PTR" => k.data = r.data
    BY DEF Matched
  <2>2. I = {i \in 1..Len(known) : /\ known[i].type = r.type /\ known[i].name = r.name
                                   /\ r.type = "PTR" => known[i].data = r.data}
    BY <2>1
  <2> HIDE DEF I
  <2> QED
    BY <2>2 DEF rr_entry_match, SelectInSeq
<1>5. I # {} => Min(I) \in I /\ \A i \in I : Min(I) <= i
  <2>1. I \in SUBSET Nat
    BY <1>1
  <2> HIDE DEF I
  <2> QED
    BY <2>1, Least
<1>6. CASE I = {}
  <2>1. Unknown(known, r)
    BY <1>4, <1>6 DEF Unknown
  <2>2. ~Dropped(e)
    BY <1>1, <1>6 DEF Dropped
  <2> QED
    BY <2>1, <2>2
<1>7. CASE I # {}
  <2> DEFINE m == Min(I)
  <2>1. /\ m \in I /\ m \in DOMAIN known /\ Matched(known[m], e) /\ m \in Nat /\ m # 0
        /\ \A i \in I : m <= i
    BY <1>1, <1>5, <1>7
  <2>2. Unknown(known, r) <=> known[m].ttl < r.ttl \div 2
    <3>1. rr_entry_match(known, r) = m /\ m # 0
      BY <1>4, <1>7, <2>1
    <3> HIDE DEF m, I, r, known
    <3> QED
      BY <3>1 DEF Unknown
  <2>3. known[m].ttl < r.ttl \div 2 <=> ~(2 * known[m].ttl + 1 >= r.ttl)
    <3>1. known[m].ttl \in Nat
      BY <1>2, <2>1
    <3>2. \A t, h \in Nat : t < h \div 2 <=> ~(2 * t + 1 >= h)
      OBVIOUS
    <3> QED
      BY <1>3, <3>1, <3>2
  <2>4. \A i \in DOMAIN known : Matched(known[i], e)
                               /\ (\A j \in 1..(i - 1) : ~Matched(known[j], e)) => i = m
    <3> SUFFICES ASSUME NEW i \in DOMAIN known, Matched(known[i], e), i # m,
                        \A j \in 1..(i - 1) : ~Matched(known[j], e)
                 PROVE  FALSE
      OBVIOUS
    <3>1. i \in I /\ m <= i
      BY <1>1, <2>1
    <3>2. m \in 1..(i - 1)
      BY <1>1, <2>1, <3>1
    <3> QED
      BY <2>1, <3>2
  <2>5. \A j \in 1..(m - 1) : ~Matched(known[j], e)
    <3> SUFFICES ASSUME NEW j \in 1..(m - 1), Matched(known[j], e) PROVE FALSE
      OBVIOUS
    <3>1. j \in I /\ j < m
      BY <1>1, <2>1
    <3> QED
      BY <2>1, <3>1
  <2>6. Dropped(e) <=> 2 * known[m].ttl + 1 >= r.ttl
    <3> HIDE DEF m, I
    <3> QED
      BY <2>1, <2>4, <2>5 DEF Dropped
  <2> QED
    BY <2>2, <2>3, <2>6
<1> QED
  BY <1>6, <1>7

\* A packet is parsed into lists.
LEMMA ParsedLists ==
    ASSUME NEW pkt \in Packets
    PROVE  LET m == mdns_parse_pkt(pkt) IN
           /\ IsSeq(m.rr_qn) /\ IsSeq(m.rr_ans)
           /\ \A k \in ToSet(m.rr_ans) : k.ttl \in Nat
<1> DEFINE m == mdns_parse_pkt(pkt)
<1>1. pkt.num_qn \in Nat /\ pkt.num_ans_rr \in Nat /\ \A k \in ToSet(m.rr_ans) : k.ttl \in Nat
  BY PacketsAssumption
<1> DEFINE qn == ParseAll(LAMBDA o : mdns_parse_qn(pkt.body, o), pkt.num_qn, 1)
           ans == ParseAll(LAMBDA o : mdns_parse_rr(pkt.body, o), pkt.num_ans_rr, qn.next)
           q[i \in 0..pkt.num_qn] ==
               IF i = 0 THEN 1
               ELSE LET o == q[i - 1] IN IF o = 0 THEN 0 ELSE mdns_parse_qn(pkt.body, o).next
           a[i \in 0..pkt.num_ans_rr] ==
               IF i = 0 THEN qn.next
               ELSE LET o == a[i - 1] IN IF o = 0 THEN 0 ELSE mdns_parse_rr(pkt.body, o).next
           qs == [i \in 1..pkt.num_qn |-> mdns_parse_qn(pkt.body, q[i - 1]).rr]
           rs == [i \in 1..pkt.num_ans_rr |-> mdns_parse_rr(pkt.body, a[i - 1]).rr]
<1>2. m.rr_qn = <<>> \/ m.rr_qn = qs
  <2>1. m.rr_qn = qn.rrs
    BY DEF mdns_parse_pkt
  <2>2. qn = [next |-> q[pkt.num_qn], rrs |-> IF q[pkt.num_qn] = 0 THEN <<>> ELSE qs]
    BY Zenon DEF ParseAll
  <2> HIDE DEF qs, q, qn, m
  <2> QED
    BY <2>1, <2>2
<1>3. m.rr_ans = <<>> \/ m.rr_ans = rs
  <2>1. m.rr_ans = ans.rrs
    BY DEF mdns_parse_pkt
  <2> HIDE DEF qn
  <2>2. ans = [next |-> a[pkt.num_ans_rr], rrs |-> IF a[pkt.num_ans_rr] = 0 THEN <<>> ELSE rs]
    BY Zenon DEF ParseAll
  <2> HIDE DEF rs, a, ans, m
  <2> QED
    BY <2>1, <2>2
<1>4. IsSeq(<<>>)
  BY DEF IsSeq
<1> HIDE DEF m
<1>5. IsSeq(m.rr_qn)
  BY <1>1, <1>2, <1>4, FunctionIsSeq
<1>6. IsSeq(m.rr_ans)
  <2> DEFINE n == pkt.num_ans_rr
  <2>1. DOMAIN rs = 1..n /\ rs = [i \in 1..n |-> rs[i]]
    <3> HIDE DEF a
    <3> QED
      BY Zenon
  <2>2. IsSeq(rs)
    <3>1. n \in Nat
      BY <1>1
    <3> HIDE DEF n, rs
    <3> QED
      BY <2>1, <3>1, FunctionIsSeq
  <2> HIDE DEF rs
  <2> QED
    BY <1>3, <1>4, <2>2, Zenon
<1> QED
  BY <1>1, <1>5, <1>6 DEF m

\* The lookups of a query are a list.
LEMMA LookupsList ==
    ASSUME NEW qn, IsSeq(qn)
    PROVE  IsSeq(Lookups(qn))
<1> DEFINE S == {q \in ToSet(qn) : q.unicast_query = 0}
           l == Kept(qn, S)
           k == Lookups(qn)
<1>1. l \in Seq(ToSet(qn))
  BY KeptElems DEF IsSeq
<1>2. Len(l) \in Nat /\ DOMAIN l = 1..Len(l)
  BY <1>1
<1>3. k = [i \in DOMAIN l |-> <<l[i].name, l[i].type>>]
  BY DEF Lookups
<1> HIDE DEF k, l
<1>4. DOMAIN k = 1..Len(l) /\ k = [i \in 1..Len(l) |-> k[i]]
  BY <1>2, <1>3
<1> QED
  BY <1>2, <1>4, FunctionIsSeq DEF k

\* What a step of the responder does to its work: leave it alone, between two
\* replies; begin a reply; or go on with one.
Idle == /\ pc # "related" /\ pc' \notin {"answer", "related", "send"}
        /\ DOMAIN heap' = DOMAIN heap
        /\ UNCHANGED <<request, job, seen>>

Begins == \E id, calls, known :
    /\ Begin(id, calls, known)
    /\ IsSeq(calls) /\ IsSeq(known) /\ \A k \in ToSet(known) : k.ttl \in Nat
    /\ ~freed /\ UNCHANGED heap

LEMMA WorkCases ==
    ASSUME ControlInv, RegistryInv, main_loop \/ Receive
    PROVE  Idle \/ Begins \/ Answer \/ add_related_rr
<1>0. ~freed
  BY ResponderRegistry
<1>1. CASE Loop \/ Notified \/ Send \/ SendBye \/ Finish
  BY <1>1 DEF Loop, Notified, Send, SendBye, Finish, Idle, registry
<1>2. CASE Answer \/ add_related_rr
  BY <1>2
<1>3. CASE Announce
  <2>1. UNCHANGED heap /\ pc = "announce"
    BY <1>3 DEF Announce
  <2>2. CASE announce = <<>>
    BY <1>3, <2>1, <2>2 DEF Announce, Idle
  <2>3. CASE announce # <<>>
    <3> DEFINE calls == <<<<heap[Head(announce)].name, "PTR">>, <<SERVICES_DNS_SD_NLABEL, "PTR">>>>
    <3>1. Begin(0, calls, <<>>)
      BY <1>3, <2>3 DEF Announce
    <3>2. IsSeq(calls) /\ IsSeq(<<>>) /\ ToSet(<<>>) = {}
      BY Pair
    <3> HIDE DEF calls
    <3> QED
      BY <1>0, <2>1, <3>1, <3>2 DEF Begins
  <2> QED
    BY <2>2, <2>3
<1>4. CASE Goodbye
  <2>1. DOMAIN heap' = DOMAIN heap
    BY <1>4, GoodbyeHeap
  <2> QED
    BY <1>4, <2>1 DEF Goodbye, Idle
<1>5. CASE Receive
  <2>1. PICK pkt \in Packets : process_mdns_pkt(pkt)
    BY <1>5 DEF Receive
  <2> DEFINE m == Parsed[pkt]
  <2>2. UNCHANGED heap /\ pc = "select"
    BY <2>1 DEF process_mdns_pkt, registry
  <2>3. CASE IsQuery(m)
    <3>1. Begin(m.id, Lookups(m.rr_qn), m.rr_ans)
      BY <2>1, <2>3 DEF process_mdns_pkt
    <3>2. m = mdns_parse_pkt(pkt)
      BY DEF Parsed
    <3>3. IsSeq(m.rr_qn) /\ IsSeq(m.rr_ans) /\ \A k \in ToSet(m.rr_ans) : k.ttl \in Nat
      BY <3>2, ParsedLists
    <3>4. IsSeq(Lookups(m.rr_qn))
      BY <3>3, LookupsList
    <3> HIDE DEF m
    <3> QED
      BY <1>0, <2>2, <3>1, <3>3, <3>4 DEF Begins
  <2>4. CASE ~IsQuery(m)
    BY <2>1, <2>2, <2>4 DEF process_mdns_pkt, Idle
  <2> QED
    BY <2>3, <2>4
<1> QED
  BY <1>1, <1>2, <1>3, <1>4, <1>5 DEF main_loop

\* Steps that leave the responder's work as it is, and at most add records.
LEMMA OtherSteps ==
    ASSUME ControlInv, RegistryInv, [Next]_vars
    PROVE  \/ Grows /\ UNCHANGED <<pc, reply, request, job, seen>>
           \/ main_loop \/ Receive
           \/ UNCHANGED <<heap, reply, request, job, seen>> /\ pc = "off" /\ pc' = "loop"
<1>1. UNCHANGED heap => Grows
  BY DEF Grows
<1>2. CASE UNCHANGED vars
  BY <1>1, <1>2 DEF vars, mdnsd, registry, responder
<1>3. CASE Quiet
  BY <1>1, <1>3 DEF Quiet
<1>4. CASE StopFrees
  BY <1>1, <1>4 DEF StopFrees, Release, responder
<1>5. CASE Registers
  BY <1>5, RegisterStep DEF responder
<1>6. CASE mdnsd_start /\ pc = "off" /\ pc' = "loop"
  BY <1>6 DEF mdnsd_start, registry
<1> QED
  BY <1>2, <1>3, <1>4, <1>5, <1>6, StepCases

\* What add_related_rr looks up for a record is a list, and the records it will
\* find are those that are needed.
LEMMA RelatedNeeds ==
    ASSUME NEW e, NEW x, IsEntry(heap[e])
    PROVE  /\ IsSeq(Related(heap[e]))
           /\ Needs(e, x) <=> \E c \in ToSet(Related(heap[e])) : Matches(heap[x], c[1], c[2])
<1> DEFINE r == heap[e]  s == heap[x]
<1>1. r.type \in {"A", "PTR", "TXT", "SRV", "NSEC"}
  BY DEF IsEntry
<1>2. \A a, b : /\ IsSeq(<<a, b>>) /\ IsSeq(<<a>>) /\ IsSeq(<<>>)
                /\ ToSet(<<a, b>>) = {a, b} /\ ToSet(<<a>>) = {a} /\ ToSet(<<>>) = {}
  <2>1. \A a : IsSeq(<<a>>)
    <3> TAKE a
    <3> DEFINE t == <<a>>
    <3>1. DOMAIN t = 1..1 /\ t = [i \in 1..1 |-> t[i]]
      OBVIOUS
    <3> HIDE DEF t
    <3>2. IsSeq(t)
      BY <3>1, FunctionIsSeq
    <3> QED
      BY <3>2 DEF t
  <2>2. \A a, b : ToSet(<<a, b>>) = {a, b} /\ ToSet(<<a>>) = {a}
    BY DEF ToSet
  <2> QED
    BY <2>1, <2>2, Pair
<1>3. CASE r.type = "PTR"
  <2>1. Related(r) = <<<<r.data, "ANY">>>>
    BY <1>3 DEF Related
  <2>2. IsSeq(Related(r)) /\ ToSet(Related(r)) = {<<r.data, "ANY">>}
    BY <1>2, <2>1
  <2>3. Needs(e, x) <=> s.name = r.data /\ s.type # "NSEC"
    BY <1>3 DEF Needs
  <2>4. Matches(s, r.data, "ANY") <=> s.name = r.data /\ (s.type = "ANY" \/ s.type # "NSEC")
    BY DEF Matches
  <2>5. (\E c \in ToSet(Related(r)) : Matches(s, c[1], c[2])) <=> Matches(s, r.data, "ANY")
    BY <2>2
  <2> QED
    BY <2>2, <2>3, <2>4, <2>5
<1>4. CASE r.type = "SRV"
  <2>1. Related(r) = <<<<r.data.target, "ANY">>, <<r.name, "TXT">>>>
    BY <1>4 DEF Related
  <2>2. IsSeq(Related(r)) /\ ToSet(Related(r)) = {<<r.data.target, "ANY">>, <<r.name, "TXT">>}
    <3> DEFINE a == <<r.data.target, "ANY">>  b == <<r.name, "TXT">>
    <3>1. IsSeq(<<a, b>>) /\ ToSet(<<a, b>>) = {a, b}
      BY <1>2
    <3> QED
      BY <2>1, <3>1
  <2>3. Needs(e, x) <=> \/ s.name = r.data.target /\ s.type # "NSEC"
                        \/ s.name = r.name /\ s.type = "TXT"
    BY <1>4 DEF Needs
  <2>4. /\ Matches(s, r.data.target, "ANY") <=> s.name = r.data.target /\ (s.type = "ANY" \/ s.type # "NSEC")
        /\ Matches(s, r.name, "TXT") <=> s.name = r.name /\ s.type = "TXT"
    BY DEF Matches
  <2>5. (\E c \in ToSet(Related(r)) : Matches(s, c[1], c[2]))
            <=> Matches(s, r.data.target, "ANY") \/ Matches(s, r.name, "TXT")
    BY <2>2
  <2> QED
    BY <2>2, <2>3, <2>4, <2>5
<1>5. CASE r.type = "A"
  <2>1. Related(r) = <<<<r.name, "NSEC">>>>
    BY <1>5 DEF Related
  <2>2. IsSeq(Related(r)) /\ ToSet(Related(r)) = {<<r.name, "NSEC">>}
    BY <1>2, <2>1
  <2>3. Needs(e, x) <=> s.name = r.name /\ s.type = "NSEC"
    BY <1>5 DEF Needs
  <2>4. Matches(s, r.name, "NSEC") <=> s.name = r.name /\ s.type = "NSEC"
    BY DEF Matches
  <2>5. (\E c \in ToSet(Related(r)) : Matches(s, c[1], c[2])) <=> Matches(s, r.name, "NSEC")
    BY <2>2
  <2> QED
    BY <2>2, <2>3, <2>4, <2>5
<1>6. CASE r.type \in {"TXT", "NSEC"}
  <2>1. Related(r) = <<>>
    BY <1>6 DEF Related
  <2>2. IsSeq(Related(r)) /\ ToSet(Related(r)) = {}
    BY <1>2, <2>1
  <2>3. ~Needs(e, x)
    BY <1>6 DEF Needs
  <2> QED
    BY <2>2, <2>3
<1> QED
  BY <1>1, <1>3, <1>4, <1>5, <1>6

\* The lookups of a reply, one fewer or begun anew.
LEMMA JobInit == Init => JobInv
<1> SUFFICES ASSUME Init PROVE JobInv
  OBVIOUS
<1>1. job = NoJob /\ reply = mdns_init_reply(0) /\ pc = "off"
  BY DEF Init, MdnsdInit
<1>2. reply.rr_ans = <<>>
  BY <1>1, EmptyReply
<1>3. IsSeq(<<>>)
  BY Pair
<1>4. /\ job = [calls |-> <<>>, section |-> "rr_ans", at |-> 1]
      /\ job.calls = <<>> /\ job.section = "rr_ans" /\ job.at = 1 /\ reply["rr_ans"] = <<>>
  BY <1>1, <1>2 DEF NoJob
<1>5. 1 <= Len(<<>>) + 1
  OBVIOUS
<1> QED
  BY <1>1, <1>3, <1>4, <1>5 DEF JobInv

LEMMA JobFresh ==
    ASSUME ReplyInv', NEW calls, IsSeq(calls), NEW section \in {"rr_ans", "rr_add"},
           job' = [calls |-> calls, section |-> section, at |-> 1],
           pc' # "related" => section = "rr_ans"
    PROVE  JobInv'
<1>1. Len(reply'.rr_ans) \in Nat /\ Len(reply'.rr_add) \in Nat
  BY SeqIsSeq DEF ReplyInv, IsReply
<1>2. job'.calls = calls /\ job'.section = section /\ job'.at = 1
  OBVIOUS
<1>3. 1 <= Len(reply'[section]) + 1
  <2>1. CASE section = "rr_ans"
    BY <1>1, <2>1
  <2>2. CASE section = "rr_add"
    BY <1>1, <2>2
  <2> QED
    BY <2>1, <2>2
<1> QED
  BY <1>2, <1>3 DEF JobInv

\* JobInv is kept by the responder, and by every step.
LEMMA JobResponder ==
    ASSUME ControlInv, RegistryInv, ReplyInv, JobInv, main_loop \/ Receive
    PROVE  JobInv'
<1>0. ReplyInv'
  BY ReplyResponder
<1>1. CASE Idle
  <2>1. job' = [calls |-> job.calls, section |-> "rr_ans", at |-> 1] /\ IsSeq(job.calls)
    BY <1>1 DEF Idle, JobInv
  <2> QED
    BY <1>0, <1>1, <2>1, JobFresh DEF Idle
<1>2. CASE Begins
  <2>1. PICK id, calls, known : Begin(id, calls, known) /\ IsSeq(calls)
    BY <1>2 DEF Begins
  <2>2. job' = [calls |-> calls, section |-> "rr_ans", at |-> 1]
    BY <2>1 DEF Begin, NoJob
  <2> QED
    BY <1>0, <2>1, <2>2, JobFresh
<1>3. CASE Answer
  <2>1. CASE job.calls # <<>>
    <3>1. job' = [job EXCEPT !.calls = Tail(@)] /\ IsSeq(Tail(job.calls)) /\ pc # "related"
      BY <1>3, <2>1, HeadTail DEF Answer, JobInv
    <3>2. job' = [calls |-> Tail(job.calls), section |-> "rr_ans", at |-> 1]
      BY <3>1 DEF JobInv
    <3> QED
      BY <1>0, <3>1, <3>2, JobFresh
  <2>2. CASE job.calls = <<>>
    <3>1. job' = [calls |-> <<>>, section |-> "rr_ans", at |-> 1]
      BY <1>3, <2>2 DEF Answer, NoJob
    <3> QED
      BY <1>0, <3>1, JobFresh, Pair
  <2> QED
    BY <2>1, <2>2
<1>4. CASE add_related_rr /\ job.calls # <<>>
  <2> DEFINE c == Head(job.calls)
             found == Answers(group, heap, c[1], c[2])
  <2>1. /\ reply' = PopulateAdditional(reply, found) /\ job' = [job EXCEPT !.calls = Tail(@)]
        /\ pc = "related" /\ pc' = pc
    BY <1>4 DEF add_related_rr
  <2>2. found \in Seq(DOMAIN heap) /\ IsInjective(found)
    BY <2>1, Found
  <2>3. IsReply(reply, DOMAIN heap)
    BY DEF ReplyInv
  <2> HIDE DEF found, c
  <2>4. /\ reply'.rr_ans = reply.rr_ans
        /\ \A i \in DOMAIN reply.rr_add : i \in DOMAIN reply'.rr_add
    BY <2>1, <2>2, <2>3, PopulatesAdditional
  <2>5. /\ Len(reply.rr_ans) \in Nat
        /\ Len(reply.rr_add) \in Nat /\ DOMAIN reply.rr_add = 1..Len(reply.rr_add)
        /\ Len(reply'.rr_add) \in Nat /\ DOMAIN reply'.rr_add = 1..Len(reply'.rr_add)
    BY <1>0, <2>3, SeqIsSeq DEF ReplyInv, IsReply
  <2>6. Len(reply.rr_add) <= Len(reply'.rr_add)
    BY <2>4, <2>5
  <2>7. job.at <= Len(reply'[job.section]) + 1
    <3>1. CASE job.section = "rr_ans"
      BY <2>4, <3>1 DEF JobInv
    <3>2. CASE job.section = "rr_add"
      BY <2>5, <2>6, <3>2 DEF JobInv
    <3> QED
      BY <3>1, <3>2 DEF JobInv
  <2>8. IsSeq(Tail(job.calls))
    BY <1>4, HeadTail DEF JobInv
  <2>9. job' = [calls |-> Tail(job.calls), section |-> job.section, at |-> job.at]
    BY <2>1 DEF JobInv
  <2> QED
    BY <2>1, <2>7, <2>8, <2>9 DEF JobInv
<1>A. Len(reply[job.section]) \in Nat /\ job.at \in Nat
  BY SeqIsSeq DEF JobInv, ReplyInv, IsReply
<1>5. CASE add_related_rr /\ job.calls = <<>> /\ job.at <= Len(reply[job.section])
  <2> DEFINE list == reply[job.section]
             e == list[job.at]
  <2>1. /\ job' = [job EXCEPT !.calls = Related(heap[e]), !.at = @ + 1]
        /\ pc = "related" /\ UNCHANGED <<reply, pc>>
    BY <1>A, <1>5 DEF add_related_rr
  <2>2. list \in Seq(DOMAIN heap)
    BY DEF JobInv, ReplyInv, IsReply
  <2>3. e \in DOMAIN heap /\ Len(list) \in Nat
    <3> HIDE DEF list
    <3>1. Len(list) \in Nat /\ job.at \in 1..Len(list)
      BY <1>5, <2>2 DEF JobInv, list
    <3> QED
      BY <2>2, <3>1
  <2>4. IsSeq(Related(heap[e]))
    BY <2>3, HeapShape, RelatedNeeds DEF RegistryInv
  <2>5. job' = [calls |-> Related(heap[e]), section |-> job.section, at |-> job.at + 1]
    BY <2>1 DEF JobInv
  <2>6. job.at + 1 \in Nat \ {0} /\ job.at + 1 <= Len(list) + 1
    BY <1>5, <2>3 DEF JobInv
  <2> HIDE DEF e
  <2> QED
    BY <2>1, <2>4, <2>5, <2>6 DEF JobInv
<1>6. CASE add_related_rr /\ job.calls = <<>> /\ job.at > Len(reply[job.section])
  <2>1. /\ job' = [calls |-> <<>>, section |-> job'.section, at |-> 1]
        /\ job'.section \in {"rr_ans", "rr_add"}
        /\ pc' # "related" => job'.section = "rr_ans"
    BY <1>A, <1>6 DEF add_related_rr, NoJob
  <2>2. IsSeq(<<>>)
    BY Pair
  <2> QED
    BY <1>0, <2>1, <2>2, JobFresh
<1> QED
  BY <1>A, <1>1, <1>2, <1>3, <1>4, <1>5, <1>6, WorkCases DEF add_related_rr

LEMMA JobKept == ControlInv /\ RegistryInv /\ ReplyInv /\ JobInv /\ [Next]_vars => JobInv'
<1> SUFFICES ASSUME ControlInv, RegistryInv, ReplyInv, JobInv, [Next]_vars PROVE JobInv'
  OBVIOUS
<1>1. CASE UNCHANGED <<reply, job>> /\ (pc' = "related" => pc = "related")
                                   /\ (pc' # "related" => pc # "related")
  BY <1>1 DEF JobInv
<1>2. CASE (main_loop \/ Receive) /\ UNCHANGED <<publisher, main>>
  BY <1>2, JobResponder
<1> QED
  <2>1. UNCHANGED vars => UNCHANGED <<reply, job, pc>>
    BY DEF vars, mdnsd, registry, responder
  <2>2. Quiet => UNCHANGED <<reply, job, pc>>
    BY DEF Quiet
  <2>3. StopFrees => UNCHANGED <<reply, job, pc>>
    BY DEF StopFrees, responder
  <2>4. Registers => UNCHANGED <<reply, job, pc>>
    BY DEF Registers, SetHostname, AddOther, RegisterService, responder
  <2>5. mdnsd_start /\ pc = "off" /\ pc' = "loop" => UNCHANGED <<reply, job>>
    BY DEF mdnsd_start
  <2> QED
    BY <1>1, <1>2, <2>1, <2>2, <2>3, <2>4, <2>5, StepCases

-----------------------------------------------------------------------------
(* Answers                                                                 *)

\* What is asked for and known of a record does not change while it is registered.
LEMMA GrowsAsked ==
    ASSUME Grows, UNCHANGED request, NEW e \in DOMAIN heap
    PROVE  (Asked(e)' <=> Asked(e)) /\ (Dropped(e)' <=> Dropped(e))
<1>1. heap'[e] = heap[e] /\ request' = request
  BY DEF Grows
<1> QED
  BY <1>1 DEF Asked, Dropped, Matched

LEMMA AskedMatches ==
    ASSUME NEW e
    PROVE  Asked(e) <=> \E c \in ToSet(request.calls) : Matches(heap[e], c[1], c[2])
BY DEF Asked, Matches

\* The responder leaves its work as it is.
LEMMA AnswerGrowing ==
    ASSUME ReplyInv, AnswerInv, Grows, UNCHANGED <<pc, reply, request, job, seen>>
    PROVE  AnswerInv'
<1>1. ToSet(reply.rr_ans) \subseteq DOMAIN heap
  BY SeqIsSeq DEF ReplyInv, IsReply
<1>2. \A e \in DOMAIN heap : (Asked(e)' <=> Asked(e)) /\ (Dropped(e)' <=> Dropped(e))
                             /\ heap'[e] = heap[e]
  BY GrowsAsked DEF Grows
<1>3. Registered(seen) \subseteq DOMAIN heap /\ DOMAIN heap \subseteq DOMAIN heap'
  BY DEF AnswerInv, Grows
<1>4. Registered(seen)' = Registered(seen)
  BY DEF Registered
<1> QED
  BY <1>1, <1>2, <1>3, <1>4 DEF AnswerInv

\* Between two replies nothing is promised.
LEMMA AnswerIdle ==
    ASSUME AnswerInv, UNCHANGED <<request, seen>>, DOMAIN heap' = DOMAIN heap,
           pc' \notin {"answer", "related", "send"}
    PROVE  AnswerInv'
BY DEF AnswerInv, Registered

\* When a query comes everything that is registered can be looked up.
LEMMA AnswerBegins ==
    ASSUME ControlInv, RegistryInv, AnswerInv, Begins
    PROVE  AnswerInv'
<1>1. PICK id, calls, known :
        /\ Begin(id, calls, known) /\ IsSeq(calls) /\ IsSeq(known)
        /\ \A k \in ToSet(known) : k.ttl \in Nat
  BY DEF Begins
<1>2. /\ reply' = mdns_init_reply(id) /\ request' = [calls |-> calls, known |-> known]
      /\ job'.calls = calls /\ seen' = group /\ pc' = "answer"
  BY <1>1 DEF Begin, NoJob
<1>3. UNCHANGED heap /\ Registered(group) = DOMAIN heap
  BY RegisteredAll DEF Begins, RegistryInv
<1>4. ToSet(reply'.rr_ans) = {}
  BY <1>2, EmptyReply, Pair
<1>5. Registered(seen)' = DOMAIN heap
  BY <1>2, <1>3 DEF Registered
<1>6. request'.calls = calls /\ request'.known = known
  BY <1>2
<1>7. \A e : Asked(e)' => \E c \in ToSet(calls) : Matches(heap'[e], c[1], c[2])
  BY <1>6 DEF Asked, Matches
<1> QED
  BY <1>1, <1>2, <1>3, <1>4, <1>5, <1>6, <1>7 DEF AnswerInv

\* A lookup finds what is registered by now, the last one is followed by the
\* removal of the known answers.
LEMMA AnswerAnswer ==
    ASSUME ControlInv, RegistryInv, ReplyInv, JobInv, AnswerInv, Answer
    PROVE  AnswerInv'
<1>1. pc = "answer" /\ UNCHANGED <<heap, request, seen>>
  BY DEF Answer, registry
<1>2. \A e : (Asked(e)' <=> Asked(e)) /\ (Dropped(e)' <=> Dropped(e))
  BY <1>1 DEF Asked, Dropped, Matched
<1>3. Registered(seen)' = Registered(seen) /\ Registered(seen) \subseteq DOMAIN heap
  BY <1>1 DEF Registered, AnswerInv
<1>4. IsReply(reply, DOMAIN heap) /\ ToSet(reply.rr_ans) \subseteq DOMAIN heap
  BY SeqIsSeq DEF ReplyInv, IsReply
<1>5. CASE job.calls # <<>>
  <2> DEFINE c == Head(job.calls)
             found == Answers(group, heap, c[1], c[2])
  <2>1. reply' = PopulateAnswers(reply, found) /\ job' = [job EXCEPT !.calls = Tail(@)] /\ pc' = pc
    BY <1>5 DEF Answer
  <2>2. /\ found \in Seq(DOMAIN heap) /\ IsInjective(found)
        /\ ToSet(found) = {e \in DOMAIN heap : Matches(heap[e], c[1], c[2])}
    BY <1>1, Found
  <2>3. /\ c \in ToSet(job.calls) /\ ToSet(Tail(job.calls)) \subseteq ToSet(job.calls)
        /\ \A x \in ToSet(job.calls) : x = c \/ x \in ToSet(Tail(job.calls))
    BY <1>5, HeadTail DEF JobInv
  <2> HIDE DEF found, c
  <2>4. ToSet(reply'.rr_ans) = ToSet(reply.rr_ans) \cup ToSet(found)
    BY <1>4, <2>1, <2>2, PopulatesAnswers
  <2>5. job'.calls = Tail(job.calls)
    BY <2>1 DEF JobInv
  <2>6. ToSet(job.calls) \subseteq ToSet(request.calls)
    BY <1>1 DEF AnswerInv
  <2>7. \A e \in ToSet(reply'.rr_ans) : Asked(e)
    BY <1>1, <2>2, <2>3, <2>4, <2>6, AskedMatches DEF AnswerInv
  <2>8. \A e \in Registered(seen) :
          Asked(e) => \/ e \in ToSet(reply'.rr_ans)
                      \/ \E d \in ToSet(job'.calls) : Matches(heap[e], d[1], d[2])
    <3> TAKE e \in Registered(seen)
    <3> HAVE Asked(e)
    <3>1. e \in ToSet(reply.rr_ans) \/ \E d \in ToSet(job.calls) : Matches(heap[e], d[1], d[2])
      BY <1>1 DEF AnswerInv
    <3>2. e \in DOMAIN heap
      BY <1>3
    <3> QED
      BY <2>2, <2>3, <2>4, <2>5, <3>1, <3>2
  <2> QED
    BY <1>1, <1>2, <1>3, <2>1, <2>3, <2>5, <2>6, <2>7, <2>8 DEF AnswerInv
<1>6. CASE job.calls = <<>>
  <2>1. reply' = RemoveKnown(reply, heap, request.known) /\ pc' = "related"
    BY <1>6 DEF Answer
  <2>2. \A e : e \in ToSet(reply'.rr_ans) <=>
                  e \in ToSet(reply.rr_ans) /\ Unknown(request.known, heap[e])
    BY <1>4, <2>1, RemovesKnown
  <2>3. \A e \in DOMAIN heap : Unknown(request.known, heap[e]) <=> ~Dropped(e)
    <3> TAKE e \in DOMAIN heap
    <3>1. IsEntry(heap[e])
      BY HeapShape DEF RegistryInv
    <3> QED
      BY <3>1, UnknownIs DEF AnswerInv
  <2>4. ToSet(job.calls) = {}
    BY <1>6, Pair
  <2>5. \A e : e \in ToSet(reply'.rr_ans) <=> e \in ToSet(reply.rr_ans) /\ ~Dropped(e)
    BY <1>4, <2>2, <2>3
  <2>6. \A e \in ToSet(reply'.rr_ans) : Asked(e) /\ ~Dropped(e)
    BY <1>1, <2>5 DEF AnswerInv
  <2>7. \A e \in Registered(seen) : Asked(e) /\ ~Dropped(e) => e \in ToSet(reply'.rr_ans)
    BY <1>1, <2>4, <2>5 DEF AnswerInv
  <2> QED
    BY <1>1, <1>2, <1>3, <2>1, <2>6, <2>7 DEF AnswerInv
<1> QED
  BY <1>5, <1>6

\* The additional records are added to a reply whose answers are complete.
LEMMA RelatedKeeps ==
    ASSUME ControlInv, RegistryInv, ReplyInv, add_related_rr
    PROVE  /\ pc = "related" /\ pc' \in {"related", "send"}
           /\ UNCHANGED <<heap, group, request, seen>> /\ reply'.rr_ans = reply.rr_ans
<1>1. pc = "related" /\ UNCHANGED <<heap, group, request, seen>>
  BY DEF add_related_rr, registry
<1>2. CASE UNCHANGED reply
  BY <1>1, <1>2 DEF add_related_rr
<1>3. CASE job.calls # <<>>
  <2> DEFINE c == Head(job.calls)
             found == Answers(group, heap, c[1], c[2])
  <2>1. reply' = PopulateAdditional(reply, found) /\ pc' = pc
    BY <1>3 DEF add_related_rr
  <2>2. found \in Seq(DOMAIN heap) /\ IsInjective(found) /\ IsReply(reply, DOMAIN heap)
    BY <1>1, Found DEF ReplyInv
  <2> HIDE DEF found, c
  <2> QED
    BY <1>1, <2>1, <2>2, PopulatesAdditional
<1> QED
  BY <1>2, <1>3 DEF add_related_rr

LEMMA AnswerResponder ==
    ASSUME ControlInv, RegistryInv, ReplyInv, JobInv, AnswerInv, main_loop \/ Receive
    PROVE  AnswerInv'
<1>1. CASE Idle
  BY <1>1, AnswerIdle DEF Idle
<1>2. CASE Begins
  BY <1>2, AnswerBegins
<1>3. CASE Answer
  BY <1>3, AnswerAnswer
<1>4. CASE add_related_rr
  <2>1. /\ pc = "related" /\ pc' \in {"related", "send"}
        /\ UNCHANGED <<heap, request, seen>> /\ reply'.rr_ans = reply.rr_ans
    BY <1>4, RelatedKeeps
  <2>2. \A e : (Asked(e)' <=> Asked(e)) /\ (Dropped(e)' <=> Dropped(e))
    BY <2>1 DEF Asked, Dropped, Matched
  <2>3. Registered(seen)' = Registered(seen)
    BY <2>1 DEF Registered
  <2> QED
    BY <2>1, <2>2, <2>3 DEF AnswerInv
<1> QED
  BY <1>1, <1>2, <1>3, <1>4, WorkCases

LEMMA AnswerInit == Init => AnswerInv
<1> SUFFICES ASSUME Init PROVE AnswerInv
  OBVIOUS
<1>1. request = [calls |-> <<>>, known |-> <<>>] /\ seen = <<>> /\ pc = "off"
  BY DEF Init, MdnsdInit
<1>2. IsSeq(<<>>) /\ ToSet(<<>>) = {}
  BY Pair
<1>3. Registered(seen) = {}
  BY <1>1 DEF Registered
<1> QED
  BY <1>1, <1>2, <1>3 DEF AnswerInv

LEMMA AnswerKept ==
    ControlInv /\ RegistryInv /\ ReplyInv /\ JobInv /\ AnswerInv /\ [Next]_vars => AnswerInv'
<1> SUFFICES ASSUME ControlInv, RegistryInv, ReplyInv, JobInv, AnswerInv, [Next]_vars
             PROVE  AnswerInv'
  OBVIOUS
<1>1. CASE Grows /\ UNCHANGED <<pc, reply, request, job, seen>>
  BY <1>1, AnswerGrowing
<1>2. CASE main_loop \/ Receive
  BY <1>2, AnswerResponder
<1>3. CASE UNCHANGED <<heap, reply, request, job, seen>> /\ pc = "off" /\ pc' = "loop"
  BY <1>3, AnswerIdle
<1> QED
  BY <1>1, <1>2, <1>3, OtherSteps

LEMMA AnswerHolds == Spec => [](ControlInv /\ RegistryInv /\ ReplyInv /\ JobInv /\ AnswerInv)
BY JobInit, JobKept, AnswerInit, AnswerKept, ReplyHolds, PTL DEF Spec

\* A record is dropped exactly when the querier knows it, unless rr_entry_match
\* mistakes another record's known answer for it.
LEMMA DroppedKnown ==
    ASSUME IsSeq(request.known), NEW e, ~Mistaken(e)
    PROVE  Dropped(e) <=> Known(e)
<1>1. \A k \in ToSet(request.known) : Matched(k, e) <=> SameRecord(k, e)
  BY DEF Mistaken, Matched, SameRecord
<1>2. \A i \in DOMAIN request.known : request.known[i] \in ToSet(request.known)
  BY ToSetIs
<1>3. \A i \in DOMAIN request.known : \A j \in 1..(i - 1) : j \in DOMAIN request.known
  BY DEF IsSeq
<1>4. \A i \in DOMAIN request.known :
          /\ Matched(request.known[i], e) <=> SameRecord(request.known[i], e)
          /\ \A j \in 1..(i - 1) :
                 Matched(request.known[j], e) <=> SameRecord(request.known[j], e)
  BY <1>1, <1>2, <1>3
<1> QED
  BY <1>4 DEF Dropped, Known

\* AnswersRight holds: a reply answers with every record asked for that was
\* registered when the query came and that the querier does not know, name, type
\* and data, and with none it knows or that is not registered; nothing is said of
\* a record whose name and type another record among the known answers has.
THEOREM AnswersAll == Spec => []AnswersRight
<1>1. ControlInv /\ RegistryInv /\ ReplyInv /\ AnswerInv => AnswersRight
  <2> SUFFICES ASSUME ControlInv, RegistryInv, ReplyInv, AnswerInv, pc = "send"
               PROVE  /\ IsInjective(reply.rr_ans)
                      /\ \A e \in ToSet(reply.rr_ans) :
                            /\ e \in Registered(group) /\ Asked(e)
                            /\ ~Known(e) \/ Mistaken(e)
                      /\ \A e \in Registered(seen) :
                            Asked(e) /\ ~Known(e) /\ ~Mistaken(e) => e \in ToSet(reply.rr_ans)
    BY DEF AnswersRight
  <2>1. Registered(group) = DOMAIN heap
    BY RegisteredAll DEF RegistryInv, ControlInv
  <2>2. ToSet(reply.rr_ans) \subseteq DOMAIN heap /\ IsInjective(reply.rr_ans)
    BY SeqIsSeq DEF ReplyInv, IsReply
  <2>3. \A e : ~Mistaken(e) => (Dropped(e) <=> Known(e))
    BY DroppedKnown DEF AnswerInv
  <2> QED
    BY <2>1, <2>2, <2>3 DEF AnswerInv
<1> QED
  BY <1>1, AnswerHolds, PTL

\* The type invariant holds: what the lists point at exists, under its name, and
\* the position of add_related_rr stays within what the memory holds.
THEOREM TypeCorrect == Spec => []TypeOK
<1>1. ControlInv /\ RegistryInv /\ ReplyInv /\ JobInv => TypeOK
  <2> SUFFICES ASSUME ControlInv, RegistryInv, ReplyInv, JobInv PROVE TypeOK
    OBVIOUS
  <2>1. ToSet(announce) \subseteq DOMAIN heap /\ ToSet(services) \subseteq DOMAIN heap
    BY SeqIsSeq DEF RegistryInv
  <2>2. \A g \in ToSet(group) : \A e \in ToSet(g.rr) : heap[e].name = g.name
    <3>1. CASE freed
      <4>1. ToSet(group) = {}
        BY <3>1, Pair DEF RegistryInv
      <4> QED
        BY <4>1
    <3>2. CASE ~freed
      BY <3>2, ToSetIs DEF RegistryInv, GroupsOf
    <3> QED
      BY <3>1, <3>2
  <2>3. ToSet(reply.rr_ans) \cup ToSet(reply.rr_add) \cup believed \subseteq DOMAIN heap
    BY SeqIsSeq DEF ReplyInv, IsReply
  <2>4. job.at \in 1..Len(heap) + 1
    <3> DEFINE list == reply[job.section]
    <3>1. Len(heap) \in Nat /\ DOMAIN heap = 1..Len(heap)
      BY HeapShape DEF RegistryInv
    <3>2. list \in Seq(DOMAIN heap) /\ IsInjective(list)
      BY DEF JobInv, ReplyInv, IsReply
    <3>3. job.at \in Nat \ {0} /\ job.at <= Len(list) + 1
      BY DEF JobInv
    <3> HIDE DEF list
    <3>4. Len(list) <= Len(heap) /\ Len(list) \in Nat
      BY <3>1, <3>2, ShortList
    <3> QED
      BY <3>1, <3>3, <3>4
  <2> QED
    BY <2>1, <2>2, <2>3, <2>4 DEF TypeOK, MdnsdTypeOK, ControlInv
<1> QED
  BY <1>1, AnswerHolds, PTL

-----------------------------------------------------------------------------
(* Additional records                                                      *)

\* What a record needs does not change while the other is registered.
LEMMA NeedsGrow ==
    ASSUME Grows, NEW e \in DOMAIN heap, NEW x \in DOMAIN heap
    PROVE  /\ Needs(e, x)' <=> Needs(e, x)
           /\ \A c : Matches(heap'[x], c[1], c[2]) <=> Matches(heap[x], c[1], c[2])
<1>1. heap'[e] = heap[e] /\ heap'[x] = heap[x]
  BY DEF Grows
<1> QED
  BY <1>1 DEF Needs

\* Records that an answer or an additional record needs can be added.
LEMMA NothingSpareGrows ==
    ASSUME NEW ans, NEW add, NEW found, NEW e \in ans \cup add, \A x \in found : Needs(e, x),
           \A S \in SUBSET add : ClosedUnderNeeds(ans, S, add) => S = add
    PROVE  \A S \in SUBSET (add \cup found) :
              ClosedUnderNeeds(ans, S, add \cup found) => S = add \cup found
<1> SUFFICES ASSUME NEW S \in SUBSET (add \cup found), ClosedUnderNeeds(ans, S, add \cup found)
             PROVE  S = add \cup found
  OBVIOUS
<1>1. ClosedUnderNeeds(ans, S \cap add, add)
  BY DEF ClosedUnderNeeds
<1>2. S \cap add = add
  BY <1>1
<1>3. e \in ans \cup S
  BY <1>2
<1>4. found \subseteq S
  BY <1>3 DEF ClosedUnderNeeds
<1> QED
  BY <1>2, <1>4

\* What is walked is in the reply.
LEMMA WalkedListed ==
    ASSUME ReplyInv, JobInv
    PROVE  /\ Walked \subseteq ToSet(reply.rr_ans) \cup ToSet(reply.rr_add)
           /\ ToSet(reply.rr_ans) \subseteq DOMAIN heap /\ ToSet(reply.rr_add) \subseteq DOMAIN heap
<1>1. /\ ToSet(reply.rr_ans) \subseteq DOMAIN heap /\ ToSet(reply.rr_add) \subseteq DOMAIN heap
      /\ DOMAIN reply.rr_ans = 1..Len(reply.rr_ans) /\ DOMAIN reply.rr_add = 1..Len(reply.rr_add)
      /\ Len(reply.rr_ans) \in Nat /\ Len(reply.rr_add) \in Nat
  BY SeqIsSeq DEF ReplyInv, IsReply
<1>2. CASE job.section = "rr_ans"
  <2>1. job.at \in Nat \ {0} /\ job.at <= Len(reply.rr_ans) + 1
    BY <1>2 DEF JobInv
  <2>2. \A i \in 1..(job.at - 1) : i \in DOMAIN reply.rr_ans
    BY <1>1, <2>1
  <2> QED
    BY <1>1, <1>2, <2>2, ToSetIs DEF Walked
<1>3. CASE job.section = "rr_add"
  <2>1. job.at \in Nat \ {0} /\ job.at <= Len(reply.rr_add) + 1
    BY <1>3 DEF JobInv
  <2>2. \A i \in 1..(job.at - 1) : i \in DOMAIN reply.rr_add
    BY <1>1, <2>1
  <2> QED
    BY <1>1, <1>3, <2>2, ToSetIs DEF Walked
<1> QED
  BY <1>2, <1>3 DEF JobInv

\* Registering a record takes nothing from the reply.
LEMMA AdditionalGrowing ==
    ASSUME ReplyInv, JobInv, AnswerInv, AdditionalInv, Grows,
           UNCHANGED <<pc, reply, request, job, seen>>
    PROVE  AdditionalInv'
<1> DEFINE ans == ToSet(reply.rr_ans)
           add == ToSet(reply.rr_add)
           reg == Registered(seen)
<1>1. /\ Walked \subseteq ans \cup add /\ ans \subseteq DOMAIN heap /\ add \subseteq DOMAIN heap
      /\ reg \subseteq DOMAIN heap
  BY WalkedListed DEF AnswerInv
<1>2. Walked' = Walked /\ Registered(seen)' = reg
  BY DEF Walked, Registered
<1>3. \A e, x \in DOMAIN heap : Needs(e, x)' <=> Needs(e, x)
  BY NeedsGrow
<1>4. \A x \in DOMAIN heap : heap'[x] = heap[x]
  BY DEF Grows
<1>5. NothingSpare => NothingSpare'
  <2> SUFFICES ASSUME NothingSpare, NEW S \in SUBSET add, ClosedUnderNeeds(ans, S, add)'
               PROVE  S = add
    BY DEF NothingSpare
  <2>1. ClosedUnderNeeds(ans, S, add)
    BY <1>1, <1>3 DEF ClosedUnderNeeds
  <2> QED
    BY <2>1 DEF NothingSpare
<1>6. ClosedUnderNeeds(ans, add, reg) => ClosedUnderNeeds(ans, add, reg)'
  BY <1>1, <1>2, <1>3 DEF ClosedUnderNeeds
<1>7. CASE pc = "related"
  <2>1. \A e \in Walked : \A x \in reg :
            Needs(e, x)' => \/ x \in add
                            \/ \E c \in ToSet(job.calls) : Matches(heap'[x], c[1], c[2])
    BY <1>1, <1>3, <1>4, <1>7 DEF AdditionalInv
  <2>2. \A c \in ToSet(job.calls) : \E e \in ans \cup add : c \in ToSet(Related(heap'[e]))
    BY <1>1, <1>4, <1>7 DEF AdditionalInv
  <2> QED
    BY <1>2, <1>5, <1>7, <2>1, <2>2 DEF AdditionalInv
<1>8. CASE pc = "send"
  BY <1>5, <1>6, <1>8 DEF AdditionalInv
<1>9. CASE pc \notin {"related", "send"}
  BY <1>9 DEF AdditionalInv
<1> QED
  BY <1>7, <1>8, <1>9

\* A lookup finds what the record it is for needs.
LEMMA AdditionalLookup ==
    ASSUME ControlInv, RegistryInv, ReplyInv, JobInv, AnswerInv, AdditionalInv, add_related_rr,
           job.calls # <<>>
    PROVE  AdditionalInv'
<1> DEFINE ans == ToSet(reply.rr_ans)
           add == ToSet(reply.rr_add)
           reg == Registered(seen)
           c == Head(job.calls)
           found == Answers(group, heap, c[1], c[2])
<1>1. /\ pc = "related" /\ pc' = "related" /\ UNCHANGED <<heap, seen>>
      /\ reply' = PopulateAdditional(reply, found) /\ job' = [job EXCEPT !.calls = Tail(@)]
  BY DEF add_related_rr, registry
<1>2. /\ found \in Seq(DOMAIN heap) /\ IsInjective(found) /\ IsReply(reply, DOMAIN heap)
      /\ ToSet(found) = {x \in DOMAIN heap : Matches(heap[x], c[1], c[2])}
  BY <1>1, Found DEF ReplyInv
<1>3. /\ c \in ToSet(job.calls) /\ ToSet(Tail(job.calls)) \subseteq ToSet(job.calls)
      /\ \A x \in ToSet(job.calls) : x = c \/ x \in ToSet(Tail(job.calls))
  BY HeadTail DEF JobInv
<1>4. Walked \subseteq ans \cup add /\ ans \subseteq DOMAIN heap /\ add \subseteq DOMAIN heap
      /\ reg \subseteq DOMAIN heap
  BY WalkedListed DEF AnswerInv
<1>5. PICK e \in ans \cup add : c \in ToSet(Related(heap[e]))
  BY <1>1, <1>3 DEF AdditionalInv
<1> HIDE DEF found, c
<1>6. /\ reply'.rr_ans = reply.rr_ans /\ ToSet(reply'.rr_add) = add \cup ToSet(found)
      /\ \A i \in DOMAIN reply.rr_add :
            i \in DOMAIN reply'.rr_add /\ reply'.rr_add[i] = reply.rr_add[i]
  BY <1>1, <1>2, PopulatesAdditional
<1>7. job'.calls = Tail(job.calls) /\ job'.section = job.section /\ job'.at = job.at
  BY <1>1 DEF JobInv
<1>8. Walked' = Walked
  <2>1. CASE job.section = "rr_ans"
    BY <1>6, <1>7, <2>1 DEF Walked
  <2>2. CASE job.section = "rr_add"
    <3>1. /\ DOMAIN reply.rr_add = 1..Len(reply.rr_add) /\ Len(reply.rr_add) \in Nat
          /\ job.at \in Nat \ {0} /\ job.at <= Len(reply.rr_add) + 1
      BY <1>2, <2>2, SeqIsSeq DEF JobInv, IsReply
    <3>2. \A i \in 1..(job.at - 1) : reply'.rr_add[i] = reply.rr_add[i]
      BY <1>6, <3>1
    <3> QED
      BY <1>6, <1>7, <2>2, <3>2 DEF Walked
  <2> QED
    BY <2>1, <2>2 DEF JobInv
<1>9. Registered(seen)' = reg /\ \A y, x : Needs(y, x)' <=> Needs(y, x)
  BY <1>1 DEF Registered, Needs
<1>10. \A y \in Walked : \A x \in reg :
          Needs(y, x) => \/ x \in ToSet(reply'.rr_add)
                         \/ \E d \in ToSet(job'.calls) : Matches(heap[x], d[1], d[2])
  <2> TAKE y \in Walked
  <2> TAKE x \in reg
  <2> HAVE Needs(y, x)
  <2>1. x \in add \/ \E d \in ToSet(job.calls) : Matches(heap[x], d[1], d[2])
    BY <1>1 DEF AdditionalInv
  <2>2. x \in DOMAIN heap
    BY <1>4
  <2> QED
    BY <1>2, <1>3, <1>6, <1>7, <2>1, <2>2
<1>11. \A d \in ToSet(job'.calls) :
          \E y \in ToSet(reply'.rr_ans) \cup ToSet(reply'.rr_add) : d \in ToSet(Related(heap[y]))
  BY <1>1, <1>3, <1>6, <1>7 DEF AdditionalInv
<1>12. NothingSpare'
  <2>1. \A x \in ToSet(found) : Needs(e, x)
    <3>1. IsEntry(heap[e])
      BY <1>4, HeapShape DEF RegistryInv
    <3> QED
      BY <1>2, <1>5, <3>1, RelatedNeeds
  <2>2. \A S \in SUBSET add : ClosedUnderNeeds(ans, S, add) => S = add
    BY <1>1 DEF AdditionalInv, NothingSpare
  <2> DEFINE new == ToSet(found)
  <2> HIDE DEF ans, add, new
  <2>3. \A S \in SUBSET (add \cup new) : ClosedUnderNeeds(ans, S, add \cup new) => S = add \cup new
    BY <1>5, <2>1, <2>2, NothingSpareGrows DEF new
  <2>4. ToSet(reply'.rr_ans) = ans /\ ToSet(reply'.rr_add) = add \cup new
    BY <1>6 DEF ans, add, new
  <2>5. ASSUME NEW S \in SUBSET (add \cup new), ClosedUnderNeeds(ToSet(reply.rr_ans), S, ToSet(reply.rr_add))'
        PROVE  S = add \cup new
    <3>1. ClosedUnderNeeds(ans, S, add \cup new)
      BY <1>9, <2>4, <2>5 DEF ClosedUnderNeeds
    <3> QED
      BY <2>3, <3>1
  <2> QED
    BY <2>4, <2>5 DEF NothingSpare
<1> QED
  BY <1>1, <1>8, <1>9, <1>10, <1>11, <1>12 DEF AdditionalInv

\* The next record of the list is taken up.
LEMMA AdditionalNext ==
    ASSUME ControlInv, RegistryInv, ReplyInv, JobInv, AnswerInv, AdditionalInv, add_related_rr,
           job.calls = <<>>, job.at <= Len(reply[job.section])
    PROVE  AdditionalInv'
<1> DEFINE ans == ToSet(reply.rr_ans)
           add == ToSet(reply.rr_add)
           reg == Registered(seen)
           list == reply[job.section]
           e == list[job.at]
<1>0. /\ list \in Seq(DOMAIN heap) /\ Len(list) \in Nat /\ job.at \in Nat \ {0}
      /\ DOMAIN list = 1..Len(list)
  BY SeqIsSeq DEF JobInv, ReplyInv, IsReply
<1>1. /\ job' = [job EXCEPT !.calls = Related(heap[e]), !.at = @ + 1]
      /\ pc = "related" /\ UNCHANGED <<heap, seen, reply, pc>>
  BY <1>0 DEF add_related_rr, registry
<1>2. /\ job'.calls = Related(heap[e]) /\ job'.section = job.section /\ job'.at = job.at + 1
      /\ job.section \in {"rr_ans", "rr_add"}
  BY <1>1 DEF JobInv
<1>3. e \in ToSet(list) /\ e \in DOMAIN heap
  <2> HIDE DEF list
  <2>1. job.at \in DOMAIN list
    BY <1>0 DEF list
  <2> QED
    BY <1>0, <2>1, ToSetIs
<1>4. e \in ans \cup add
  BY <1>2, <1>3
<1>5. \A x : Needs(e, x) <=> \E c \in ToSet(job'.calls) : Matches(heap[x], c[1], c[2])
  <2>1. IsEntry(heap[e])
    BY <1>3, HeapShape DEF RegistryInv
  <2> HIDE DEF e
  <2> QED
    BY <1>2, <2>1, RelatedNeeds
<1>6. \A y \in Walked' : y \in Walked \/ y = e
  <2>1. \A i \in 1..(job'.at - 1) : i \in 1..(job.at - 1) \/ i = job.at
    BY <1>0, <1>2
  <2>2. CASE job.section = "rr_ans"
    BY <1>1, <1>2, <2>1, <2>2 DEF Walked
  <2>3. CASE job.section = "rr_add"
    BY <1>1, <1>2, <2>1, <2>3 DEF Walked
  <2> QED
    BY <1>2, <2>2, <2>3
<1> HIDE DEF e, list
<1>7. ToSet(job.calls) = {}
  BY Pair
<1>8. Registered(seen)' = reg /\ \A y, x : Needs(y, x)' <=> Needs(y, x)
  BY <1>1 DEF Registered, Needs
<1>9. \A y \in Walked' : \A x \in reg :
         Needs(y, x) => \/ x \in add
                        \/ \E d \in ToSet(job'.calls) : Matches(heap[x], d[1], d[2])
  BY <1>1, <1>5, <1>6, <1>7 DEF AdditionalInv
<1>10. \A d \in ToSet(job'.calls) : \E y \in ans \cup add : d \in ToSet(Related(heap[y]))
  BY <1>2, <1>4
<1>11. NothingSpare'
  <2>1. NothingSpare
    BY <1>1 DEF AdditionalInv
  <2> QED
    BY <1>1, <1>8, <2>1 DEF NothingSpare, ClosedUnderNeeds
<1> QED
  BY <1>1, <1>8, <1>9, <1>10, <1>11 DEF AdditionalInv

\* The end of a list.
LEMMA AdditionalEnd ==
    ASSUME ReplyInv, JobInv, AnswerInv, AdditionalInv, add_related_rr,
           job.calls = <<>>, ~(job.at <= Len(reply[job.section]))
    PROVE  AdditionalInv'
<1> DEFINE ans == ToSet(reply.rr_ans)
           add == ToSet(reply.rr_add)
           reg == Registered(seen)
<1>0. /\ Len(reply.rr_ans) \in Nat /\ Len(reply.rr_add) \in Nat /\ job.at \in Nat
      /\ DOMAIN reply.rr_ans = 1..Len(reply.rr_ans) /\ DOMAIN reply.rr_add = 1..Len(reply.rr_add)
  BY SeqIsSeq DEF JobInv, ReplyInv, IsReply
<1>1. /\ pc = "related" /\ UNCHANGED <<heap, seen, reply>>
      /\ IF job.section = "rr_ans"
         THEN job' = [NoJob EXCEPT !.section = "rr_add"] /\ pc' = pc
         ELSE job' = NoJob /\ pc' = "send"
  BY <1>0 DEF add_related_rr, registry, JobInv
<1>2. ToSet(job.calls) = {} /\ ToSet(<<>>) = {}
  BY Pair
<1>3. Registered(seen)' = reg /\ \A y, x : Needs(y, x)' <=> Needs(y, x)
  BY <1>1 DEF Registered, Needs
<1>4. NothingSpare'
  <2>1. NothingSpare
    BY <1>1 DEF AdditionalInv
  <2> QED
    BY <1>1, <1>3, <2>1 DEF NothingSpare, ClosedUnderNeeds
<1>5. \A y \in Walked : \A x \in reg : Needs(y, x) => x \in add
  BY <1>1, <1>2 DEF AdditionalInv
<1>6. CASE job.section = "rr_ans"
  <2>1. job.at - 1 = Len(reply.rr_ans)
    BY <1>0, <1>6 DEF JobInv
  <2>2. Walked = ans
    BY <1>0, <1>6, <2>1 DEF Walked, ToSet
  <2>3. job'.calls = <<>> /\ job'.section = "rr_add" /\ job'.at = 1
    BY <1>1, <1>6 DEF NoJob
  <2>4. Walked' = ans
    <3>1. 1..(job'.at - 1) = {}
      BY <2>3
    <3> QED
      BY <1>1, <2>3, <3>1 DEF Walked
  <2> QED
    BY <1>1, <1>2, <1>3, <1>4, <1>5, <1>6, <2>2, <2>3, <2>4 DEF AdditionalInv
<1>7. CASE job.section = "rr_add"
  <2>1. job.at - 1 = Len(reply.rr_add)
    BY <1>0, <1>7 DEF JobInv
  <2>2. Walked = ans \cup add
    BY <1>0, <1>7, <2>1 DEF Walked, ToSet
  <2>3. pc' = "send"
    BY <1>1, <1>7
  <2>4. ClosedUnderNeeds(ans, add, reg)'
    BY <1>1, <1>3, <1>5, <2>2 DEF ClosedUnderNeeds
  <2> QED
    BY <1>1, <1>4, <2>3, <2>4 DEF AdditionalInv
<1> QED
  BY <1>6, <1>7 DEF JobInv

\* The additional section is empty until the answers are complete.
LEMMA AdditionalAnswer ==
    ASSUME ControlInv, RegistryInv, ReplyInv, AdditionalInv, Answer
    PROVE  AdditionalInv'
<1>1. pc = "answer" /\ reply.rr_add = <<>> /\ IsReply(reply, DOMAIN heap)
  BY DEF Answer, AdditionalInv, ReplyInv
<1>2. ToSet(<<>>) = {}
  BY Pair
<1>3. CASE job.calls # <<>>
  <2> DEFINE c == Head(job.calls)
             found == Answers(group, heap, c[1], c[2])
  <2>1. reply' = PopulateAnswers(reply, found) /\ pc' = "answer"
    BY <1>1, <1>3 DEF Answer
  <2>2. found \in Seq(DOMAIN heap) /\ IsInjective(found)
    BY <1>1, Found
  <2> HIDE DEF found, c
  <2>3. reply'.rr_add = <<>>
    BY <1>1, <2>1, <2>2, PopulatesAnswers
  <2> QED
    BY <2>1, <2>3 DEF AdditionalInv
<1>4. CASE job.calls = <<>>
  <2>1. reply' = RemoveKnown(reply, heap, request.known) /\ job' = NoJob /\ pc' = "related"
    BY <1>4 DEF Answer
  <2>2. ToSet(reply'.rr_add) = {}
    BY <1>1, <1>2, <2>1, RemovesKnown
  <2>3. job'.calls = <<>> /\ job'.section = "rr_ans" /\ job'.at = 1
    BY <2>1 DEF NoJob
  <2>4. Walked' = {}
    <3>1. 1..(job'.at - 1) = {}
      BY <2>3
    <3> QED
      BY <2>3, <3>1 DEF Walked
  <2>5. NothingSpare'
    BY <2>2 DEF NothingSpare
  <2> QED
    BY <1>2, <2>1, <2>3, <2>4, <2>5 DEF AdditionalInv
<1> QED
  BY <1>3, <1>4

LEMMA AdditionalKept ==
    ControlInv /\ RegistryInv /\ ReplyInv /\ JobInv /\ AnswerInv /\ AdditionalInv /\ [Next]_vars
        => AdditionalInv'
<1> SUFFICES ASSUME ControlInv, RegistryInv, ReplyInv, JobInv, AnswerInv, AdditionalInv, [Next]_vars
             PROVE  AdditionalInv'
  OBVIOUS
<1>1. CASE Grows /\ UNCHANGED <<pc, reply, request, job, seen>>
  BY <1>1, AdditionalGrowing
<1>2. CASE Idle \/ (UNCHANGED <<heap, reply, request, job, seen>> /\ pc = "off" /\ pc' = "loop")
  <2>1. pc' \notin {"answer", "related", "send"}
    BY <1>2 DEF Idle
  <2> QED
    BY <2>1 DEF AdditionalInv
<1>3. CASE Begins
  <2>1. pc' = "answer" /\ reply'.rr_add = <<>>
    BY <1>3, EmptyReply DEF Begins, Begin
  <2> QED
    BY <2>1 DEF AdditionalInv
<1>4. CASE Answer
  BY <1>4, AdditionalAnswer
<1>5. CASE add_related_rr
  BY <1>5, AdditionalLookup, AdditionalNext, AdditionalEnd
<1> QED
  BY <1>1, <1>2, <1>3, <1>4, <1>5, OtherSteps, WorkCases

LEMMA AdditionalInit == Init => AdditionalInv
<1> SUFFICES ASSUME Init PROVE AdditionalInv
  OBVIOUS
<1>1. pc = "off"
  BY DEF Init, MdnsdInit
<1> QED
  BY <1>1 DEF AdditionalInv

\* AdditionalComplete holds: the list add_related_rr appends to while it walks
\* it ends up with all that is needed and nothing to spare.
THEOREM AdditionalAll == Spec => []AdditionalComplete
<1>1. AdditionalInv => AdditionalComplete
  BY DEF AdditionalInv, AdditionalComplete, NothingSpare
<1> QED
  BY <1>1, AdditionalInit, AdditionalKept, AnswerHolds, PTL DEF Spec

-----------------------------------------------------------------------------
(* The packets                                                             *)

\* A list written out is a sequence.
LEMMA Listed ==
    ASSUME NEW a, NEW b, NEW c, NEW d, NEW e
    PROVE  IsSeq(<<a, b, c>>) /\ IsSeq(<<a, b, c, d>>) /\ IsSeq(<<a, b, c, d, e>>)
<1>1. <<a, b, c>> \in Seq({a, b, c})
  OBVIOUS
<1>2. <<a, b, c, d>> \in Seq({a, b, c, d})
  OBVIOUS
<1>3. <<a, b, c, d, e>> \in Seq({a, b, c, d, e})
  OBVIOUS
<1> QED
  BY <1>1, <1>2, <1>3, SeqIsSeq

\* Text becomes a list of labels.
LEMMA NameList ==
    ASSUME NEW text, IsSeq(text)
    PROVE  IsSeq(create_nlabel(text))
<1>1. text \in Seq(ToSet(text))
  BY DEF IsSeq
<1> QED
  BY <1>1, KeptElems, SeqIsSeq DEF create_nlabel

\* What the calls of the publisher create can be written.
LEMMA WritableRecords ==
    /\ \A name, addr : IsSeq(name) => Encodable(rr_create_a(name, addr))
    /\ \A name, target : IsSeq(name) /\ IsSeq(target) => Encodable(rr_create_ptr(name, target))
    /\ \A name, port, target : IsSeq(name) /\ IsSeq(target)
                                  => Encodable(rr_create_srv(name, port, target))
    /\ \A name, txt : IsSeq(name) => Encodable(rr_add_txt(rr_create(name, "TXT"), <<txt>>))
    /\ \A name, type : IsSeq(name)
          => Encodable([rr_set_nsec(rr_create(name, "NSEC"), type)
                          EXCEPT !.ttl = DEFAULT_TTL_FOR_RECORD_WITH_HOSTNAME])
<1> USE DEF rr_create, DEFAULT_TTL
<1>1. ASSUME NEW name, NEW addr, IsSeq(name) PROVE Encodable(rr_create_a(name, addr))
  <2> DEFINE r == rr_create_a(name, addr)
  <2>1. /\ r.name = name /\ r.type = "A" /\ r.cache_flush = 1 /\ r.rr_class = 1
        /\ r.data = <<addr>>
    BY DEF rr_create_a
  <2> HIDE DEF r
  <2>2. r.data = <<r.data[1]>>
    BY <2>1
  <2> QED
    BY <1>1, <2>1, <2>2 DEF Encodable, r
<1>2. ASSUME NEW name, NEW target, IsSeq(name), IsSeq(target)
      PROVE  Encodable(rr_create_ptr(name, target))
  <2> DEFINE r == rr_create_ptr(name, target)
  <2>1. /\ r.name = name /\ r.type = "PTR" /\ r.cache_flush = 0 /\ r.rr_class = 1
        /\ r.data = target
    BY DEF rr_create_ptr
  <2> HIDE DEF r
  <2> QED
    BY <1>2, <2>1 DEF Encodable, r
<1>3. ASSUME NEW name, NEW port, NEW target, IsSeq(name), IsSeq(target)
      PROVE  Encodable(rr_create_srv(name, port, target))
  <2> DEFINE r == rr_create_srv(name, port, target)
  <2>1. /\ r.name = name /\ r.type = "SRV" /\ r.cache_flush = 1 /\ r.rr_class = 1
        /\ r.data.target = target
    BY DEF rr_create_srv
  <2> HIDE DEF r
  <2> QED
    BY <1>3, <2>1 DEF Encodable, r
<1>4. ASSUME NEW name, NEW txt, IsSeq(name)
      PROVE  Encodable(rr_add_txt(rr_create(name, "TXT"), <<txt>>))
  <2> DEFINE r == rr_add_txt(rr_create(name, "TXT"), <<txt>>)
  <2>1. /\ r.name = name /\ r.type = "TXT" /\ r.cache_flush = 1 /\ r.rr_class = 1
        /\ r.data = <<>> \o <<txt>>
    BY DEF rr_add_txt
  <2> HIDE DEF r
  <2>2. <<>> \o <<txt>> = <<txt>> /\ <<txt>> \in Seq({txt})
    OBVIOUS
  <2>3. r.data = <<txt>>
    BY <2>1, <2>2
  <2>4. IsSeq(<<txt>>)
    BY <2>2, SeqIsSeq
  <2>5. IsSeq(r.data) /\ r.data # <<>>
    <3>1. <<txt>> # <<>>
      OBVIOUS
    <3> QED
      BY <2>3, <2>4, <3>1
  <2> QED
    BY <1>4, <2>1, <2>5 DEF Encodable, r
<1>5. ASSUME NEW name, NEW type, IsSeq(name)
      PROVE  Encodable([rr_set_nsec(rr_create(name, "NSEC"), type)
                          EXCEPT !.ttl = DEFAULT_TTL_FOR_RECORD_WITH_HOSTNAME])
  <2> DEFINE r == [rr_set_nsec(rr_create(name, "NSEC"), type)
                     EXCEPT !.ttl = DEFAULT_TTL_FOR_RECORD_WITH_HOSTNAME]
  <2>1. /\ r.name = name /\ r.type = "NSEC" /\ r.cache_flush = 1 /\ r.rr_class = 1
        /\ r.data = <<type>>
    BY DEF rr_set_nsec
  <2> HIDE DEF r
  <2>2. r.data = <<r.data[1]>>
    BY <2>1
  <2> QED
    BY <1>5, <2>1, <2>2 DEF Encodable, r
<1> QED
  BY <1>1, <1>2, <1>3, <1>4, <1>5

\* A registration of such records.
LEMMA WritableAdding ==
    ASSUME RegistryInv, WritableInv, ~freed, NEW records, IsHeap(records), AddRecords(records),
           \A i \in DOMAIN records : Encodable(records[i])
    PROVE  \A e \in DOMAIN heap' : Encodable(heap'[e])
<1>1. /\ Grows
      /\ \A e \in DOMAIN heap' \ DOMAIN heap :
            e - Len(heap) \in DOMAIN records /\ heap'[e] = records[e - Len(heap)]
  BY Adding
<1> QED
  BY <1>1 DEF Grows, WritableInv

LEMMA WritableRegister ==
    ASSUME ControlInv, RegistryInv, WritableInv, Registers
    PROVE  WritableInv'
<1>1. ~freed
  BY DEF Registers, SetHostname, AddOther, RegisterService, Alive
<1>2. IsSeq(create_nlabel(HostText)) /\ IsSeq(create_nlabel(RegType))
  <2>1. IsSeq(HostText) /\ IsSeq(RegType)
    BY Listed DEF HostText, RegType
  <2> QED
    BY <2>1, NameList
<1>3. CASE SetHostname
  <2> DEFINE a == rr_create_a(create_nlabel(HostText), Head(ifa))
             n == [rr_set_nsec(rr_create(create_nlabel(HostText), "NSEC"), "A")
                     EXCEPT !.ttl = DEFAULT_TTL_FOR_RECORD_WITH_HOSTNAME]
             records == <<a, n>>
  <2>1. AddRecords(records) /\ hostname' = create_nlabel(HostText)
    BY <1>3 DEF SetHostname, mdnsd_set_hostname
  <2>2. IsEntry(a) /\ IsEntry(n) /\ Encodable(a) /\ Encodable(n)
    BY <1>2, Entries, WritableRecords
  <2> HIDE DEF a, n
  <2>3. IsHeap(records) /\ \A i \in DOMAIN records : Encodable(records[i])
    BY <2>2, HeapOf
  <2> HIDE DEF records
  <2> QED
    BY <1>1, <1>2, <2>1, <2>3, WritableAdding DEF WritableInv
<1>4. CASE AddOther
  <2> DEFINE a == rr_create_a(create_nlabel(HostText), Head(ifa))
             records == <<a>>
  <2>1. AddRecords(records) /\ hostname' = hostname
    BY <1>4 DEF AddOther, mdnsd_add_rr
  <2>2. IsEntry(a) /\ Encodable(a)
    BY <1>2, Entries, WritableRecords
  <2> HIDE DEF a
  <2>3. IsHeap(records) /\ \A i \in DOMAIN records : Encodable(records[i])
    BY <2>2, HeapOf
  <2> HIDE DEF records
  <2> QED
    BY <1>1, <2>1, <2>3, WritableAdding DEF WritableInv
<1>5. CASE RegisterService
  <2> DEFINE tn == create_nlabel(RegType)
             nl == join_nlabel(create_label(Instance), tn)
             a == rr_add_txt(rr_create(nl, "TXT"), <<"ver=1.0">>)
             b == rr_create_srv(nl, LIGHTNINGCASTTCPPORT, hostname)
             c == rr_create_ptr(tn, nl)
             d == rr_create_ptr(SERVICES_DNS_SD_NLABEL, tn)
             records == ServiceRecords(Instance, RegType, LIGHTNINGCASTTCPPORT, <<"ver=1.0">>)
  <2>1. AddRecords(records) /\ hostname' = hostname
    BY <1>5 DEF RegisterService, mdnsd_register_svc
  <2>2. IsSeq(nl)
    <3>1. <<Instance>> \in Seq({Instance})
      OBVIOUS
    <3> QED
      BY <1>2, <3>1, SeqIsSeq, Cat DEF join_nlabel, create_label
  <2>3. IsSeq(SERVICES_DNS_SD_NLABEL)
    BY Listed DEF SERVICES_DNS_SD_NLABEL
  <2>4. records = <<a>> \o <<b, c, d>>
    BY <<"ver=1.0">> # <<>> DEF ServiceRecords
  <2>5. IsHeap(records) /\ DOMAIN records = 1..4
    BY ServiceEntries, HeapShape, <<"ver=1.0">> # <<>>
  <2> HIDE DEF records, nl, tn
  <2>6. Encodable(a) /\ Encodable(b) /\ Encodable(c) /\ Encodable(d)
    BY <1>2, <2>2, <2>3, WritableRecords DEF WritableInv, tn
  <2> HIDE DEF a, b, c, d
  <2>7. records[1] = a /\ records[2] = b /\ records[3] = c /\ records[4] = d
    BY <2>4
  <2>8. \A i \in 1..4 : Encodable(records[i])
    <3>1. \A i \in 1..4 : i = 1 \/ i = 2 \/ i = 3 \/ i = 4
      OBVIOUS
    <3> QED
      BY <2>6, <2>7, <3>1
  <2> QED
    BY <1>1, <2>1, <2>5, <2>8, WritableAdding DEF WritableInv
<1> QED
  BY <1>3, <1>4, <1>5 DEF Registers

\* Taking leave changes times to live only.
LEMMA WritableGoodbye ==
    ASSUME RegistryInv, WritableInv, Goodbye
    PROVE  \A e \in DOMAIN heap' : Encodable(heap'[e])
<1>1. heap' = [e \in DOMAIN heap |->
                 IF Contains(services, e) THEN [heap[e] EXCEPT !.ttl = 0] ELSE heap[e]]
  BY DEF Goodbye
<1>2. ASSUME NEW e \in DOMAIN heap PROVE Encodable(heap'[e])
  <2> DEFINE r == heap[e]
             bye == [r EXCEPT !.ttl = 0]
  <2>1. IsEntry(r) /\ Encodable(r)
    BY HeapShape DEF RegistryInv, WritableInv
  <2>2. heap'[e] = r \/ heap'[e] = bye
    BY <1>1
  <2> HIDE DEF r
  <2>3. /\ bye.name = r.name /\ bye.type = r.type /\ bye.cache_flush = r.cache_flush
        /\ bye.rr_class = r.rr_class /\ bye.data = r.data
    <3>1. r = [name |-> r.name, type |-> r.type, ttl |-> r.ttl, cache_flush |-> r.cache_flush,
               rr_class |-> r.rr_class, data |-> r.data]
      BY <2>1 DEF IsEntry
    <3> QED
      BY <3>1
  <2> HIDE DEF bye
  <2>4. Encodable(bye)
    BY <2>1, <2>3 DEF Encodable
  <2> QED
    BY <2>1, <2>2, <2>4
<1> QED
  BY <1>1, <1>2

LEMMA WritableInit == Init => WritableInv
<1> SUFFICES ASSUME Init PROVE WritableInv
  OBVIOUS
<1>1. heap = <<>> /\ hostname = <<>>
  BY DEF Init, MdnsdInit
<1>2. IsSeq(<<>>) /\ DOMAIN <<>> = {}
  BY DEF IsSeq
<1> QED
  BY <1>1, <1>2 DEF WritableInv

LEMMA WritableKept == ControlInv /\ RegistryInv /\ WritableInv /\ [Next]_vars => WritableInv'
<1> SUFFICES ASSUME ControlInv, RegistryInv, WritableInv, [Next]_vars PROVE WritableInv'
  OBVIOUS
<1>1. UNCHANGED hostname \/ Registers
  <2>1. CASE UNCHANGED vars
    BY <2>1 DEF vars, mdnsd, registry
  <2>2. CASE Responder
    BY <2>2 DEF Responder, main_loop, Loop, Notified, Answer, add_related_rr, Send, Announce,
                Goodbye, SendBye, Finish, registry
  <2>3. CASE Publisher
    BY <2>3 DEF Publisher, Registers, mdnsd_start, Assign, GetIfAddrs, NoOthers, NotifyServer,
                UsesFreed, PublisherExits, mdnsd, registry
  <2>4. CASE Main
    BY <2>4 DEF Main, SetStopFlag, StopNotifies, StopFrees, Release, StopThread, Join, mdnsd, registry
  <2>5. CASE Environment
    BY <2>5 DEF Environment, Receive, process_mdns_pkt, Unregister, mdnsd, registry
  <2> QED
    BY <2>1, <2>2, <2>3, <2>4, <2>5 DEF Next
<1>2. CASE Registers
  BY <1>2, WritableRegister
<1>3. CASE UNCHANGED hostname
  <2>1. CASE UNCHANGED heap
    BY <1>3, <2>1 DEF WritableInv
  <2>2. CASE Goodbye
    BY <1>3, <2>2, WritableGoodbye DEF WritableInv
  <2>3. CASE Registers
    BY <1>2, <2>3
  <2> QED
    <3>1. UNCHANGED vars \/ Quiet \/ StopFrees \/ mdnsd_start => UNCHANGED heap
      BY DEF vars, mdnsd, registry, Quiet, StopFrees, Release, mdnsd_start
    <3>2. main_loop \/ Receive => UNCHANGED heap \/ Goodbye
      BY ResponderRegistry
    <3> QED
      BY <2>1, <2>2, <2>3, <3>1, <3>2, StepCases
<1> QED
  BY <1>1, <1>2, <1>3

\* PacketReadable holds: whatever the responder sends, any number of names behind
\* each other's compression, is read back by its own parser, and no byte is left.
THEOREM PacketsReadable == Spec => []PacketReadable
<1>1. ReplyInv /\ WritableInv => PacketReadable
  <2> SUFFICES ASSUME ReplyInv, WritableInv PROVE PacketReadable
    OBVIOUS
  <2>1. /\ IsSeq(reply.rr_ans) /\ IsSeq(reply.rr_add)
        /\ reply.num_ans_rr = Len(reply.rr_ans) /\ reply.num_add_rr = Len(reply.rr_add)
        /\ \A e \in ToSet(reply.rr_ans) \cup ToSet(reply.rr_add) : Encodable(heap[e])
    BY SeqIsSeq DEF ReplyInv, IsReply, WritableInv
  <2> DEFINE pkt == mdns_encode_pkt(reply, heap)
             read == mdns_parse_pkt(pkt)
             rest == ParseAll(LAMBDA o : mdns_parse_rr(pkt.body, o), pkt.num_add_rr, read.next)
  <2>2. rest = ReadRecords(pkt.body, pkt.num_add_rr, read.next)
    BY Zenon DEF ReadRecords
  <2>3. LET rest2 == ReadRecords(pkt.body, pkt.num_add_rr, read.next) IN
        /\ read.ok /\ Len(read.rr_ans) = Len(reply.rr_ans)
        /\ \A i \in DOMAIN reply.rr_ans : SameEntry(read.rr_ans[i], heap[reply.rr_ans[i]])
        /\ rest2.next = Len(pkt.body) + 1 /\ Len(rest2.rrs) = Len(reply.rr_add)
        /\ \A i \in DOMAIN reply.rr_add : SameEntry(rest2.rrs[i], heap[reply.rr_add[i]])
    BY <2>1, PacketRead, Zenon
  <2> HIDE DEF pkt, read, rest
  <2>4. /\ read.ok /\ Len(read.rr_ans) = Len(reply.rr_ans)
        /\ \A i \in DOMAIN reply.rr_ans : SameEntry(read.rr_ans[i], heap[reply.rr_ans[i]])
        /\ rest.next = Len(pkt.body) + 1 /\ Len(rest.rrs) = Len(reply.rr_add)
        /\ \A i \in DOMAIN reply.rr_add : SameEntry(rest.rrs[i], heap[reply.rr_add[i]])
    BY <2>2, <2>3, Zenon
  <2> QED
    BY <2>4, Zenon DEF PacketReadable, SameEntry, pkt, read, rest
<1> QED
  BY <1>1, WritableInit, WritableKept, ReplyHolds, PTL DEF Spec
=============================================================================

---------------------------- MODULE MdnsRecords ----------------------------
(***************************************************************************)
(* The resource records of the bundled mDNS responder (tinysvcmdns): how   *)
(* they are created, kept in lists and groups, and looked up.              *)
(*                                                                         *)
(* `heap' is the memory the records live in, a sequence of rr_entry; a     *)
(* pointer to a record is its index.  An rr_list is a sequence of          *)
(* pointers, the groups of a server are a sequence of [name, rr].  A name  *)
(* is the sequence of its labels, a text is the sequence of its words and  *)
(* dots.                                                                   *)
(***************************************************************************)
EXTENDS Integers, Sequences, SequencesExt

rr_type == {"A", "PTR", "TXT", "AAAA", "SRV", "NSEC", "ANY"}

DEFAULT_TTL_FOR_RECORD_WITH_HOSTNAME == 120
DEFAULT_TTL == 4500

SERVICES_DNS_SD_NLABEL == <<"_services", "_dns-sd", "_udp", "local">>

\* The elements of a list that are in S, in their order.
Kept(list, S) ==
    LET kept[i \in 0..Len(list)] ==
            IF i = 0 THEN <<>>
            ELSE IF list[i] \in S THEN Append(kept[i - 1], list[i]) ELSE kept[i - 1]
    IN  kept[Len(list)]

-----------------------------------------------------------------------------
(* Names                                                                   *)

create_label(word) == <<word>>
create_nlabel(text) == Kept(text, ToSet(text) \ {"."})
join_nlabel(n1, n2) == n1 \o n2

-----------------------------------------------------------------------------
(* Records.  `data' holds what the record's type says: an address, a list  *)
(* of texts, a target name, a service location or the types an NSEC lists. *)

rr_create(name, type) ==
    [name |-> name, type |-> type, ttl |-> DEFAULT_TTL, cache_flush |-> 1, rr_class |-> 1,
     data |-> <<>>]

rr_create_a(name, addr) ==
    [rr_create(name, "A") EXCEPT !.data = <<addr>>,
                                 !.ttl = DEFAULT_TTL_FOR_RECORD_WITH_HOSTNAME]

rr_create_srv(name, port, target) ==
    [rr_create(name, "SRV") EXCEPT
        !.data = [priority |-> 0, weight |-> 0, port |-> port, target |-> target]]

rr_create_ptr(name, target) ==
    [rr_create(name, "PTR") EXCEPT !.cache_flush = 0, !.data = target]

rr_set_nsec(rr, type) == [rr EXCEPT !.data = <<type>>]

\* rr_add_txt for each of the texts.
rr_add_txt(rr, txt) == [rr EXCEPT !.data = @ \o txt]

-----------------------------------------------------------------------------
(* Lists                                                                   *)

rr_list_append(list, e) == IF Contains(list, e) THEN list ELSE Append(list, e)

\* The next pointer of the record's predecessor, or the head, skips the record.
rr_list_remove(list, e) == RemoveFirst(list, e)

\* The first record with the name and type, for a PTR also with the target.
rr_entry_match(rr_list, entry) ==
    SelectInSeq(rr_list, LAMBDA r : /\ r.type = entry.type /\ r.name = entry.name
                                    /\ entry.type = "PTR" => r.data = entry.data)

rr_group_find(group, name) == SelectInSeq(group, LAMBDA g : g.name = name)

\* An existing group is taken to be the right one.
rr_group_add_First(group, heap, e) ==
    IF group # <<>> THEN [group EXCEPT ![1].rr = rr_list_append(@, e)]
                    ELSE <<[name |-> heap[e].name, rr |-> <<e>>]>>

rr_group_add(group, heap, e) ==
    LET i == rr_group_find(group, heap[e].name) IN
    IF i # 0 THEN [group EXCEPT ![i].rr = rr_list_append(@, e)]
             ELSE <<[name |-> heap[e].name, rr |-> <<e>>]>> \o group

\* The pointers that rr_group_destroy frees, in order.
rr_group_destroy(group) == FlattenSeq([i \in DOMAIN group |-> group[i].rr])

-----------------------------------------------------------------------------
(* Replies                                                                 *)

MDNS_FLAG_RESP == 32768
MDNS_FLAG_AA   == 1024
MDNS_FLAG_GET_OPCODE(flags) == (flags \div 2048) % 16

mdns_init_reply(id) ==
    [id |-> id, flags |-> MDNS_FLAG_RESP + MDNS_FLAG_AA,
     rr_ans |-> <<>>, rr_add |-> <<>>, num_ans_rr |-> 0, num_add_rr |-> 0]

\* Whether a record answers a question with this name and type.
Matches(rr, name, type) ==
    /\ rr.name = name
    /\ rr.type = type \/ (type = "ANY" /\ rr.type # "NSEC")

\* The records of the named group that answer the question.
Answers(group, heap, name, type) ==
    LET i == rr_group_find(group, name) IN
    IF i = 0 THEN <<>>
    ELSE Kept(group[i].rr, {e \in DOMAIN heap : Matches(heap[e], name, type)})

\* populate_answers for the answers and for the additional section: rr_list_append
\* of each record found, which are different ones, and the count grows with every
\* record that was not in the list yet.
Missing(list, found) == Kept(found, ToSet(found) \ ToSet(list))

PopulateAnswers(reply, found) ==
    [reply EXCEPT !.rr_ans = @ \o Missing(reply.rr_ans, found),
                  !.num_ans_rr = @ + Len(Missing(reply.rr_ans, found))]

PopulateAdditional(reply, found) ==
    [reply EXCEPT !.rr_add = @ \o Missing(reply.rr_add, found),
                  !.num_add_rr = @ + Len(Missing(reply.rr_add, found))]

Related_NoTxt(rr) ==
    CASE rr.type = "PTR" -> <<<<rr.data, "ANY">>>>
      [] rr.type = "SRV" -> <<<<rr.data.target, "ANY">>>>
      [] rr.type \in {"A", "AAAA"} -> <<<<rr.name, "NSEC">>>>
      [] OTHER -> <<>>

\* What add_related_rr looks up for a record: <<name, type>> pairs.
Related(rr) ==
    CASE rr.type = "PTR" -> <<<<rr.data, "ANY">>>>
      [] rr.type = "SRV" -> <<<<rr.data.target, "ANY">>, <<rr.name, "TXT">>>>
      [] rr.type \in {"A", "AAAA"} -> <<<<rr.name, "NSEC">>>>
      [] OTHER -> <<>>

RemoveKnown_AnyTtl(reply, heap, known) ==
    LET kept == Kept(reply.rr_ans, {e \in DOMAIN heap : rr_entry_match(known, heap[e]) = 0})
    IN  [reply EXCEPT !.rr_ans = kept,
                      !.num_ans_rr = @ - (Len(reply.rr_ans) - Len(kept))]

\* The answers the querier listed itself, with at least half of their time to
\* live, are taken out of the reply.
RemoveKnown(reply, heap, known) ==
    LET Keep(e) == LET k == rr_entry_match(known, heap[e])
                   IN  k = 0 \/ known[k].ttl < heap[e].ttl \div 2
        kept == Kept(reply.rr_ans, {e \in DOMAIN heap : Keep(e)})
    IN  [reply EXCEPT !.rr_ans = kept,
                      !.num_ans_rr = @ - (Len(reply.rr_ans) - Len(kept))]
=============================================================================

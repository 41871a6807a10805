----------------------------- MODULE MdnsPacket -----------------------------
(***************************************************************************)
(* The mDNS packets of tinysvcmdns: a reply written with name compression, *)
(* a packet read back.                                                     *)
(*                                                                         *)
(* The bytes after the header are a sequence of cells: a label, a pointer  *)
(* to the cell where an earlier name continues, the root, or a number or   *)
(* other field of fixed size.  Offsets and lengths count cells.            *)
(***************************************************************************)
EXTENDS MdnsRecords, FiniteSets

Label(l)   == [k |-> "label", v |-> l]
Pointer(i) == [k |-> "ptr", v |-> i]
Root       == [k |-> "root", v |-> 0]
Field(x)   == [k |-> "field", v |-> x]

-----------------------------------------------------------------------------
(* Writing.  The state is what is written and the compression list.        *)

mdns_write(st, x) == [st EXCEPT !.out = Append(@, Field(x))]

\* The position remembered is the one after the label.
Remembered_PosAfter(st, name, i) ==
    [label |-> SubSeq(name, i, Len(name)), pos |-> Len(st.out) + i + 1]

\* The compression list entry of the suffix of a name that starts at its label i.
Remembered(st, name, i) == [label |-> SubSeq(name, i, Len(name)), pos |-> Len(st.out) + i]

\* The labels are written out up to the first suffix that is known, which is a
\* pointer, or to the root; every suffix written out is remembered.  One that
\* this name has added to the list is longer than those still looked for.
mdns_encode_name(st, name) ==
    LET Entry(i) == SelectInSeq(st.comp, LAMBDA e : e.label = SubSeq(name, i, Len(name)))
        end == Min({i \in DOMAIN name : Entry(i) # 0} \cup {Len(name) + 1})
        written == 1..(end - 1)
    IN  [out  |-> st.out \o [i \in written |-> Label(name[i])]
                        \o <<IF end > Len(name) THEN Root ELSE Pointer(st.comp[Entry(end)].pos)>>,
         comp |-> st.comp \o [i \in written |-> Remembered(st, name, i)]]

EncodeData(st, rr) ==
    CASE rr.type \in {"A", "AAAA"} -> mdns_write(st, rr.data[1])
      [] rr.type = "PTR" -> mdns_encode_name(st, rr.data)
      [] rr.type = "TXT" -> [st EXCEPT !.out = @ \o [i \in DOMAIN rr.data |-> Label(rr.data[i])]]
      [] rr.type = "SRV" ->
            mdns_encode_name(mdns_write(mdns_write(mdns_write(st, rr.data.priority),
                                                   rr.data.weight), rr.data.port),
                             rr.data.target)
      [] rr.type = "NSEC" ->
            mdns_write(mdns_write(mdns_write(mdns_encode_name(st, rr.name), 0), 5), rr.data)

\* The length of the data is filled in when the data has been written.
mdns_encode_rr(st, rr) ==
    LET named == mdns_encode_name(st, rr.name)
        fixed == mdns_write(mdns_write(mdns_write(named, rr.type),
                                       (rr.rr_class % 32768) + 32768 * rr.cache_flush), rr.ttl)
        start == Len(fixed.out) + 1
        data  == EncodeData(mdns_write(fixed, 0), rr)
    IN  [data EXCEPT !.out[start] = Field(Len(data.out) - start)]

mdns_encode_pkt(reply, heap) ==
    LET records == reply.rr_ans \o reply.rr_add
        written[i \in 0..Len(records)] ==
            IF i = 0 THEN [out |-> <<>>, comp |-> <<>>]
            ELSE mdns_encode_rr(written[i - 1], heap[records[i]])
        done == written[Len(records)]
    IN  [id |-> reply.id, flags |-> reply.flags, num_qn |-> 0,
         num_ans_rr |-> reply.num_ans_rr, num_add_rr |-> reply.num_add_rr, body |-> done.out]

-----------------------------------------------------------------------------
(* Reading.  A reader returns the offset after what it has read, 0 for an  *)
(* error.                                                                  *)

\* How many cells the name at off occupies; a pointer ends it.
label_len(body, off) ==
    LET ends == {i \in off..Len(body) : body[i].k \in {"root", "ptr"}}
    IN  IF ends = {} THEN Cardinality(off..Len(body)) ELSE Min(ends) + 1 - off

\* The label at p is copied, for a pointer the one it points at, and p moves
\* behind that label; at the root or beyond the packet it stays.
CopyLabel(body, r) ==
    LET p2 == IF body[r.p].k = "ptr" THEN body[r.p].v ELSE r.p
    IN  IF r.p > Len(body) \/ body[r.p].k = "root" THEN r
        ELSE [p |-> p2 + 1, str |-> Append(r.str, body[p2].v)]

\* A name that ends has fewer labels than the packet cells, for none is copied
\* twice.  (The code follows pointers that never end for ever.)
uncompress_nlabel(body, off) ==
    LET copied[n \in 0..Len(body)] ==
            IF n = 0 THEN [p |-> off, str |-> <<>>] ELSE CopyLabel(body, copied[n - 1])
    IN  copied[Len(body)].str

\* The read of the class clears bit 7, so the cache flush bit stays in rr_class.
ReadClass(x) == x - 128 * ((x \div 128) % 2)
TopBit(x) == x \div 32768

mdns_parse_qn(body, off) ==
    LET p == off + label_len(body, off) IN
    IF off > Len(body) THEN [next |-> 0]
    ELSE [next |-> p + 2,
          rr |-> [name |-> uncompress_nlabel(body, off), type |-> body[p].v,
                  unicast_query |-> TopBit(body[p + 1].v), rr_class |-> ReadClass(body[p + 1].v)]]

\* The data of a record that parsing understands; the others are skipped.
ParseData(body, type, p, len) ==
    CASE type \in {"A", "AAAA"} -> <<body[p].v>>
      [] type = "PTR" -> uncompress_nlabel(body, p)
      [] type = "TXT" -> IF len = 0 THEN <<"">> ELSE [i \in 1..len |-> body[p + i - 1].v]
      [] OTHER -> <<>>

mdns_parse_rr(body, off) ==
    LET p   == off + label_len(body, off)
        len == body[p + 3].v
    IN
    IF \/ off > Len(body)
       \/ p + 3 + len > Len(body)
       \/ body[p].v \in {"A", "AAAA"} /\ len < 1
    THEN [next |-> 0]
    ELSE [next |-> p + 4 + len,
          rr |-> [name |-> uncompress_nlabel(body, off), type |-> body[p].v,
                  cache_flush |-> TopBit(body[p + 1].v), rr_class |-> ReadClass(body[p + 1].v),
                  ttl |-> body[p + 2].v, data |-> ParseData(body, body[p].v, p + 4, len)]]

\* n records from off with the reader Parse; the packet is refused on an error.
ParseAll(Parse(_), n, off) ==
    LET at[i \in 0..n] ==
            IF i = 0 THEN off
            ELSE LET o == at[i - 1] IN IF o = 0 THEN 0 ELSE Parse(o).next
    IN  [next |-> at[n],
         rrs  |-> IF at[n] = 0 THEN <<>> ELSE [i \in 1..n |-> Parse(at[i - 1]).rr]]

\* Questions, then answers; the other sections are not read.
mdns_parse_pkt(pkt) ==
    LET qn  == ParseAll(LAMBDA o : mdns_parse_qn(pkt.body, o), pkt.num_qn, 1)
        ans == ParseAll(LAMBDA o : mdns_parse_rr(pkt.body, o), pkt.num_ans_rr, qn.next)
    IN  [ok |-> qn.next # 0 /\ ans.next # 0, id |-> pkt.id, flags |-> pkt.flags,
         rr_qn |-> qn.rrs, rr_ans |-> ans.rrs, next |-> ans.next]
=============================================================================

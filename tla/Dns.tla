-------------------------------- MODULE Dns --------------------------------
(***************************************************************************)
(* dns messages as bytes (src/protocols/dns), the database of a server and *)
(* its trie, and what dns_tool makes of a query.  A name is its characters *)
(* and a terminating 0; b is a whole message and i a position in it.       *)
(***************************************************************************)
EXTENDS Wire

dot == 46
jump_mask == 192
a_type == 1
soa_type == 6
mx_type == 15

\* The options of dns_client.
str_to_dns_record_type(str) ==
  CASE str = "a" -> <<a_type>> [] str = "mx" -> <<mx_type>> [] str = "soa" -> <<soa_type>>
    [] str = "ptr" -> <<12>> [] str = "cname" -> <<5>> [] str = "ns" -> <<2>> [] OTHER -> <<>>
str_to_dns_record_class(str) ==
  CASE str = "in" -> <<1>> [] str = "ch" -> <<3>> [] OTHER -> <<>>

-----------------------------------------------------------------------------
(* Names: every label after its length.  The character in front of which   *)
(* the last label ends is taken for the terminator.                        *)

encode_dns_name(data) ==
  LET start(c) == 1 + Max({0} \cup {k \in 1 .. c - 1 : data[k] = dot})
      upto(c) == <<c - start(c)>> \o SubSeq(data, start(c), c - 1)
      cut(c) == data[c] = dot \/ c = Len(data)
  IN  FlattenSeq([c \in 1 .. Len(data) |-> IF cut(c) THEN upto(c) ELSE <<>>]) \o <<0>>

decode_dns_name(name) ==
  LET from[i \in 1 .. Len(name), res \in Seq(0 .. 255)] ==
        IF name[i] = 0 THEN Append(res, 0)
        ELSE from[i + 1 + name[i], (IF res = <<>> THEN res ELSE Append(res, dot))
                                     \o SubSeq(name, i + 1, i + name[i])]
  IN  from[1, <<>>]

\* Mutant: a jump is read as the end of the name.
name_bytes_cut(b, start) ==
  LET from[i \in 1 .. Len(b)] ==
        IF b[i] = 0 \/ b[i] >= jump_mask THEN <<0>> ELSE <<b[i]>> \o from[i + 1]
  IN  from[start]

name_bytes(b, start) ==
  LET from[i \in 1 .. Len(b)] ==
        IF b[i] = 0 THEN <<0>>
        ELSE IF b[i] >= jump_mask THEN from[1 + 256 * (b[i] - jump_mask) + b[i + 1]]
        ELSE <<b[i]>> \o from[i + 1]
  IN  from[start]

\* The name and the bytes it takes here: up to its end or to the first jump.
extract_encoded_name(b, i) ==
  LET end == CHOOSE j \in i .. Len(b) : /\ b[j] = 0 \/ b[j] >= jump_mask
                                        /\ \A k \in i .. j - 1 : b[k] # 0 /\ b[k] < jump_mask
  IN  <<name_bytes(b, i), end - i + (IF b[end] = 0 THEN 1 ELSE 2)>>

-----------------------------------------------------------------------------
(* Headers, queries and answers.  Nothing here is sent with ra = 1, whose  *)
(* shift by 128 the language leaves undefined.  The counts are the lengths *)
(* of the four lists: a message in which they differ is never written.     *)

write_dns_header(h, counts) ==
  htons(h.id)
    \o <<h.rd + 2 * h.tc + (IF h.opcode = 0 THEN 4 * h.aa ELSE 0) + 128 * h.qr,
         h.rcode + 16 * h.cd + 32 * h.ad>>
    \o FlattenSeq([k \in 1 .. 4 |-> htons(counts[k])])
extract_dns_header(b) ==
  LET bit(n, k) == (n \div 2 ^ k) % 2
  IN  [id |-> ntohs(b, 1), qr |-> bit(b[3], 7), opcode |-> (b[3] \div 8) % 16, aa |-> bit(b[3], 2),
       tc |-> bit(b[3], 1), rd |-> bit(b[3], 0), ra |-> bit(b[4], 7), ad |-> bit(b[4], 5),
       cd |-> bit(b[4], 4), rcode |-> b[4] % 16]

make_dns_query(name, type, class) == [name |-> Append(name, 0), type |-> type, class |-> class]

write_dns_query(q) == encode_dns_name(q.name) \o htons(q.type) \o htons(q.class)
extract_dns_query(b, i) ==
  With(extract_encoded_name(b, i), LAMBDA n :
    <<[name |-> decode_dns_name(n[1]), type |-> ntohs(b, i + n[2]), class |-> ntohs(b, i + n[2] + 2)],
      n[2] + 4>>)

\* ttl: two bytes in network order, at the start of its four.
write_dns_answer(r) ==
  encode_dns_name(r.name) \o htons(r.type) \o htons(r.class) \o htons(r.ttl) \o <<0, 0>>
    \o htons(Len(r.rdata)) \o r.rdata
extract_dns_answer(b, i) ==
  With(extract_dns_query(b, i), LAMBDA q :
    LET j == i + q[2]
        len == ntohs(b, j + 4)
    IN  <<[name |-> q[1].name, type |-> q[1].type, class |-> q[1].class, ttl |-> ntohs(b, j),
           rdata |-> SubSeq(b, j + 6, j + 5 + len)], q[2] + 6 + len>>)

mx_to_rdata(preference, domain) == htons(preference) \o encode_dns_name(domain)
extract_mx(rdata) == <<ntohs(rdata, 1), decode_dns_name(extract_encoded_name(rdata, 3)[1])>>

\* Only the serial number is copied as four bytes: what follows reaches from
\* each of the other numbers to the end of the serial number, wherever the
\* build has put them (junk).
soa_to_rdata(primary_server, admin_mail_server, junk) ==
  encode_dns_name(primary_server) \o encode_dns_name(admin_mail_server) \o <<0, 0, 0, 69>> \o junk

write_dns_message(m) ==
  LET all(list, write(_)) == FlattenSeq([k \in 1 .. Len(list) |-> write(list[k])])
  IN  write_dns_header(m.header, <<Len(m.queries), Len(m.ans), Len(m.ans_auth), Len(m.ans_addit)>>)
        \o all(m.queries, write_dns_query) \o all(m.ans, write_dns_answer)
        \o all(m.ans_auth, write_dns_answer) \o all(m.ans_addit, write_dns_answer)

extract_dns_message(b) ==
  LET answers(k, start) == items(ntohs(b, k), start, LAMBDA i : extract_dns_answer(b, i + 1))
  IN  With(items(ntohs(b, 5), 12, LAMBDA i : extract_dns_query(b, i + 1)), LAMBDA queries :
        With(answers(7, queries[2]), LAMBDA ans :
          With(answers(9, ans[2]), LAMBDA auth :
            [header |-> extract_dns_header(b), queries |-> queries[1], ans |-> ans[1],
             ans_auth |-> auth[1], ans_addit |-> answers(11, auth[2])[1]])))

-----------------------------------------------------------------------------
(* The database: for each type a trie, its nodes under the words that lead *)
(* to them.                                                                *)

trie_node(marked, key) == [marked |-> marked, key |-> key]
empty_trie == [w \in {<<>>} |-> trie_node(FALSE, <<>>)]

\* There is no node for an empty word: the root is never marked.  (The caller
\* would write through the null pointer it gets; no name of a file is empty.)
add_word(trie, word, key) ==
  IF word = <<>> THEN trie
  ELSE
  [w \in DOMAIN trie \cup {SubSeq(word, 1, k) : k \in 1 .. Len(word)} |->
     IF w = word THEN trie_node(TRUE, key)
     ELSE IF w \in DOMAIN trie THEN trie[w] ELSE trie_node(FALSE, <<>>)]

contains_word(trie, word) == word \in DOMAIN trie /\ trie[word].marked

\* A record of a hosts file: lines whose ip4 address does not parse are skipped.
add_record(db, r) ==
  [db EXCEPT ![r.type] = IF r.val = <<>> THEN @ ELSE add_word(@, r.name, r.val)]

\* Mutant: a node on the way to a word is taken for a record.
search_record_prefix(trie, word) == [found |-> word \in DOMAIN trie,
                                     key |-> IF word \in DOMAIN trie THEN trie[word].key ELSE <<>>]

search_record(trie, word) == [found |-> contains_word(trie, word),
                              key |-> IF contains_word(trie, word) THEN trie[word].key ELSE <<>>]

-----------------------------------------------------------------------------
(* dns_tool *)

\* send_requests: everything but ad and cd is set.
request(query, ad, cd) ==
  [header |-> [id |-> 35152, qr |-> 0, opcode |-> 0, aa |-> 0, tc |-> 0, rd |-> 1, ra |-> 0,
               ad |-> ad, cd |-> cd, rcode |-> 0],
   queries |-> <<query>>, ans |-> <<>>, ans_auth |-> <<>>, ans_addit |-> <<>>]

get_my_start_of_authority(junk) ==
  [name |-> <<115, 0>>, type |-> soa_type, class |-> 1, ttl |-> 900,
   rdata |-> soa_to_rdata(<<110, 0>>, <<110, 0>>, junk)]

\* What the database has for a query.
record(db, q) ==
  IF q.type \in DOMAIN db THEN search_record(db[q.type], SubSeq(q.name, 1, Len(q.name) - 1))
  ELSE [found |-> FALSE, key |-> <<>>]

\* The domain of an mx record is copied without a terminator.
answer_record(q, key) ==
  [name |-> q.name, type |-> q.type, class |-> q.class, ttl |-> 3600,
   rdata |-> IF q.type = a_type THEN key ELSE mx_to_rdata(10, key)]

handle_query(db, msg, ad, cd, junk) ==
  LET found(q) == record(db, q).found
      hits == SelectSeq(msg.queries, found)
      misses == SelectSeq(msg.queries, LAMBDA q : ~found(q))
  IN  [header |-> [msg.header EXCEPT !.qr = 1, !.opcode = 0, !.aa = 0, !.tc = 0, !.rd = 0, !.ra = 0,
                                     !.ad = ad, !.cd = cd, !.rcode = 0],
       queries |-> msg.queries,
       ans |-> [k \in 1 .. Len(hits) |-> answer_record(hits[k], record(db, hits[k]).key)],
       ans_auth |-> [k \in 1 .. Len(misses) |-> get_my_start_of_authority(junk)],
       ans_addit |-> <<>>]
=============================================================================

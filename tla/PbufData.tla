------------------------------ MODULE PbufData ------------------------------
(***************************************************************************)
(* The functions of core/pbuf.c that read, write and search the contents   *)
(* of a chain.  Here a chain is the sequence of its payloads.  A behaviour *)
(* begins with one call of such a function, whose step computes the result *)
(* as the loop of the function does, or with none; then it is one of Pbuf. *)
(* Copying to and from memory shows what was copied.                       *)
(***************************************************************************)
EXTENDS Pbuf, SequencesExt

CONSTANTS Byte,            \* the bytes that occur, 0 among them
          MaxLen,          \* bound on the length of one pbuf
          MaxChain,        \* bound on the pbufs of a chain
          MaxMem,          \* bound on the length of the other operand
          Ops              \* the functions called

ASSUME PbufDataAssumption == {0} \subseteq Byte /\ Byte \subseteq 0..255

VARIABLES call, result     \* the call, NULL if there is none; what it returned
dataVars == <<call, result>>

NotFound == 65535          \* 0xFFFF
Bytes(chain) == FlattenSeq(chain)
TotLen(chain) == Len(Bytes(chain))
-----------------------------------------------------------------------------
\* The byte at an offset, in the pbuf it falls in; zero behind the end.
RECURSIVE pbuf_get_at(_, _)
pbuf_get_at(q, copy_from) ==
  IF q = <<>> THEN 0
  ELSE IF Len(Head(q)) <= copy_from THEN pbuf_get_at(Tail(q), copy_from - Len(Head(q)))
  ELSE Head(q)[copy_from + 1]

\* The chain from the pbuf the offset falls in, and the offset in that.
RECURSIVE At(_, _)
At(q, start) ==
  IF q # <<>> /\ Len(Head(q)) <= start THEN At(Tail(q), start - Len(Head(q))) ELSE <<q, start>>

\* Mutant: the difference is reported by its own offset.
MemcmpFromZero(p, offset, s2) ==
  LET q == At(p, offset)[1]
      start == At(p, offset)[2]
      differ == {i \in 0..(Len(s2) - 1) : pbuf_get_at(q, start + i) # s2[i + 1]}
  IN IF q = <<>> THEN NotFound
     ELSE IF differ = {} THEN 0
     ELSE CHOOSE i \in differ : \A j \in differ : i <= j

\* Zero if the chain has s2 at offset, the first difference + 1 otherwise, and
\* 0xFFFF if the offset is behind the end.
pbuf_memcmp(p, offset, s2) ==
  LET q == At(p, offset)[1]
      start == At(p, offset)[2]
      differ == {i \in 0..(Len(s2) - 1) : pbuf_get_at(q, start + i) # s2[i + 1]}
  IN IF q = <<>> THEN NotFound
     ELSE IF differ = {} THEN 0
     ELSE 1 + CHOOSE i \in differ : \A j \in differ : i <= j

\* The search goes on behind the byte that differed.
RECURSIVE FindFrom(_, _, _)
FindFrom(p, mem, i) ==
  IF i > TotLen(p) - Len(mem) THEN NotFound
  ELSE LET plus == pbuf_memcmp(p, i, mem)
       IN IF plus = 0 THEN i ELSE FindFrom(p, mem, (i + plus) % 65536)

pbuf_memfind(p, mem, start_offset) ==
  IF TotLen(p) >= Len(mem) + start_offset THEN FindFrom(p, mem, start_offset) ELSE NotFound

\* The bytes of a C string: those before the first zero.
CString(s) == IF 0 \in ToSet(s) THEN SubSeq(s, 1, SelectInSeq(s, LAMBDA b : b = 0) - 1) ELSE s

\* A string is searched for from the beginning; no string is found if empty.
pbuf_strstr(p, substr) ==
  IF CString(substr) = <<>> THEN NotFound ELSE pbuf_memfind(p, CString(substr), 0)
-----------------------------------------------------------------------------
\* The bytes copied from the chain: at most len, from offset on.
RECURSIVE pbuf_copy_partial(_, _, _)
pbuf_copy_partial(p, len, offset) ==
  IF len = 0 \/ p = <<>> THEN <<>>
  ELSE IF offset # 0 /\ offset >= Len(Head(p))
  THEN pbuf_copy_partial(Tail(p), len, offset - Len(Head(p)))
  ELSE LET n == Smaller(Len(Head(p)) - offset, len)
       IN SubSeq(Head(p), offset + 1, offset + n) \o pbuf_copy_partial(Tail(p), len - n, 0)

\* Bytes of payload from offset on are overwritten with data.
Overwrite(payload, offset, data) ==
  [i \in 1..Len(payload) |->
     IF i \in (offset + 1)..(offset + Len(data)) THEN data[i - offset] ELSE payload[i]]

\* The chain's pbufs are filled one after the other.
RECURSIVE Fill(_, _)
Fill(p, data) ==
  IF data = <<>> THEN p
  ELSE LET n == Smaller(Len(data), Len(Head(p)))
       IN <<Overwrite(Head(p), 0, SubSeq(data, 1, n))>> \o Fill(Tail(p), SubSeq(data, n + 1, Len(data)))

pbuf_take(buf, data) ==
  IF TotLen(buf) < Len(data) THEN [err |-> "ERR_ARG", chain |-> buf]
  ELSE [err |-> "ERR_OK", chain |-> Fill(buf, data)]
-----------------------------------------------------------------------------
\* A pbuf with this and more behind it in the chain ends a packet: its total is
\* its own length.
PacketEnds(chain, i) == TotLen(SubSeq(chain, i + 1, Len(chain))) = 0 /\ i < Len(chain)

\* Mutant: the offset in the source is kept for its next pbuf.
RECURSIVE CopyKeepingOffset(_, _, _, _, _, _)
CopyKeepingOffset(to, j, offset_to, from, i, offset_from) ==
  LET len == Smaller(Len(to[j]) - offset_to, Len(from[i]) - offset_from)
      copied == [to EXCEPT ![j] = Overwrite(@, offset_to, SubSeq(from[i], offset_from + 1, offset_from + len))]
      i2 == IF offset_from + len >= Len(from[i]) THEN i + 1 ELSE i
      j2 == IF offset_to + len = Len(to[j]) THEN j + 1 ELSE j
  IN IF j2 > Len(to) /\ i2 <= Len(from) THEN [err |-> "ERR_ARG", chain |-> copied]
     ELSE IF i2 > Len(from) THEN [err |-> "ERR_OK", chain |-> copied]
     ELSE CopyKeepingOffset(copied, j2, IF j2 = j THEN offset_to + len ELSE 0, from, i2,
                            Smaller(offset_from + len, Len(from[i2])))

\* One round of the loop: from pbuf i of the source to pbuf j of the target,
\* what both have; then on to the next of either.  A packet may not end before
\* its chain does.
RECURSIVE CopyLoop(_, _, _, _, _, _)
CopyLoop(to, j, offset_to, from, i, offset_from) ==
  LET len == Smaller(Len(to[j]) - offset_to, Len(from[i]) - offset_from)
      copied == [to EXCEPT ![j] = Overwrite(@, offset_to, SubSeq(from[i], offset_from + 1, offset_from + len))]
      i2 == IF offset_from + len >= Len(from[i]) THEN i + 1 ELSE i
      j2 == IF offset_to + len = Len(to[j]) THEN j + 1 ELSE j
  IN IF j2 > Len(to) /\ i2 <= Len(from) THEN [err |-> "ERR_ARG", chain |-> copied]
     ELSE IF PacketEnds(from, i2) \/ PacketEnds(to, j2) THEN [err |-> "ERR_VAL", chain |-> copied]
     ELSE IF i2 > Len(from) THEN [err |-> "ERR_OK", chain |-> copied]
     ELSE CopyLoop(copied, j2, IF j2 = j THEN offset_to + len ELSE 0,
                   from, i2, IF i2 = i THEN offset_from + len ELSE 0)

pbuf_copy(p_to, p_from) ==
  IF TotLen(p_to) < TotLen(p_from) THEN [err |-> "ERR_ARG", chain |-> p_to]
  ELSE CopyLoop(p_to, 1, 0, p_from, 1, 0)
-----------------------------------------------------------------------------
Mem == BoundedSeq(Byte, MaxMem)
Packets == BoundedSeq(BoundedSeq(Byte, MaxLen), MaxChain) \ {<<>>}
Blank == {c \in Packets : \A i \in DOMAIN c : \A k \in DOMAIN c[i] : c[i][k] = 0}
Offsets == 0..(MaxLen * MaxChain + 1)

Calls == [op : {"memfind", "memcmp", "get_at"}, p : Packets, mem : Mem, at : Offsets]
         \cup [op : {"copy_partial"}, p : Packets, at : Offsets, len : Offsets]
         \cup [op : {"take"}, p : Packets, mem : Mem]
         \cup [op : {"strstr"}, p : Packets, mem : Mem]
         \cup [op : {"copy"}, p : Packets, to : Blank]

DataInit == Init /\ call \in {c \in Calls : c.op \in Ops} \cup {NULL} /\ result = NULL

Return == /\ call # NULL /\ result = NULL
          /\ result' = CASE call.op = "memfind" -> pbuf_memfind(call.p, call.mem, call.at)
                         [] call.op = "memcmp" -> pbuf_memcmp(call.p, call.at, call.mem)
                         [] call.op = "get_at" -> pbuf_get_at(call.p, call.at)
                         [] call.op = "strstr" -> pbuf_strstr(call.p, call.mem)
                         [] call.op = "copy_partial" -> pbuf_copy_partial(call.p, call.len, call.at)
                         [] call.op = "take" -> pbuf_take(call.p, call.mem)
                         [] call.op = "copy" -> pbuf_copy(call.to, call.p)
          /\ UNCHANGED <<vars, call>>

Forget == result # NULL /\ call' = NULL /\ result' = NULL /\ UNCHANGED vars

DataNext == Return \/ Forget \/ (call = NULL /\ Next /\ UNCHANGED dataVars)
DataSpec == DataInit /\ [][DataNext]_<<vars, dataVars>>
-----------------------------------------------------------------------------
Returned(op) == result # NULL /\ call.op = op
Here == Bytes(call.p)
Occurs(mem, i) == i + Len(mem) <= Len(Here) /\ SubSeq(Here, i + 1, i + Len(mem)) = mem

\* The byte of the packet at an offset, and zero behind its end.
ByteAt(i) == IF i < Len(Here) THEN Here[i + 1] ELSE 0

\* The result of a search for mem from an offset on: what is found is there; and
\* an occurrence is passed over only if right before it stands a beginning of mem,
\* a match that failed inside the occurrence.
Searched(mem, at) ==
  /\ result # NotFound => result >= at /\ Occurs(mem, result)
  /\ \A i \in at..Len(Here) - Len(mem) :
       Occurs(mem, i) /\ (result = NotFound \/ i < result) =>
         \E k \in 1..Len(mem) - 1 : k <= i - at /\ Occurs(SubSeq(mem, 1, k), i - k)

\* Across pbufs of any lengths, empty ones too: pbuf_get_at returns the byte of
\* the packet at an offset and "zero for offset >= p->tot_len"; pbuf_memcmp
\* returns 0xFFFF exactly if the offset is behind the end, else it compares with
\* the packet continued by zeros and returns zero if equal and the first
\* difference + 1 otherwise; pbuf_memfind and pbuf_strstr find the first
\* occurrence, unless it overlaps a failed match before it.
SearchesRight ==
  /\ Returned("get_at") => result = ByteAt(call.at)
  /\ Returned("memcmp") =>
       /\ result = NotFound <=> call.at >= Len(Here)
       /\ result = 0 => \A i \in DOMAIN call.mem : ByteAt(call.at + i - 1) = call.mem[i]
       /\ result \notin {0, NotFound} =>
            /\ ByteAt(call.at + result - 1) # call.mem[result]
            /\ \A i \in 1..result - 1 : ByteAt(call.at + i - 1) = call.mem[i]
  /\ Returned("memfind") /\ call.mem # <<>> => Searched(call.mem, call.at)
  /\ Returned("strstr") =>
       IF CString(call.mem) = <<>> THEN result = NotFound ELSE Searched(CString(call.mem), 0)

\* pbuf_copy_partial copies the bytes of the packet from offset on, as many as
\* asked for or as there are; pbuf_take puts the data at the front of the packet
\* and changes no other byte and no pbuf's length; pbuf_copy copies the packet to
\* the front of the target, however the two are divided, and without empty pbufs
\* it succeeds if the target is big enough.
CopiesRight ==
  /\ Returned("copy_partial") =>
       result = SubSeq(Here, call.at + 1, Smaller(Len(Here), call.at + call.len))
  /\ Returned("take") /\ result.err = "ERR_OK" =>
       /\ Bytes(result.chain) = call.mem \o SubSeq(Here, Len(call.mem) + 1, Len(Here))
       /\ \A i \in DOMAIN call.p : Len(result.chain[i]) = Len(call.p[i])
  /\ Returned("copy") =>
       /\ result.err = "ERR_OK" => IsPrefix(Here, Bytes(result.chain))
       /\ (\A c \in {call.p, call.to} : \A i \in DOMAIN c : c[i] # <<>>)
            => result.err = IF Len(Here) <= TotLen(call.to) THEN "ERR_OK" ELSE "ERR_ARG"
=============================================================================

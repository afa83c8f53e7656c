------------------------------ MODULE Protobuf ------------------------------
(***************************************************************************)
(* The wire format of the protobuf library, as far as the generated        *)
(* classes use it: varints, and fields that are a varint or a length and   *)
(* that many bytes.  A byte is a number; a text is a sequence of bytes, in *)
(* which 255 stands for whatever makes it invalid UTF-8.                   *)
(***************************************************************************)
EXTENDS Naturals, Sequences, SequencesExt

MaxVarintSize == 4

VarintSize(n) == CHOOSE k \in 1..MaxVarintSize :
    n < 128^k /\ (k = 1 \/ n >= 128^(k - 1))

Varint(n) == [i \in 1..VarintSize(n) |->
    ((n \div 128^(i - 1)) % 128) + (IF i < VarintSize(n) THEN 128 ELSE 0)]

Byte == 0..255

\* The varint at the front of b and what follows it, <<>> if there is none.
ReadVarint[b \in Seq(Byte)] ==
    IF b = <<>> THEN <<>>
    ELSE IF Head(b) < 128 THEN <<Head(b), Tail(b)>>
    ELSE LET more == ReadVarint[Tail(b)] IN
         IF more = <<>> THEN <<>> ELSE <<Head(b) - 128 + 128 * more[1], more[2]>>

VarintField(number, n) == <<8 * number>> \o Varint(n)
BytesField(number, s) == <<8 * number + 2>> \o Varint(Len(s)) \o s
BytesSize(s) == VarintSize(Len(s)) + Len(s)

ValidText(s) == \A i \in 1..Len(s) : s[i] # 255

\* The fields of b in order; Malformed stands for what cannot be read.
Malformed == [tag |-> 0, value |-> 0]

Fields[b \in Seq(Byte)] ==
    IF b = <<>> THEN <<>>
    ELSE LET tag == ReadVarint[b]
             number == ReadVarint[tag[2]]
             Field(v) == [tag |-> tag[1], value |-> v]
         IN IF tag = <<>> \/ number = <<>> THEN <<Malformed>>
            ELSE CASE tag[1] % 8 = 0 -> <<Field(number[1])>> \o Fields[number[2]]
                   [] tag[1] % 8 = 2 /\ number[1] <= Len(number[2]) ->
                        <<Field(SubSeq(number[2], 1, number[1]))>>
                        \o Fields[SubSeq(number[2], number[1] + 1, Len(number[2]))]
                   [] OTHER -> <<Malformed>>

\* A message read from b into fresh by Set, one field at a time: <<message>>,
\* or <<>> when it does not parse.
ParseMessage(b, fresh, Set(_, _)) ==
    LET fields == Fields[b]
        read[i \in 0..Len(fields)] ==
            IF i = 0 THEN <<fresh>>
            ELSE LET m == read[i - 1] IN
                 IF m = <<>> \/ fields[i].tag = 0 THEN <<>> ELSE Set(m[1], fields[i])
    IN read[Len(fields)]
=============================================================================

-------------------------------- MODULE Streams --------------------------------
(***************************************************************************)
(* The streams of common/lang, through which models and ratings go to      *)
(* files and come back.  A text file is a sequence of tokens: a number, or *)
(* one character.  A binary file is a sequence of bytes; a float is the    *)
(* number its bits are.  A read that cannot be done throws, and nothing is *)
(* read from the stream after that: "failed".                              *)
(***************************************************************************)
EXTENDS Integers, Sequences, SequencesExt

Open(file) == [rest |-> file, read |-> <<>>, failed |-> FALSE]

Failed(s) == [s EXCEPT !.failed = TRUE]

\* What the stream reads is "value"; n tokens or bytes are gone.
Got(s, value, n) ==
    [rest |-> SubSeq(s.rest, n + 1, Len(s.rest)), read |-> Append(s.read, value), failed |-> FALSE]

Times(op(_), s, n) == FoldLeft(LAMBDA t, i : op(t), s, [i \in 1..n |-> i])
-----------------------------------------------------------------------------
(* TextInputStream and TextOutputStream.                                   *)

Number(n) == [kind |-> "number", value |-> n]
Char(c) == [kind |-> "char", value |-> c]

IsSpace(token) == token.kind = "char" /\ token.value \in {" ", "\n"}

\* %d and %f skip white space.
ReadNumber(s) ==
    LET at == SelectInSeq(s.rest, LAMBDA token : ~IsSpace(token))
    IN IF s.failed \/ at = 0 \/ s.rest[at].kind # "number" THEN Failed(s)
       ELSE Got(s, s.rest[at].value, at)

\* %c does not.
ReadChar(s) ==
    IF s.failed \/ s.rest = <<>> THEN Failed(s) ELSE [s EXCEPT !.rest = Tail(@)]

\* fgetc does not throw at the end.
SkipChar(s) == IF s.rest = <<>> THEN s ELSE [s EXCEPT !.rest = Tail(@)]

\* "size" numbers with "splitLen" characters between them.
ReadNumbers(s, size, splitLen) ==
    IF size = 0 THEN s
    ELSE Times(LAMBDA t : ReadNumber(Times(SkipChar, t, splitLen)), ReadNumber(s), size - 1)

WriteNumbers(data, split) ==
    FlattenSeq([i \in DOMAIN data |-> (IF i = 1 THEN <<>> ELSE split) \o <<Number(data[i])>>])

\* "n" numbers with a character after each: tis >> i >> sep >> j >> sep.
ReadLine(s, n) == Times(LAMBDA t : ReadChar(ReadNumber(t)), s, n)

WriteLine(data) == WriteNumbers(data, <<Char(",")>>) \o <<Char("\n")>>
-----------------------------------------------------------------------------
(* BinaryInputStream and BinaryOutputStream.                               *)

\* The sizes of int32 or float32, and of int64 or float64.
Narrow == 4
Wide == 8

\* Little-endian, two's complement.
WriteBinary(n, width) ==
    LET low(s, i) == [bytes |-> Append(s.bytes, s.left % 256), left |-> s.left \div 256]
    IN FoldLeft(low, [bytes |-> <<>>, left |-> n], [i \in 1..width |-> i]).bytes

FromBytes(bytes) ==
    LET high == Last(bytes)
    IN FoldRight(LAMBDA b, n : n * 256 + b, Front(bytes), IF high > 127 THEN high - 256 ELSE high)

ReadBinary(s, width) ==
    IF s.failed \/ Len(s.rest) < width THEN Failed(s)
    ELSE Got(s, FromBytes(SubSeq(s.rest, 1, width)), width)

ReadBinaries(s, size, width) == Times(LAMBDA t : ReadBinary(t, width), s, size)

WriteBinaries(data, width) == FlattenSeq([i \in DOMAIN data |-> WriteBinary(data[i], width)])
=============================================================================

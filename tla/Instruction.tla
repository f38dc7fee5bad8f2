---------------------------- MODULE Instruction ----------------------------
(***************************************************************************)
(* The wire format of pkg/instruction.go.  An instruction is a sequence of *)
(* elements, the opcode and its arguments, each written as its length, a   *)
(* dot, its characters and a terminator: a comma, or a semicolon after the *)
(* last.                                                                   *)
(*                                                                         *)
(* A byte is a decimal digit (0 to 9), one of the three separators, the    *)
(* first or a later byte of a three-byte character, or some other letter.  *)
(* An opcode is abbreviated to one letter.                                 *)
(***************************************************************************)
EXTENDS Integers, SequencesExt

Digit == 0 .. 9
Dot == 10
Comma == 11
Semicolon == 12
Lead == 13
Cont == 14
Byte == 0 .. 29

(* utf8.DecodeRune on the bytes up to b[hi]: three bytes make a character   *)
(* when all of them are there; otherwise every byte counts as one.          *)
Whole(b, k, hi) == b[k] = Lead /\ k + 2 <= hi /\ b[k + 1] = Cont /\ b[k + 2] = Cont

Starts(b, k, hi) == \A j \in {k - 1, k - 2} \cap 1 .. hi : ~Whole(b, j, hi)

(* Where n characters that start at p end, the place of the terminator: one *)
(* behind the last byte when there are not so many.                         *)
RunesEnd(b, p, hi, n) ==
    CHOOSE q \in p .. hi + 1 :
       LET m == Cardinality({k \in p .. q - 1 : Starts(b, k, hi)})
       IN  Starts(b, q, hi) /\ (m = n \/ (m < n /\ q = hi + 1))

(* The number written with the digits b[p] to b[q - 1]. *)
Number(b, p, q) ==
    LET value[k \in p .. q] == IF k = p THEN 0 ELSE value[k - 1] * 10 + b[k - 1]
    IN  value[q]

(* %d of a length below 100. *)
Decimal(n) == IF n < 10 THEN <<n>> ELSE <<n \div 10, n % 10>>

-----------------------------------------------------------------------------
(* Instruction.String: a length is a number of bytes here. *)
String(elements) ==
    LET Written(k) ==
          Decimal(Len(elements[k])) \o <<Dot>> \o elements[k]
             \o <<IF k = Len(elements) THEN Semicolon ELSE Comma>>
    IN  FlattenSeq([k \in DOMAIN elements |-> Written(k)])

(* Parse: where the length of the element that starts at p ends, where its  *)
(* terminator is (a length is a number of characters here), and where the   *)
(* elements start.                                                          *)
LengthEnd(data, p) ==
    CHOOSE d \in p .. Len(data) : data[d] = Dot /\ \A k \in p .. d - 1 : data[k] # Dot

Terminator(data, p) ==
    RunesEnd(data, LengthEnd(data, p) + 1, Len(data), Number(data, p, LengthEnd(data, p)))

ElementStarts(data) ==
    LET elementStart[k \in 1 .. Len(data)] ==
          IF k = 1 THEN 1 ELSE Terminator(data, elementStart[k - 1]) + 1
    IN  elementStart

(* The elements of an instruction ReadSome returned, up to the first that   *)
(* has a semicolon; none when a length is missing.                          *)
Parse(data) ==
    LET start == ElementStarts(data)
        Ends(k) == data[Terminator(data, start[k])] = Semicolon
        n == CHOOSE k \in 1 .. Len(data) : Ends(k) /\ \A j \in 1 .. k - 1 : ~Ends(j)
    IN  IF \E k \in 1 .. n : LengthEnd(data, start[k]) = start[k] THEN <<>>
        ELSE [k \in 1 .. n |->
                SubSeq(data, LengthEnd(data, start[k]) + 1, Terminator(data, start[k]) - 1)]
=============================================================================

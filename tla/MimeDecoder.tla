----------------------------- MODULE MimeDecoder -----------------------------
(* MimeDecoder.cc: from the lines of a body, or of a header, to the lines   *)
(* of text that were encoded in them.                                       *)
EXTENDS CharCodes, FiniteSetsExt

Equals == 61
Query == 63

(* MultiLineString::fromText: the lines of a text that ends its lines with  *)
(* CR, LF or both.                                                          *)
FromText(s) ==
    LET from[i \in 1..(Len(s) + 1)] ==
            LET ends == {j \in i..Len(s) : s[j] \in {Newline, Return}}
                e == Min(ends)
                both == s[e] = Return /\ e < Len(s) /\ s[e + 1] = Newline
            IN  IF i > Len(s) THEN <<>>
                ELSE IF ends = {} THEN <<SubSeq(s, i, Len(s))>>
                ELSE <<SubSeq(s, i, e - 1)>> \o from[IF both THEN e + 2 ELSE e + 1]
    IN  from[1]

----------------------------------------------------------------------------
(* Quoted printable.                                                        *)
HexPairAt(line, i) == i + 2 <= Len(line) /\ IsXDigit(line[i + 1]) /\ IsXDigit(line[i + 2])

(* The characters of a line: an equals sign and two hex digits are one      *)
(* character, another equals sign is dropped.                               *)
UnquoteLine(line, underscores) ==
    LET from[i \in 1..(Len(line) + 1)] ==
            IF i > Len(line) THEN <<>>
            ELSE IF line[i] = Equals /\ HexPairAt(line, i)
            THEN <<SafeChar(16 * HexToInt(line[i + 1]) + HexToInt(line[i + 2]))>> \o from[i + 3]
            ELSE IF line[i] = Equals THEN from[i + 1]
            ELSE IF underscores /\ line[i] = 95 THEN <<Space>> \o from[i + 1]
            ELSE <<line[i]>> \o from[i + 1]
    IN  from[1]

SoftBreak(line) == line # <<>> /\ Last(line) = Equals

(* A line whose last character is an equals sign goes on in the next one;   *)
(* what is left when the lines are used up is a line of its own.            *)
UnquoteLines(lines, underscores) ==
    LET after[k \in 0..Len(lines)] ==
            LET so == after[k - 1]
                text == so.buffer \o UnquoteLine(lines[k], underscores)
            IN  IF k = 0 THEN [out |-> <<>>, buffer |-> <<>>]
                ELSE IF SoftBreak(lines[k]) THEN [so EXCEPT !.buffer = text]
                ELSE [out |-> Append(so.out, text), buffer |-> <<>>]
    IN  Append(after[Len(lines)].out, after[Len(lines)].buffer)

(* Mutant: a soft line break ends the line.                                 *)
UnquoteHard(lines, underscores) ==
    [k \in 1..Len(lines) |-> UnquoteLine(lines[k], underscores)]

(* Lines without anything to decode are returned as they are.               *)
UnquoteString(lines, underscores) ==
    LET changes == \E k \in 1..Len(lines) : \E i \in 1..Len(lines[k]) :
                        lines[k][i] = Equals \/ (underscores /\ lines[k][i] = 95)
    IN  IF changes THEN UnquoteLines(lines, underscores) ELSE lines

----------------------------------------------------------------------------
(* Base 64.                                                                 *)
Char64(c) ==
    IF IsUpper(c) THEN c - 65
    ELSE IF IsLower(c) THEN c - 71
    ELSE IF IsDigit(c) THEN c + 4
    ELSE IF c = 43 THEN 62
    ELSE IF c = 47 THEN 63
    ELSE -1

(* next_char64: what is no digit is passed over, padding counts as one.     *)
Digits64(s) ==
    FlattenSeq([i \in 1..Len(s) |-> IF s[i] = Equals \/ Char64(s[i]) >= 0 THEN <<s[i]>> ELSE <<>>])

(* The octets of the k-th group of four digits.                             *)
Octets(ds, k) ==
    LET d(j) == ds[4 * k + j]
        u(j) == IF d(j) = Equals THEN 0 ELSE Char64(d(j))
        o1 == 4 * u(1) + u(2) \div 16
        o2 == 16 * (u(2) % 16) + u(3) \div 4
        o3 == 64 * (u(3) % 4) + u(4)
    IN  IF d(3) = Equals THEN <<o1>>
        ELSE IF d(4) = Equals THEN <<o1, o2>>
        ELSE <<o1, o2, o3>>

(* decodeData: whole groups only.                                           *)
DecodeData(lines) ==
    LET ds == Digits64(JoinLines(lines, <<>>))
    IN  FlattenSeq([k \in 1..(Len(ds) \div 4) |-> Octets(ds, k - 1)])

DecodeString(lines) ==
    LET octets == DecodeData(lines)
    IN  FromText([i \in 1..Len(octets) |-> SafeChar(octets[i])])

(* decodeText, by the content-transfer-encoding of a text part.             *)
DecodeText(encoding, lines) ==
    IF encoding = "quoted-printable" THEN UnquoteString(lines, FALSE)
    ELSE IF encoding = "base64" THEN DecodeString(lines)
    ELSE lines

----------------------------------------------------------------------------
(* decodeHeaderString: words  =?charset?method?text?=  in a header.         *)
TokenChar(c) == c \notin {93, 32, 9, 40, 41, 60, 62, 64, 44, 59, 58, 34, 47, 91, 63, 46, 61}

(* The places of the question marks of a word that starts at i, if it does. *)
WordMarks(s, i) ==
    LET next(k) == LET qs == {j \in (k + 1)..Len(s) : s[j] = Query}
                   IN  IF qs = {} THEN Len(s) + 1 ELSE Min(qs)
        q1 == next(i + 1)
        q2 == next(q1)
    IN  <<q1, q2, next(q2)>>

IsEncodedWord(s, i) ==
    /\ i < Len(s) /\ s[i] = Equals /\ s[i + 1] = Query
    /\ LET q == WordMarks(s, i)
       IN  /\ q[3] < Len(s) /\ s[q[3] + 1] = Equals
           /\ i + 1 < q[1] - 1 /\ \A j \in (i + 2)..(q[1] - 1) : TokenChar(s[j])
           /\ q[1] < q[2] - 1 /\ \A j \in (q[1] + 1)..(q[2] - 1) : TokenChar(s[j])
           /\ q[2] < q[3] - 1 /\ \A j \in (q[2] + 1)..(q[3] - 1) : s[j] # 92

(* A header while its words are decoded: what is behind offset is to be     *)
(* searched. decoded_text is appended to and never cleared, so the second   *)
(* word of a header starts with a copy of the first.                        *)
PartlyDecoded == [header : Seq(Int), offset : Nat, decoded : Seq(Int)]

DecodeWords(header) ==
    LET from[d \in PartlyDecoded] ==
            LET s == d.header
                starts == {i \in (d.offset + 1)..Len(s) : IsEncodedWord(s, i)}
                i == Min(starts)
                q == WordMarks(s, i)
                method == LowerAll(SubSeq(s, q[1] + 1, q[2] - 1))
                word == <<SubSeq(s, q[2] + 1, q[3] - 1)>>
                lines == IF method = <<113>> THEN UnquoteString(word, TRUE) ELSE DecodeString(word)
                text == d.decoded \o JoinLines(lines, <<>>)
            IN  IF starts = {} THEN s
                ELSE IF method \in {<<113>>, <<98>>}
                THEN from[[header |-> SubSeq(s, 1, i - 1) \o text \o SubSeq(s, q[3] + 2, Len(s)),
                           offset |-> d.offset + Len(text), decoded |-> text]]
                ELSE from[[d EXCEPT !.offset = q[3] + 1]]
    IN  from[[header |-> header, offset |-> 0, decoded |-> <<>>]]

DecodeHeaderString(lines) ==
    LET s == JoinLines(lines, <<>>)
        text == DecodeWords(s)
    IN  IF text = s THEN lines ELSE FromText(text)
=============================================================================

------------------------------- MODULE Words --------------------------------
(***************************************************************************)
(* StringTable.h: many strings in one array, their ends marked by 0, and   *)
(* the index where each begins.  Trie.h: a prefix tree in one array,       *)
(* filled once from distinct words.  A character is a number; in a Trie    *)
(* the negative ones are capitals.  Behind them, the conversions of text.  *)
(***************************************************************************)
EXTENDS Integers, Sequences, FiniteSets, FiniteSetsExt

CONSTANTS Word,      \* the strings, without their terminators
          Dump,      \* what a stream may hold
          MaxLength, \* bound on the characters of a table
          TrieWord,  \* the words of a Trie and those it is asked for
          MaxWords,  \* bound on the words of a Trie
          IGNORECASE

Seqs == INSTANCE SequencesExt
Find == INSTANCE Numbers

VARIABLES table,   \* the table, or the array of a Trie
          want,    \* history: the strings there should be, or that a Trie was built from
          right    \* history: every result so far was the right one

vars == <<table, want, right>>

Empty == [strings |-> <<>>, indices |-> <<>>]
Concat(list) == Seqs!FoldLeft(LAMBDA s, w : s \o Append(w, 0), <<>>, list)
SLEN(s, from) == CHOOSE n \in 0..Len(s) : s[from + n + 1] = 0 /\ \A i \in 1..n : s[from + i] # 0
GetString(t, index) == SubSeq(t.strings, t.indices[index] + 1,
                              t.indices[index] + SLEN(t.strings, t.indices[index]))

\* _construct: the lengths first, which the second loop turns into sums.
Construct(list) ==
  LET lengths == [i \in DOMAIN list |-> Len(list[i]) + 1]
      sums == Seqs!FoldLeft(LAMBDA acc, n : [at |-> acc.at + n, out |-> Append(acc.out, acc.at)],
                            [at |-> 0, out |-> <<>>], lengths)
  IN  [strings |-> Concat(list), indices |-> sums.out]

\* The constructor from a stream counts terminators and stops where the first character
\* is one; the loop moves to the next string behind each.
FromStream(bytes) ==
  LET strings == [bytes EXCEPT ![Len(bytes)] = 0]
      count == IF strings[1] = 0 THEN 0 ELSE Cardinality({i \in DOMAIN strings : strings[i] = 0})
      Start(j) == IF j = 1 THEN 0
                  ELSE CHOOSE i \in DOMAIN strings :
                         /\ strings[i] = 0
                         /\ Cardinality({m \in 1..i : strings[m] = 0}) = j - 1
  IN  [strings |-> strings, indices |-> [j \in 1..count |-> Start(j)]]

\* AppendString looks for the end of the last string and copies behind the array.
Appended(t, s) ==
  LET last == t.indices[Len(t.indices)]
  IN  [strings |-> t.strings \o Append(s, 0),
       indices |-> Append(t.indices, SLEN(t.strings, last) + 1 + last)]

\* operator+=: the indices of the other table move up by the length of this one.
Plus(t, other) ==
  [strings |-> t.strings \o other.strings,
   indices |-> t.indices \o [i \in DOMAIN other.indices |-> other.indices[i] + Len(t.strings)]]
-----------------------------------------------------------------------------
Lists == UNION {[1..n -> Word] : n \in 0..2}

Init == table = Empty /\ want = <<>> /\ right = TRUE

Assign(list) == table' = Construct(list) /\ want' = list /\ UNCHANGED right

Stream(bytes) ==
  /\ table' = FromStream(bytes)
  /\ want' = [i \in DOMAIN table'.indices |-> GetString(table', i)]
  /\ right' = (right /\ (bytes[1] # 0 /\ Len(bytes) > 1 => Concat(want') = table'.strings))

AppendString(s) ==
  /\ Len(table.indices) > 0 /\ Len(table.strings) < MaxLength
  /\ table' = Appended(table, s) /\ want' = Append(want, s) /\ UNCHANGED right

Add(list) ==
  /\ Len(table.strings) < MaxLength
  /\ table' = Plus(table, Construct(list)) /\ want' = want \o list /\ UNCHANGED right

AddSelf == /\ Len(table.strings) < MaxLength
           /\ table' = Plus(table, table) /\ want' = want \o want /\ UNCHANGED right

Next == \/ \E list \in Lists : Assign(list) \/ Add(list)
        \/ \E bytes \in Dump : Stream(bytes)
        \/ \E s \in Word : AppendString(s)
        \/ AddSelf

Spec == Init /\ [][Next]_vars
-----------------------------------------------------------------------------
Contents == [i \in DOMAIN table.indices |-> GetString(table, i)]

\* Every string ends before the next one begins, and the last ends the array.
Packed == \A i \in DOMAIN table.indices :
            LET stop == table.indices[i] + SLEN(table.strings, table.indices[i]) + 1
            IN  IF i = Len(table.indices) THEN stop = Len(table.strings)
                ELSE stop <= table.indices[i + 1]
-----------------------------------------------------------------------------
(* Trie.  npos stands for the greatest value of the index type.            *)

tolower(c) == IF IGNORECASE /\ c < 0 THEN -c ELSE c
Lower(w) == [i \in DOMAIN w |-> tolower(w[i])]
npos == Find!None

Blank == [chr |-> 0, child |-> npos, clen |-> 0, word |-> npos]
Fill(n) == [i \in 1..n |-> Blank]
CheckSize(a, r) == IF r < Len(a) THEN a
                   ELSE [i \in 1..2 * Len(a) |-> IF i <= Len(a) THEN a[i] ELSE Blank]

\* The sort of _construct, by HeapSort: words in alphabetical order, each with its index.
Before(v, w) == \/ \E n \in 0..Len(v) : /\ n < Len(w) /\ SubSeq(v, 1, n) = SubSeq(w, 1, n)
                                        /\ n = Len(v) \/ v[n + 1] < w[n + 1]
Alphabetical(words) ==
  LET Rank(i) == Cardinality({j \in DOMAIN words : Before(Lower(words[j]), Lower(words[i]))})
  IN  [r \in DOMAIN words |-> LET i == CHOOSE i \in DOMAIN words : Rank(i) = r - 1
                              IN  [first |-> i - 1, second |-> words[i]]]

\* The letter at a level; 0 is the end of a word.
Letter(p, level) == IF level > Len(p.second) THEN 0 ELSE tolower(p.second[level])

\* The first pass of _init: a node for every letter that begins a run, counting the run
\* in clen, from the node that comes after r.
TopLevel(a, str, r, level) ==
  LET Step(s, p) == IF s.l = Letter(p, level) THEN [s EXCEPT !.a[s.r + 1].clen = @ + 1]
                    ELSE LET b == CheckSize(s.a, s.r + 1)
                         IN  [a |-> [b EXCEPT ![s.r + 2].chr = Letter(p, level), ![s.r + 2].clen = @ + 1],
                              r |-> s.r + 1, l |-> Letter(p, level)]
  IN  Seqs!FoldLeft(Step, [a |-> a, r |-> r, l |-> 0], str)

\* _init on the words str that share their first level - 1 letters, placing their nodes
\* from cnt: the array after that and the next free index.  When no letter is left, the
\* node that holds the word still takes a place.
RECURSIVE InitAt(_, _, _, _), Children(_, _, _, _, _)
InitAt(a, str, cnt, level) ==
  LET ends == Letter(str[1], level) = 0
      b == IF ends THEN [CheckSize(a, cnt) EXCEPT ![cnt + 1].word = str[1].first] ELSE a
      top == TopLevel(b, IF ends THEN Tail(str) ELSE str, cnt - 1, level)
      len == top.r + 1 - cnt
      rest == Children(top.a, IF ends THEN Tail(str) ELSE str, cnt, top.r + 1, level + 1)
  IN  [a |-> [rest.a EXCEPT ![cnt + 1].clen = len], r |-> IF len = 0 THEN rest.r + 1 ELSE rest.r]

\* The second pass: the children of node i, then of its siblings; r is free.
Children(a, str, i, r, level) ==
  IF str = <<>> THEN [a |-> a, r |-> r]
  ELSE LET n == a[i + 1].clen
           sub == InitAt([a EXCEPT ![i + 1].child = r], SubSeq(str, 1, n), r, level)
       IN  Children(sub.a, SubSeq(str, n + 1, Len(str)), i + 1, sub.r, level)

Built(words) == InitAt(Fill(Len(words)), Alphabetical(words), 0, 1).a

\* Get: cur is where the siblings of a level begin.
RECURSIVE GetFrom(_, _, _)
GetFrom(a, cur, w) ==
  LET clen == a[cur + 1].clen
      r == IF clen > 1 THEN Find!SearchExact([i \in 1..clen |-> a[cur + i].chr], tolower(w[1]))
           ELSE IF a[cur + 1].chr = tolower(w[1]) THEN 0 ELSE npos
  IN  IF w = <<>> THEN a[cur + 1].word
      ELSE IF clen = 0 \/ r = npos THEN npos
      ELSE GetFrom(a, a[cur + r + 1].child, Tail(w))
Get(w) == GetFrom(table, 0, w)

\* Distinct words, in any order.
Distinct == {list \in UNION {[1..n -> TrieWord] : n \in 1..MaxWords} :
               \A i, j \in DOMAIN list : Lower(list[i]) = Lower(list[j]) => i = j}

\* The trie gives every word its index and no other string one.
Finds == \A w \in TrieWord : LET i == Get(w)
                         IN  IF i = npos THEN \A j \in DOMAIN want : Lower(want[j]) # Lower(w)
                             ELSE Lower(want[i + 1]) = Lower(w)
-----------------------------------------------------------------------------
(***************************************************************************)
(* Text in buntils/ConvertUTF.c and buntils_c.c: the conversions between   *)
(* UTF-8, UTF-16 and UTF-32, the check of a UTF-8 sequence, the numeral of *)
(* an integer and the tokens of a string. A text is a sequence of units; a *)
(* source of -1 units runs up to its first 0, and a unit is 32 bits with   *)
(* its top bit clear. wchar_t has 16 bits, as the casts of the code assume.*)
(***************************************************************************)

Surrogate == \HD800..\HDFFF
High == \HD800..\HDBFF
Low == \HDC00..\HDFFF
ReplacementChar == \HFFFD
MaxBmp == \HFFFF
MaxLegal == \H10FFFF

\* What a call looks at: the source up to its length, or through its first 0.
Zeros(in) == {i \in DOMAIN in : in[i] = 0}
Taken(in, srclen) ==
  IF Zeros(in) # {} /\ (srclen < 0 \/ Min(Zeros(in)) <= srclen) THEN SubSeq(in, 1, Min(Zeros(in))) ELSE SubSeq(in, 1, srclen)

\* The units of UTF-16, and the bytes of UTF-8, that stand for one character.
Units16(ch) ==
  IF ch \in Surrogate \/ ch > MaxLegal THEN <<ReplacementChar>>
  ELSE IF ch <= MaxBmp THEN <<ch>>
  ELSE <<\HD800 + ((ch - \H10000) \div 2^10), \HDC00 + ((ch - \H10000) % 2^10)>>

firstByteMark == <<0, \HC0, \HE0, \HF0>>
BytesToWrite(ch) == IF ch < \H80 THEN 1 ELSE IF ch < \H800 THEN 2 ELSE IF ch \in \H10000..MaxLegal THEN 4 ELSE 3
Units8(c) ==
  LET n == BytesToWrite(c)
      ch == IF c > MaxLegal THEN ReplacementChar ELSE c
  IN  [j \in 1..n |-> IF j = 1 THEN firstByteMark[n] + (ch \div 64^(n - 1)) ELSE \H80 + ((ch \div 64^(n - j)) % 64)]

\* The loop: characters are written while there is room for all their units.
Written(units, room) ==
  LET target[i \in 0..Len(units)] ==
        IF i = 0 THEN [text |-> <<>>, full |-> FALSE]
        ELSE LET t == target[i - 1]
             IN  IF t.full \/ Len(t.text) + Len(units[i]) > room THEN [t EXCEPT !.full = TRUE]
                 ELSE [t EXCEPT !.text = @ \o units[i]]
  IN  target[Len(units)].text

Filled(text, room) == SubSeq(text, 1, Min({room, Len(text)}))

\* What the calls without an output answer: the units to reserve.
Counted(in, srclen, units) ==
  IF srclen = 0 THEN 0 ELSE 1 + MapThenSumSet(LAMBDA i : units[i], DOMAIN Taken(in, srclen) \ Zeros(in))
Count32to16(in, srclen) == Counted(in, srclen, [i \in DOMAIN in |-> IF in[i] > MaxBmp THEN 2 ELSE 1])
Count32to8(in, srclen) == Counted(in, srclen, [i \in DOMAIN in |-> BytesToWrite(in[i])])
Count8to32(in, srclen) == Counted(in, srclen, [i \in DOMAIN in |-> IF in[i] \in \H80..\HBF THEN 0 ELSE 1])
Count16to32(in, srclen) == IF srclen < 0 THEN Min(Zeros(in)) ELSE srclen

UTF32toUTF16(in, srclen, room) == Written([i \in DOMAIN Taken(in, srclen) |-> Units16(in[i])], room)
UTF32toUTF8(in, srclen, room) == Written([i \in DOMAIN Taken(in, srclen) |-> Units8(in[i])], room)

\* A source of UTF-16 does not stop at a 0 when its length is given.
UTF16toUTF32(in, srclen, room) ==
  LET source == SubSeq(in, 1, Count16to32(in, srclen))
      From[i \in 1..Len(source) + 1] ==
        LET paired == source[i] \in High /\ source[i + 1] \in Low
        IN  IF i > Len(source) \/ (i = Len(source) /\ source[i] \in High) THEN <<>>
            ELSE IF paired THEN <<(source[i] - \HD800) * 2^10 + source[i + 1] - \HDC00 + \H10000>> \o From[i + 2]
            ELSE <<source[i]>> \o From[i + 1]
  IN  Filled(From[1], room)

(***************************************************************************)
(* Reading UTF-8                                                           *)
(***************************************************************************)
trailingBytesForUTF8(b) ==
  IF b < \HC0 THEN 0 ELSE IF b < \HE0 THEN 1 ELSE IF b < \HF0 THEN 2 ELSE IF b < \HF8 THEN 3 ELSE IF b < \HFC THEN 4 ELSE 5
offsetsFromUTF8 == <<0, \H3080, \HE2080, \H3C82080>>

SecondByte(first) ==
  CASE first = \HE0 -> \HA0..\HBF
    [] first = \HED -> \H80..\H9F
    [] first = \HF0 -> \H90..\HBF
    [] first = \HF4 -> \H80..\H8F
    [] OTHER -> \H80..\HBF
isLegalUTF8(source, length) ==
  /\ length <= 4
  /\ \A i \in 2..length : source[i] \in \H80..\HBF
  /\ length > 1 => source[2] \in SecondByte(source[1])
  /\ source[1] \notin \H80..\HC1 /\ source[1] <= \HF4
isLegalUTF8Sequence(source) ==
  LET length == trailingBytesForUTF8(source[1]) + 1 IN length <= Len(source) /\ isLegalUTF8(source, length)

\* The bytes are added up with their marks, which the offset takes away.
Summed(bytes) ==
  LET ch == FoldSet(LAMBDA i, x : x + bytes[i] * 64^(Len(bytes) - i), 0, DOMAIN bytes) - offsetsFromUTF8[Len(bytes)]
  IN  IF ch \in Surrogate \/ ch > MaxLegal THEN ReplacementChar ELSE ch
UTF8toUTF32(in, srclen, room) ==
  LET source == Taken(in, srclen)
      From[i \in 1..Len(source) + 1] ==
        LET rest == SubSeq(source, i, Len(source))
            n == trailingBytesForUTF8(rest[1]) + 1
        IN  IF i > Len(source) \/ n > Len(rest) \/ ~isLegalUTF8(rest, n) THEN <<>>
            ELSE <<Summed(SubSeq(rest, 1, n))>> \o From[i + n]
  IN  Filled(From[1], room)

(***************************************************************************)
(* itoa_r and strtok_r                                                     *)
(***************************************************************************)
\* A digit is its value, a minus sign is -1. Digits that do not fit are the high ones.
itoa_r(val, size, radix) ==
  LET sign == IF val < 0 THEN <<-1>> ELSE <<>>
      Digits[v \in 0..(IF val < 0 THEN -val ELSE val)] == (IF v < radix THEN <<>> ELSE Digits[v \div radix]) \o <<v % radix>>
      all == Digits[IF val < 0 THEN -val ELSE val]
      room == size - 1 - Len(sign)
  IN  IF radix < 2 \/ size <= 1 THEN [error |-> 22, buf |-> <<>>]
      ELSE [error |-> 0, buf |-> sign \o (IF room < Len(all) THEN SubSeq(all, Len(all) - room + 1, Len(all)) ELSE all)]

\* One call: it skips delimiters, and without a delimiter behind the token there is no rest.
strtok_r(s, delim) ==
  LET begin == {i \in DOMAIN s : s[i] \notin delim}
      end == {i \in DOMAIN s : s[i] \in delim /\ i > Min(begin)}
  IN  IF begin = {} THEN [tok |-> <<>>, more |-> FALSE]
      ELSE IF end = {} THEN [tok |-> SubSeq(s, Min(begin), Len(s)), more |-> FALSE]
      ELSE [tok |-> SubSeq(s, Min(begin), Min(end) - 1), more |-> TRUE, rest |-> SubSeq(s, Min(end) + 1, Len(s))]
RECURSIVE Tokens(_, _)
Tokens(s, delim) ==
  LET call == strtok_r(s, delim)
  IN  (IF call.tok = <<>> THEN <<>> ELSE <<call.tok>>) \o (IF call.more THEN Tokens(call.rest, delim) ELSE <<>>)
-----------------------------------------------------------------------------
Texts(C, n) == UNION {[1..i -> C] : i \in 0..n}
Scalars == {1, \H7F, \H80, \H7FF, \H800, \HD7FF, \HE000, \HFFFF, \H10000, \H10FFFF}
Illegal == {\HD800, \HDC00, \HDFFF, \H110000}
Units == {1, \HD7FF, \HD800, \HDBFF, \HDC00, \HDFFF, \HE000}
FirstBytes == {1, \H7F, \H80, \HBF, \HC1, \HC2, \HDF, \HE0, \HE1, \HED, \HEF, \HF0, \HF1, \HF4, \HF5, \HF8, \HFC, \HFF}
NextBytes == {1, \H80, \H8F, \H90, \H9F, \HA0, \HBF, \HC2}

Inputs ==
  [f : {"text"}, in : Texts(Scalars, 2) \cup [1..3 -> {1, \H800, \H10000}]] \cup [f : {"any"}, in : Texts(Illegal \cup {1, \H10000}, 3)]
  \cup [f : {"units"}, in : Texts(Units, 4)]
  \cup [f : {"bytes"}, in : {<<b>> \o s : b \in FirstBytes, s \in Texts(NextBytes, 3)}]
  \cup [f : {"itoa"}, val : -40..40, size : 0..8, radix : {0, 1, 2, 10, 16}]
  \cup [f : {"tokens"}, in : Texts(1..3, 5)]

Terminated(text) == Append(text, 0)
Flat(text, Each(_)) == Seqs!FlattenSeq([i \in DOMAIN text |-> Each(text[i])])
\* The longest run of whole characters that `room' units can hold.
Fitting(text, Each(_), room) ==
  LET fits == {n \in 0..Len(text) : Len(Flat(SubSeq(text, 1, n), Each)) <= room} IN Flat(SubSeq(text, 1, Max(fits)), Each)

\* A text goes to UTF-8 and UTF-16 and comes back, in the units its first call counted;
\* less room, or a shorter source, gives the whole characters that fit.
TextRight(in) ==
  LET z == Terminated(in)
      n8 == Count32to8(z, -1)
      n16 == Count32to16(z, -1)
      utf8 == UTF32toUTF8(z, -1, n8)
      utf16 == UTF32toUTF16(z, -1, n16)
  IN  /\ Len(utf8) = n8 /\ Len(utf16) = n16
      /\ UTF8toUTF32(utf8, -1, Count8to32(utf8, -1)) = z /\ UTF16toUTF32(utf16, -1, Count16to32(utf16, -1)) = z
      /\ \A room \in 0..n8 : /\ UTF32toUTF8(z, -1, room) = Fitting(z, Units8, room)
                             /\ UTF32toUTF16(z, -1, room) = Fitting(z, Units16, room)
                             /\ UTF8toUTF32(utf8, -1, room) = Filled(z, room)
      /\ \A n \in 0..Len(in) : /\ UTF32toUTF8(z, n, Count32to8(z, n)) = Flat(SubSeq(in, 1, n), Units8)
                               /\ UTF8toUTF32(utf8, Len(Flat(SubSeq(in, 1, n), Units8)), n) = SubSeq(in, 1, n)

\* The payload of a sequence of UTF-8, read from its bits.
Payload(s) == LET n == trailingBytesForUTF8(s[1]) + 1
                  first == IF n = 1 THEN s[1] ELSE s[1] % 2^(7 - n)
              IN  first * 64^(n - 1) + MapThenSumSet(LAMBDA i : (s[i] % 64) * 64^(n - i), 2..n)
Encodes(s) == LET n == trailingBytesForUTF8(s[1]) + 1
              IN  n \in 1..Len(s) /\ n <= 4 /\ Payload(s) \notin Surrogate /\ Payload(s) <= MaxLegal /\ Units8(Payload(s)) = SubSeq(s, 1, n)

\* Bytes are legal exactly when they encode a character, and what is read of any bytes
\* are the characters before the first that is not.
BytesRight(in) ==
  LET out == UTF8toUTF32(in, Len(in), Len(in))
      bytes == Flat(out, Units8)
  IN  /\ isLegalUTF8Sequence(in) <=> Encodes(in)
      /\ Seqs!IsPrefix(bytes, in)
      /\ Len(bytes) < Len(in) => ~Encodes(SubSeq(in, Len(bytes) + 1, Len(in)))
      /\ Len(out) <= Count8to32(in, Len(in))

\* An illegal character is replaced in UTF-16. In UTF-8 a surrogate is written as it is,
\* and then ends what UTF8toUTF32 reads.
AnyRight(in) ==
  LET z == Terminated(in)
      Legal(ch) == IF ch \in Surrogate \/ ch > MaxLegal THEN ReplacementChar ELSE ch
      bad == {i \in DOMAIN in : in[i] \in Surrogate}
      before == IF bad = {} THEN Len(z) ELSE Min(bad) - 1
      utf16 == UTF32toUTF16(z, -1, 2 * Len(z))
      utf8 == UTF32toUTF8(z, -1, Count32to8(z, -1))
  IN  /\ UTF16toUTF32(utf16, -1, Len(utf16)) = [i \in DOMAIN z |-> Legal(z[i])]
      /\ Len(utf16) <= Count32to16(z, -1) /\ Len(utf8) = Count32to8(z, -1)
      /\ UTF8toUTF32(utf8, -1, Len(utf8)) = [i \in 1..before |-> Legal(z[i])]

\* Of UTF-16 the pairs are joined and the rest stays, but for a half pair at the end.
UnitsRight(in) ==
  LET out == UTF16toUTF32(in, Len(in), Len(in))
      half == in # <<>> /\ in[Len(in)] \in High
      Whole(ch) == IF ch \in Surrogate THEN <<ch>> ELSE Units16(ch)
  IN  /\ Flat(out, Whole) = IF half THEN SubSeq(in, 1, Len(in) - 1) ELSE in
      /\ \A i \in 1..Len(out) - 1 : ~(out[i] \in High /\ out[i + 1] \in Low)
      /\ UTF16toUTF32(Terminated(in), -1, Len(in) + 1) = UTF16toUTF32(Terminated(in), Len(in) + 1, Len(in) + 1)

\* The numeral denotes the number, or ends with what its last digits are when it is cut.
NumeralRight(val, size, radix) ==
  LET r == itoa_r(val, size, radix)
      digits == IF val < 0 THEN Tail(r.buf) ELSE r.buf
      value == MapThenSumSet(LAMBDA i : digits[i] * radix^(Len(digits) - i), DOMAIN digits)
      m == IF val < 0 THEN -val ELSE val
  IN  IF size < 2 \/ radix < 2 THEN r.error = 22
      ELSE /\ r.error = 0 /\ Len(r.buf) < size /\ (val < 0 <=> r.buf[1] = -1)
           /\ \A i \in DOMAIN digits : digits[i] \in 0..radix - 1
           /\ Len(r.buf) = size - 1 /\ m >= radix^Len(digits) => value = m % radix^Len(digits)
           /\ Len(r.buf) < size - 1 \/ m < radix^Len(digits) => value = m /\ (Len(digits) > 1 => digits[1] # 0)

\* The tokens are the longest runs without a delimiter.
TokensRight(s) ==
  LET toks == Tokens(s, {3})
      starts == {i \in DOMAIN s : s[i] # 3 /\ (IF i = 1 THEN TRUE ELSE s[i - 1] = 3)}
  IN  /\ Len(toks) = Cardinality(starts) /\ \A i \in DOMAIN toks : toks[i] # <<>>
      /\ Seqs!FlattenSeq(toks) = SelectSeq(s, LAMBDA c : c # 3)
      /\ \A i \in DOMAIN toks : Len(toks[i]) = Cardinality({j \in DOMAIN s : s[j] # 3 /\ Cardinality(starts \cap 1..j) = i})

Right(q) ==
  CASE q.f = "text" -> TextRight(q.in)
    [] q.f = "any" -> AnyRight(q.in)
    [] q.f = "units" -> UnitsRight(q.in)
    [] q.f = "bytes" -> BytesRight(q.in)
    [] q.f = "itoa" -> NumeralRight(q.val, q.size, q.radix)
    [] q.f = "tokens" -> TokensRight(q.in)
=============================================================================

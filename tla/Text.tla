-------------------------------- MODULE Text --------------------------------
(***************************************************************************)
(* Formatting and scanning: libc/printf.c, which the kernel has a copy of  *)
(* in sys/kprintf.c, libc/scanf.c, and the numbers of sys/kstring.c.       *)
(*                                                                         *)
(* A character is a string of length one, a text a sequence of characters. *)
(* An argument is an integer, a character or a text, as its conversion     *)
(* takes it; integers are cut to the width that va_arg reads.              *)
(***************************************************************************)
EXTENDS Integers, SequencesExt, TLC

CONSTANTS
  LongWord, IntWord, ShortWord, \* how many values a long, int, short has
  Samples                       \* the numbers that are tried

ASSUME TextAssumption ==
  /\ {LongWord, IntWord, ShortWord} \subseteq Nat \ {0}
  /\ LongWord % IntWord = 0 /\ IntWord % ShortWord = 0
  /\ \A n \in Samples : n \in Nat /\ 2 * n < LongWord

Signed(n, word) == IF n % word >= word \div 2 THEN (n % word) - word ELSE n % word

-----------------------------------------------------------------------------
(* Digits. *)

UpperDigits == <<"0","1","2","3","4","5","6","7","8","9","A","B","C","D","E","F">>
LowerDigits == <<"0","1","2","3","4","5","6","7","8","9","a","b","c","d","e","f">>

DecimalDigits  == {UpperDigits[d] : d \in 1 .. 10}
DigitValue(ch) == CHOOSE d \in 0 .. 15 : ch \in {UpperDigits[d + 1], LowerDigits[d + 1]}

NewLine      == "\n"
NewLineValue == -38  \* '\n' - '0'

\* k = 10 * k + ch - '0' in an int, whatever the character is.
Atoi(text) ==
  FoldLeft(LAMBDA k, ch : Signed(10 * k + (IF ch = NewLine THEN NewLineValue ELSE DigitValue(ch)),
                                 IntWord), 0, text)

\* The characters at the front of a text that are in a set, and what follows.
Leading(text, set) ==
  SubSeq(text, 1, CHOOSE n \in 0 .. Len(text) :
                    /\ n = Len(text) \/ text[n + 1] \notin set
                    /\ \A k \in 1 .. n : text[k] \in set)
Behind(text, front) == SubSeq(text, Len(front) + 1, Len(text))

SkipAtoi(fmt) == Atoi(Leading(fmt, DecimalDigits))

RECURSIVE Digits(_, _, _)
Digits(n, base, alphabet) ==
  IF n = 0 THEN <<>>
  ELSE Append(Digits(n \div base, base, alphabet), alphabet[(n % base) + 1])

Times(ch, n) == [k \in 1 .. Max({n, 0}) |-> ch]

RECURSIVE Power(_, _)
Power(x, y) ==
  IF y = 0 THEN 1
  ELSE LET half == Power(x, y \div 2) IN IF y % 2 = 0 THEN half * half ELSE x * half * half

\* The decimal digits of oct, read as octal ones.
RECURSIVE OctalFrom(_, _)
OctalFrom(oct, i) ==
  IF oct = 0 THEN 0 ELSE (oct % 10) * Power(8, i) + OctalFrom(oct \div 10, i + 1)
OctalToDecimal(oct) == OctalFrom(oct, 0)

\* The bits of a long, the highest first.
RECURSIVE BitsFrom(_, _)
BitsFrom(x, z) ==
  IF z = 0 THEN <<>>
  ELSE <<IF (x \div z) % 2 = 1 THEN "1" ELSE "0">> \o BitsFrom(x, z \div 2)
ByteToBinary(x) == BitsFrom(x % LongWord, LongWord \div 2)

-----------------------------------------------------------------------------
(* number. *)

SignOf(num, type) ==
  CASE "SIGN" \notin type -> <<>>
    [] "SIGN" \in type /\ num < 0 -> <<"-">>
    [] {"SIGN", "PLUS"} \subseteq type /\ num >= 0 -> <<"+">>
    [] {"SIGN", "SPACE"} \subseteq type /\ "PLUS" \notin type /\ num >= 0 -> <<" ">>
    [] OTHER -> <<>>

Prefix(base, type) ==
  CASE "SPECIAL" \in type /\ base = 8  -> <<"0">>
    [] "SPECIAL" \in type /\ base = 16 -> <<"0", IF "SMALL" \in type THEN "x" ELSE "X">>
    [] OTHER -> <<>>

\* The digits are those of an unsigned long.
Magnitude(num, base, type) ==
  IF num = 0 THEN <<"0">>
  ELSE Digits((IF SignOf(num, type) = <<"-">> THEN -num ELSE num) % LongWord, base,
              IF "SMALL" \in type THEN LowerDigits ELSE UpperDigits)

\* Mutant: the sign and the prefix do not count for the width.
RoomDigits(size, mark, zeros, digits) == size - Len(zeros) - Len(digits)

Room(size, mark, zeros, digits) == size - Len(mark) - Len(zeros) - Len(digits)

\* Spaces, sign, prefix, zeros up to the width, zeros up to the precision,
\* digits, spaces.
Laid(left, zero, mark, room, zeros, digits) ==
  (IF left \/ zero THEN <<>> ELSE Times(" ", room)) \o mark
    \o (IF zero THEN Times("0", room) ELSE <<>>) \o zeros \o digits
    \o (IF left THEN Times(" ", room) ELSE <<>>)

Filled(size, type, mark, zeros, digits) ==
  Laid("LEFT" \in type, "ZEROPAD" \in type /\ "LEFT" \notin type, mark,
       Room(size, mark, zeros, digits), zeros, digits)

Number(num, base, size, precision, type) ==
  LET digits == Magnitude(num, base, type)
  IN  Filled(size, type, SignOf(num, type) \o Prefix(base, type),
             Times("0", precision - Len(digits)), digits)

-----------------------------------------------------------------------------
(* vsprintf. *)

Flag == "-" :> "LEFT" @@ "+" :> "PLUS" @@ " " :> "SPACE" @@ "#" :> "SPECIAL" @@ "0" :> "ZEROPAD"

\* A width or a precision: digits, an argument, or nothing.
Field(fmt, args) ==
  LET digits == Leading(fmt, DecimalDigits)
  IN  CASE digits # <<>> ->
             [n |-> SkipAtoi(fmt), star |-> FALSE, fmt |-> Behind(fmt, digits), args |-> args]
        [] digits = <<>> /\ fmt # <<>> /\ Head(fmt) = "*" ->
             [n |-> Signed(Head(args), IntWord), star |-> TRUE, fmt |-> Tail(fmt), args |-> Tail(args)]
        [] OTHER -> [n |-> -1, star |-> FALSE, fmt |-> fmt, args |-> args]

\* A point without a number, or with a negative one, is a precision of 0.
Precision(fmt, args) ==
  IF fmt = <<>> \/ Head(fmt) # "." THEN [n |-> -1, fmt |-> fmt, args |-> args]
  ELSE LET f == Field(Tail(fmt), args)
       IN  [n |-> IF f.n < 0 THEN 0 ELSE f.n, fmt |-> f.fmt, args |-> f.args]

\* What the integer conversions take; L is read and makes no difference.
Integer(arg, qualifier, signed) ==
  CASE qualifier = "l" -> Signed(arg, LongWord)
    [] qualifier = "h" -> IF signed THEN Signed(arg, ShortWord) ELSE arg % ShortWord
    [] OTHER -> IF signed THEN Signed(arg, IntWord) ELSE arg % IntWord

Base(conv) == CASE conv = "o" -> 8 [] conv \in {"x", "X"} -> 16 [] OTHER -> 10

\* %c and %s; a precision changes nothing.
Padded(text, width, left) ==
  IF left THEN text \o Times(" ", width - Len(text))
          ELSE Times(" ", width - Len(text)) \o text

\* A conversion is a record that takes in the format part by part: the width,
\* the precision and the qualifier.
Wide(flags, w) ==
  LET back == w.star /\ w.n < 0
  IN  [flags |-> flags \cup (IF back THEN {"LEFT"} ELSE {}),
       width |-> IF back THEN -w.n ELSE w.n, fmt |-> w.fmt, args |-> w.args]

Precise(s, p) ==
  [flags |-> s.flags, width |-> s.width, precision |-> p.n, fmt |-> p.fmt, args |-> p.args]

Qualified(s) ==
  IF s.fmt # <<>> /\ Head(s.fmt) \in {"h", "l", "L"}
  THEN [s EXCEPT !.fmt = Tail(s.fmt)] @@ ("qualifier" :> Head(s.fmt))
  ELSE s @@ ("qualifier" :> "")

Conversion(marks, fmt, args) ==
  LET s == Wide({Flag[m] : m \in Range(marks)}, Field(Behind(fmt, marks), args))
  IN  Precise(s, Precision(s.fmt, s.args))

IntegerType(s, conv) ==
  s.flags \cup (IF conv \in {"d", "i"} THEN {"SIGN"} ELSE {})
          \cup (IF conv = "x" THEN {"SMALL"} ELSE {})

\* What the conversion prints of its argument; %p fills 16 places.
Shown(s, conv, arg) ==
  CASE conv = "c" -> Padded(<<arg>>, s.width, "LEFT" \in s.flags)
    [] conv = "s" -> Padded(arg, s.width, "LEFT" \in s.flags)
    [] conv = "p" ->
         Number(arg, 16, IF s.width = -1 THEN 16 ELSE s.width, s.precision,
                s.flags \cup (IF s.width = -1 THEN {"ZEROPAD"} ELSE {}))
    [] OTHER ->
         Number(Integer(arg, s.qualifier, conv \in {"d", "i"}), Base(conv), s.width,
                s.precision, IntegerType(s, conv))

\* Text, what %n stores, and the arguments left; written is the length so far.
Printed(s, conv, written) ==
  CASE conv \in {"c", "s", "p", "o", "x", "X", "d", "i", "u"} ->
         [text |-> Shown(s, conv, Head(s.args)), stored |-> <<>>, args |-> Tail(s.args)]
    [] conv = "n" -> [text |-> <<>>, stored |-> <<written>>, args |-> Tail(s.args)]
    [] conv \in {"%", ""} -> [text |-> <<"%">>, stored |-> <<>>, args |-> s.args]
    [] OTHER -> [text |-> <<"%", conv>>, stored |-> <<>>, args |-> s.args]

\* One conversion: s is what was taken in, up to its letter.
Convert(s, written) ==
  Printed(s, IF s.fmt = <<>> THEN "" ELSE Head(s.fmt), written)
    @@ ("fmt" :> IF s.fmt = <<>> THEN <<>> ELSE Tail(s.fmt))

RECURSIVE Conversions(_, _, _, _), Converted(_, _, _)
Converted(d, text, stored) ==
  Conversions(d.fmt, d.args, text \o d.text, stored \o d.stored)
Conversions(fmt, args, text, stored) ==
  CASE fmt = <<>> -> [text |-> text, stored |-> stored]
    [] fmt # <<>> /\ Head(fmt) # "%" ->
         Conversions(Tail(fmt), args, Append(text, Head(fmt)), stored)
    [] OTHER ->
         Converted(Convert(Qualified(Conversion(Leading(Tail(fmt), DOMAIN Flag), Tail(fmt), args)),
                           Len(text)), text, stored)

Vsprintf(fmt, args) == Conversions(fmt, args, <<>>, <<>>)

\* printf: what is written to descriptor 1.
Printf(fmt, args) == Vsprintf(fmt, args).text

\* scanf of one conversion, what it stores of the line that was read.  %d cuts
\* off the last character by the size that read returns; that is 0, whatever
\* was read, so the newline takes part in the number.
Scanf(conv, data) ==
  CASE conv = "s" -> data
    [] conv = "d" -> Atoi(data)
    [] conv = "c" -> data[1]

-----------------------------------------------------------------------------
(* The kernel's copy: skip_atoi, number and kvsprintf are those of printf.c. *)

KSkipAtoi(fmt) == SkipAtoi(fmt)
KNumber(num, base, size, precision, type) == Number(num, base, size, precision, type)
Kvsprintf(fmt, args) == Vsprintf(fmt, args).text

-----------------------------------------------------------------------------
(* What a number in a text means. *)

Value(digits, base) == FoldLeft(LAMBDA v, ch : base * v + DigitValue(ch), 0, digits)

\* What is shown of a number: its amount, or all of the word it is held in.
Abs(num, type) ==
  IF num >= 0 THEN num ELSE IF "SIGN" \in type THEN -num ELSE num + LongWord

\* The text is the number, as the type, the width and the precision ask for it.
IsPrinted(text, num, base, size, precision, type) ==
  LET inner  == Behind(text, Leading(text, {" "}))
      core   == SelectSeq(text, LAMBDA ch : ch # " ")
      signed == core # <<>> /\ core[1] \in {"-", "+"}
      body   == IF signed THEN Tail(core) ELSE core
      hex    == Len(body) > 1 /\ body[2] \in {"x", "X"}
      digits == IF hex THEN Behind(body, <<"0", "x">>) ELSE body
      blank  == {"SIGN", "SPACE"} \subseteq type /\ "PLUS" \notin type /\ num >= 0
      least  == CHOOSE k \in 1 .. 70 : /\ Abs(num, type) < base ^ k
                                       /\ k > 1 => Abs(num, type) >= base ^ (k - 1)
      mark   == (IF signed \/ blank THEN 1 ELSE 0) + (IF hex THEN 2 ELSE 0)
                  + (IF "SPECIAL" \in type /\ base = 8 THEN 1 ELSE 0)
      bare   == mark + Max({least, precision})
  IN  /\ Value(digits, base) = Abs(num, type)
      /\ signed <=> "SIGN" \in type /\ (num < 0 \/ "PLUS" \in type)
      /\ signed => (core[1] = "-" <=> num < 0)
      /\ hex <=> "SPECIAL" \in type /\ base = 16
      /\ Len(text) = Max({size, bare})
      /\ blank => text[1] = " "
      /\ "LEFT" \in type => inner = SubSeq(text, IF blank THEN 2 ELSE 1, Len(text))
      /\ "LEFT" \notin type => text[Len(text)] # " "
      /\ "ZEROPAD" \in type /\ "LEFT" \notin type =>
           Len(core) = Len(text) - (IF blank THEN 1 ELSE 0)
      /\ "ZEROPAD" \notin type \/ "LEFT" \in type =>
           Len(core) = bare - (IF blank THEN 1 ELSE 0)

Numbers == Samples \cup {-n : n \in Samples} \cup {-(LongWord \div 2)}
Types == SUBSET {"ZEROPAD", "SIGN", "PLUS", "SPACE", "LEFT", "SMALL", "SPECIAL"}
Sizes == {-1, 2, 7}
Precisions == {-1, 0, 4}

\* The value that n has in a variable of so many values, signed or not.
Cast(n, word, signed) ==
  CHOOSE m \in {n % word, (n % word) - word} :
    m \in (IF signed THEN -(word \div 2) .. (word \div 2) - 1 ELSE 0 .. word - 1)

\* A format with one integer conversion and a %c behind it.
InStep(marks, width, precision, qualifier, conv, n) ==
  LET star   == {k \in {1, 2} : "*" \in Range(<<width, precision>>[k])}
      args   == (IF 1 \in star THEN <<-6>> ELSE <<>>) \o (IF 2 \in star THEN <<3>> ELSE <<>>)
      text   == Printf(<<"%">> \o SetToSeq(marks) \o width \o precision \o qualifier
                         \o <<conv, "%", "c">>, args \o <<n, "!">>)
      type   == {Flag[m] : m \in marks} \cup (IF 1 \in star THEN {"LEFT"} ELSE {})
                  \cup (IF conv = "d" THEN {"SIGN"} ELSE {})
      word   == CASE qualifier = <<"h">> -> ShortWord [] qualifier = <<"l">> -> LongWord
                  [] OTHER -> IntWord
  IN  /\ text[Len(text)] = "!"
      /\ IsPrinted(SubSeq(text, 1, Len(text) - 1), Cast(n, word, conv = "d" \/ word = LongWord),
                   IF conv = "d" THEN 10 ELSE 16,
                   CASE 1 \in star -> 6 [] width = <<"5">> -> 5 [] OTHER -> -1,
                   CASE 2 \in star -> 3 [] precision = <<".", "2">> -> 2 [] OTHER -> -1, type)

\* What is printed reads back.  A number in any base, width, precision and mix of
\* flags is right by positional notation, as wide as asked and no wider, aligned
\* to the side asked for (number); a conversion takes exactly its own
\* arguments, so that the next one prints the next (vsprintf); and the octal
\* sizes in the archive's headers come out right through atoi, which reads them
\* as decimal, as long as that fits an int (tarfs.c: octal_to_decimal(atoi(size))).
NumbersReadBack ==
  /\ \A n \in Numbers, base \in {8, 10, 16}, size \in Sizes, precision \in Precisions, type \in Types :
       IsPrinted(Number(n, base, size, precision, type), n, base, size, precision, type)
  /\ \A marks \in SUBSET DOMAIN Flag, width \in {<<>>, <<"5">>, <<"*">>},
        precision \in {<<>>, <<".">>, <<".", "2">>, <<".", "*">>}, qualifier \in {<<>>, <<"h">>, <<"l">>},
        conv \in {"d", "X"}, n \in Numbers :
       InStep(marks, width, precision, qualifier, conv, n)
  /\ \A size \in 0 .. IntWord - 1 :
       LET octal == Printf(<<"%", "0", "7", "o">>, <<size>>)
       IN  2 * Value(octal, 10) < IntWord => OctalToDecimal(Atoi(octal)) = size
  /\ \A n \in Samples : Value(ByteToBinary(n), 2) = n

=============================================================================

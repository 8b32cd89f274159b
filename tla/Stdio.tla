-------------------------------- MODULE Stdio --------------------------------
(****************************************************************************)
(* stdio.cpp: what printf makes of a format and its arguments.  A format is *)
(* a sequence of characters, an argument a machine word, a character or a   *)
(* string.  One iteration of printf's loop yields operations on the screen: *)
(* putchar of a character and, for hexadecimal digits, stores into the      *)
(* string literal "00" and putchar of what is in it.                        *)
(****************************************************************************)
EXTENDS Integers, Sequences

CONSTANTS
  Bits,     \* of an int
  Chars,    \* what a char can be
  NewLine   \* one of them

Word == 2 ^ Bits
SignedOf(u) == IF u >= Word \div 2 THEN u - Word ELSE u

\* Division and remainder as in C: towards zero.
Quotient(n, m) == IF n < 0 THEN -((-n) \div m) ELSE n \div m
Remainder(n, m) == n - m * Quotient(n, m)

DigitChars == <<"0", "1", "2", "3", "4", "5", "6", "7",
                "8", "9", "A", "B", "C", "D", "E", "F">>

ASSUME StdioAssumption ==
  /\ Bits \in {8 * n : n \in 1 .. 4}
  /\ {DigitChars[d] : d \in 1 .. 16} \cup {NewLine, " ", "%", "above 0x80"} \subseteq Chars

\* The digit of a negative remainder, | 48, is a character above 0x80.
Digit(d) == IF d < 0 THEN "above 0x80" ELSE DigitChars[d + 1]

----------------------------------------------------------------------------
\* The conversions of numbers, as sequences of characters.

\* n divided by the base k times.
Divided(n, base) ==
  LET divided[k \in 0 .. Bits] ==
        IF k = 0 THEN n ELSE Quotient(divided[k - 1], base)
  IN divided

\* How often n can be divided by the base until it is 0.
Divisions(n, base) ==
  CHOOSE k \in 0 .. Bits : /\ Divided(n, base)[k] = 0
                           /\ \A j \in 0 .. (k - 1) : Divided(n, base)[j] # 0

\* The last k digits of n.
LastDigits(n, k, base) ==
  [i \in 1 .. k |-> Digit(Remainder(Divided(n, base)[k - i], base))]

Int2Char(n) == IF n = 0 THEN <<"0">> ELSE LastDigits(n, Divisions(n, 10), 10)

\* Mutant: counts the digits of the number before it: one too few for 10.
Uint2CharShort(u) ==
  IF u = 0 THEN <<"0">> ELSE LastDigits(u, Divisions(SignedOf(u) - 1, 10), 10)

\* The digits are counted on the int, so a number of which it is a shorter
\* negative one loses its first digits.
Uint2Char(u) ==
  IF u = 0 THEN <<"0">> ELSE LastDigits(u, Divisions(SignedOf(u), 10), 10)

\* printBinary's loop ends when num < 1: at once for a negative number, whose
\* remainder -1 is no digit.
Binary(n) ==
  IF n > 0 THEN LastDigits(n, Divisions(n, 2), 2)
  ELSE IF Remainder(n, 2) = 0 THEN <<"0">> ELSE <<>>

\* printBigBinary: as many digits as the word has.
BigBinary(n) ==
  IF n > 0 THEN LastDigits(n, Bits, 2) ELSE [i \in 1 .. Bits |-> "0"]

----------------------------------------------------------------------------
\* Operations on the screen.

Put(c) == [op |-> "put", at |-> 0, char |-> c]
Store(i, c) == [op |-> "store", at |-> i, char |-> c]
Show(i, c) == [op |-> "show", at |-> i, char |-> c]   \* char: what is meant

\* print: its characters one by one.
Puts(chars) == [i \in 1 .. Len(chars) |-> Put(chars[i])]

\* printfHex: both digits into the literal, then print it.
Hex(byte) ==
  LET high == DigitChars[(byte \div 16) + 1]
      low == DigitChars[(byte % 16) + 1]
  IN <<Store(1, high), Store(2, low), Show(1, high), Show(2, low)>>

\* printfHex32: the bytes from the highest to the lowest.
Hex32(u) ==
  LET bytes == Bits \div 8
      byte(k) == Divided(u, 256)[bytes - k] % 256
  IN [i \in 1 .. (4 * bytes) |-> Hex(byte((i + 3) \div 4))[((i - 1) % 4) + 1]]

\* What the first n operations print.
CharactersUpTo(ops) ==
  LET chars[n \in 0 .. Len(ops)] ==
        IF n = 0 THEN <<>>
        ELSE IF ops[n].op = "store" THEN chars[n - 1]
        ELSE Append(chars[n - 1], ops[n].char)
  IN chars

Characters(ops) == CharactersUpTo(ops)[Len(ops)]

Converted(letter, arg) ==
  CASE letter = "c" -> Puts(<<arg>>)
    [] letter = "s" -> Puts(arg)
    [] letter = "i" -> Puts(Int2Char(SignedOf(arg)))
    [] letter = "u" -> Puts(Uint2Char(arg))
    [] letter = "b" -> Puts(Binary(SignedOf(arg)))
    [] letter = "B" -> Puts(BigBinary(SignedOf(arg)))
    [] letter = "x" -> Hex(arg % 256)
    [] letter = "X" -> Hex32(arg)

Letters == {"c", "s", "i", "u", "b", "B", "x", "X"}

\* The format begins with a conversion, which takes an argument.
Conversion(format) == Len(format) > 1 /\ format[1] = "%" /\ format[2] \in Letters

\* One iteration of printf's loop: what it prints, and what is left of the
\* format and the arguments.  A % before no known letter, or at the end,
\* prints the rest of the format as it is.
Iteration(format, args) ==
  LET from(k) == SubSeq(format, k, Len(format))
  IN IF format[1] # "%" THEN [ops |-> Puts(<<format[1]>>), format |-> from(2), args |-> args]
     ELSE IF Conversion(format)
       THEN [ops |-> Converted(format[2], args[1]), format |-> from(3), args |-> Tail(args)]
     ELSE IF Len(format) > 1 /\ format[2] = "%"
       THEN [ops |-> Puts(<<"%">>), format |-> from(3), args |-> args]
     ELSE [ops |-> Puts(format), format |-> <<>>, args |-> args]

\* The loop goes on from r while there is format.
Continued(r) ==
  LET it == Iteration(r.format, r.args)
  IN IF r.format = <<>> THEN r ELSE [it EXCEPT !.ops = r.ops \o @]

\* After n iterations: everything done to the screen, and what is left.
Iterations(format, args) ==
  LET after[n \in 0 .. Len(format)] ==
        IF n = 0 THEN [ops |-> <<>>, format |-> format, args |-> args]
        ELSE Continued(after[n - 1])
  IN after

\* The whole call: everything it does to the screen.
Printf(format, args) == Iterations(format, args)[Len(format)].ops

\* What va_arg takes for this letter.
Matches(letter, arg) ==
  CASE letter = "c" -> arg \in Chars
    [] letter = "s" -> arg \in Seq(Chars)
    [] OTHER -> arg \in 0 .. (Word - 1)

\* A call as the compiler's format check would have it: every conversion finds
\* an argument of its kind.
Fits(format, args) ==
  /\ format \in Seq(Chars)
  /\ Len(args) \in Nat /\ args = [i \in 1 .. Len(args) |-> args[i]]
  /\ \A n \in 0 .. Len(format) :
       LET r == Iterations(format, args)[n]
       IN Conversion(r.format) => r.args # <<>> /\ Matches(r.format[2], r.args[1])

----------------------------------------------------------------------------
\* What a reader makes of digits.

DigitOf(char) == CHOOSE d \in 0 .. 15 : DigitChars[d + 1] = char

\* Of the first k digits.
ValueUpTo(digits, base) ==
  LET value[k \in 0 .. Len(digits)] ==
        IF k = 0 THEN 0 ELSE base * value[k - 1] + DigitOf(digits[k])
  IN value

Value(digits, base) == ValueUpTo(digits, base)[Len(digits)]

IsNumeral(chars, base) ==
  Len(chars) > 0 /\ \A i \in 1 .. Len(chars) : \E d \in 1 .. base : chars[i] = DigitChars[d]

\* No leading zero.
IsShortest(chars) == Len(chars) > 1 => chars[1] # "0"

\* The number of which a conversion by this letter must be the text.
Says(letter, arg, chars) ==
  LET base == CASE letter \in {"i", "u"} -> 10 [] letter \in {"b", "B"} -> 2 [] OTHER -> 16
  IN /\ IsNumeral(chars, base)
     /\ letter \in {"i", "u", "b"} => IsShortest(chars)
     /\ letter = "x" => Len(chars) = 2
     /\ letter = "X" => Len(chars) = Bits \div 4
     /\ letter = "B" => Len(chars) = Bits
     /\ Value(chars, base) = IF letter = "x" THEN arg % 256 ELSE arg

\* The last digits of a number, at least one: the end of its decimal numeral.
EndsNumeral(n, chars) ==
  LET full == IF n = 0 THEN <<"0">> ELSE LastDigits(n, Divisions(n, 10), 10)
      lost == Len(full) - Len(chars)
  IN /\ Says("u", n, full)
     /\ Len(chars) > 0 /\ lost >= 0
     /\ chars = [i \in 1 .. Len(chars) |-> full[lost + i]]
==============================================================================

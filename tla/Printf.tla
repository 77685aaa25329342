------------------------------- MODULE Printf -------------------------------
(***************************************************************************)
(* vprintf (libsc/stdio/printf.c), by which everything but the boot text   *)
(* reaches putchar: a function from a format and its arguments to the      *)
(* characters printed, all as character codes.  Its return value counts    *)
(* only the text outside conversions and is used nowhere.                  *)
(***************************************************************************)
EXTENDS Integers, Sequences, SequencesExt

Zero == 48           \* '0'
Percent == 37
d == 100
u == 117
x == 120
l == 108
c == 99
s == 115

(* C divides towards zero. *)
Quotient(n, base) == IF n >= 0 THEN n \div base ELSE -((-n) \div base)
Remainder(n, base) == n - base * Quotient(n, base)

(* The buffer of %d and %u, filled from its end: the remainder of a        *)
(* negative number is negative, and its digit a character below '0'.       *)
decimal[n \in Int] ==
  IF n = 0 THEN <<>> ELSE Append(decimal[Quotient(n, 10)], Zero + Remainder(n, 10))

(* The buffer of %x and %lx, lowest digit first, then turned round.  Left  *)
(* out are the stores outside it, which nothing prints: the closing 0, one *)
(* byte behind the last digit, and for 0 the digit itself, in a buffer of  *)
(* size 0.                                                                 *)
HexDigit(r) == IF r < 10 THEN r + Zero ELSE r + 97 - 10
backwards[n \in Nat] ==
  IF n = 0 THEN <<>> ELSE << HexDigit(n % 16) >> \o backwards[n \div 16]
hexadecimal(n) == Reverse(backwards[n])

Converted(conversion, arg) ==
  CASE conversion = <<c>> -> << arg >>
    [] conversion = <<s>> -> arg
    [] conversion \in {<<d>>, <<u>>} -> IF arg = 0 THEN << Zero >> ELSE decimal[arg]
    [] conversion \in {<<x>>, <<l, x>>} -> IF arg = 0 THEN << Zero >> ELSE hexadecimal(arg)

Conversions == {<<c>>, <<s>>, <<d>>, <<u>>, <<x>>, <<l, x>>}

vprintf(format, args) ==
  LET ConversionsAt(i) ==
        {k \in Conversions : i + Len(k) <= Len(format) /\ SubSeq(format, i + 1, i + Len(k)) = k}
      (* print_c: a character and what follows up to the next '%' *)
      End(i) == CHOOSE j \in i + 1 .. Len(format) + 1 :
                  /\ j <= Len(format) => format[j] = Percent
                  /\ \A k \in i + 1 .. j - 1 : format[k] # Percent
      Text(i) == SubSeq(format, i, End(i) - 1)
      from[i \in Nat, a \in Nat, rejected_bad_specifier \in BOOLEAN] ==
        IF i > Len(format) THEN <<>>
        ELSE IF format[i] # Percent THEN Text(i) \o from[End(i), a, rejected_bad_specifier]
        ELSE IF i < Len(format) /\ format[i + 1] = Percent
             THEN Text(i + 1) \o from[End(i + 1), a, rejected_bad_specifier]
        ELSE IF rejected_bad_specifier \/ ConversionsAt(i) = {}
             THEN Text(i) \o from[End(i), a, TRUE]
        ELSE LET k == CHOOSE k \in ConversionsAt(i) : TRUE
             IN  Converted(k, args[a]) \o from[i + 1 + Len(k), a + 1, rejected_bad_specifier]
  IN  from[1, 1, FALSE]

-----------------------------------------------------------------------------
(* A piece of a format, its argument and what it stands for. *)
Literal(t) == [spelling |-> t, args |-> <<>>, meaning |-> t]
Directive(k, arg, meaning) == [spelling |-> <<Percent>> \o k, args |-> <<arg>>, meaning |-> meaning]

(* "-", "dx", "%%", and directives with numbers of one to three digits, a  *)
(* character, and strings: the empty one and one with a '%'.               *)
Pieces ==
  << Literal(<<45>>), Literal(<<d, x>>),
     [spelling |-> <<Percent, Percent>>, args |-> <<>>, meaning |-> <<Percent>>],
     Directive(<<d>>, 0, <<48>>), Directive(<<d>>, 70, <<55, 48>>), Directive(<<u>>, 105, <<49, 48, 53>>),
     Directive(<<x>>, 0, <<48>>), Directive(<<x>>, 175, <<97, 102>>),
     Directive(<<l, x>>, 256, <<49, 48, 48>>), Directive(<<c>>, Percent, <<Percent>>),
     Directive(<<s>>, <<>>, <<>>), Directive(<<s>>, <<Percent, d>>, <<Percent, d>>) >>

(* A '%' with a letter of no conversion, or half of one, behind it. *)
BadSpecifiers == { <<Percent, 113>>, <<Percent, l, 45>> }

Joined(list, Part(_)) == FoldLeft(LAMBDA done, k : done \o Part(Pieces[k]), <<>>, list)
Spelling(list) == Joined(list, LAMBDA p : p.spelling)
Args(list) == Joined(list, LAMBDA p : p.args)
MeaningOf(list) == Joined(list, LAMBDA p : p.meaning)

(* Printed in one call, pieces mean what they mean alone, up to the first  *)
(* bad specifier; what follows that one is printed as it is spelled,       *)
(* except for "%%".  A '%' at the end stands for itself.                   *)
ASSUME PrintfFollowsFormat ==
  LET Lists(n) == BoundedSeq(DOMAIN Pieces, n)
      Verbatim(p) == IF p.args = <<>> THEN p.meaning ELSE p.spelling
  IN  /\ \A list \in Lists(3) : vprintf(Spelling(list), Args(list)) = MeaningOf(list)
      /\ \A list \in Lists(1), bad \in BadSpecifiers, k \in DOMAIN Pieces :
           vprintf(Spelling(list) \o bad \o Pieces[k].spelling, Args(list) \o Pieces[k].args)
             = MeaningOf(list) \o bad \o Verbatim(Pieces[k])
      /\ \A list \in Lists(2) :
           vprintf(Spelling(list) \o <<Percent>>, Args(list)) = MeaningOf(list) \o <<Percent>>
=============================================================================

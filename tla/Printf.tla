------------------------------- MODULE Printf -------------------------------
(***************************************************************************)
(* printf of util/printf.h: the loop over the format, the walk over the    *)
(* words of the arguments, and the digit loops of print_int, print_uint,   *)
(* print_hex and print_pointer.  One iteration of the loop is one step.    *)
(*                                                                         *)
(* Characters are their ASCII codes.  Words are unsigned; a signed integer *)
(* is the two's complement of its word.  A call is described by the        *)
(* directives its author wrote; what printf gets is the format string and  *)
(* the words they stand for.                                               *)
(***************************************************************************)
EXTENDS Integers, SequencesExt

CONSTANTS
  WordMod,         \* 2^32
  Strings,         \* the strings in memory, by address
  Values,          \* the words passed to numeric directives
  MaxDirectives    \* bound: directives in a format

ASSUME PrintfAssumption ==
  /\ WordMod \in Nat /\ WordMod % 2 = 0 /\ WordMod > 256
  /\ Values \subseteq 0 .. WordMod - 1
  /\ DOMAIN Strings \subseteq 0 .. WordMod - 1
  /\ MaxDirectives \in Nat

\* ASCII.
percent == 37
minus == 45
zero == 48
letter_a == 97
Specifier == [c |-> 99, d |-> 100, i |-> 105, p |-> 112, s |-> 115, u |-> 117, x |-> 120]

-----------------------------------------------------------------------------
(* Numbers.                                                                *)

\* The int a word stands for.
Signed(word) == IF word < WordMod \div 2 THEN word ELSE word - WordMod

\* A digit; the decimal loops only have the first ten.
Digit(d) == IF d < 10 THEN zero + d ELSE letter_a + (d - 10)

\* The loop that fills buf: digits of num, the lowest first.
Buf(num, base) ==
  LET buf[n \in 0 .. num] == IF n = 0 THEN << >> ELSE <<Digit(n % base)>> \o buf[n \div base]
  IN  buf[num]

\* Mutant of print_uint: buf is printed from its first digit on.
print_uint_NotReversed(num) == IF num = 0 THEN <<zero>> ELSE Buf(num, 10)

print_uint(num) == IF num = 0 THEN <<zero>> ELSE Reverse(Buf(num, 10))

\* The negation of the least int is itself, for which the loop does not run.
print_int(num) ==
  LET magnitude == IF num < 0 THEN Signed((- num) % WordMod) ELSE num
  IN  IF num = 0 THEN <<zero>>
      ELSE (IF num < 0 THEN <<minus>> ELSE << >>)
             \o (IF magnitude > 0 THEN Reverse(Buf(magnitude, 10)) ELSE << >>)

print_hex(num) == IF num = 0 THEN <<zero>> ELSE Reverse(Buf(num, 16))

print_pointer(ptr) == <<zero, Specifier.x>> \o print_hex(ptr)

-----------------------------------------------------------------------------
VARIABLES
  call,   \* the directives of the running call, << >> if none is running
  pos,    \* the index i into the format, from 1 on
  ap,     \* the word the next va_arg returns
  out     \* what each iteration has printed

printf_vars == <<call, pos, ap, out>>

\* What is written in a format for a directive, and what is passed for it.
Written(directive) ==
  CASE directive.kind = "text"    -> <<directive.value>>
    [] directive.kind = "percent" -> <<percent, percent>>
    [] directive.kind = "unknown" -> <<percent, directive.value>>
    [] OTHER                      -> <<percent, Specifier[directive.kind]>>

Passed(directive) ==
  IF directive.kind \in DOMAIN Specifier THEN <<directive.value>> ELSE << >>

FormatOf(directives) == FlattenSeq([k \in DOMAIN directives |-> Written(directives[k])])
WordsOf(directives) == FlattenSeq([k \in DOMAIN directives |-> Passed(directives[k])])

format == FormatOf(call)
parameters == WordsOf(call)

\* Behind the arguments lie other words of the caller.
va_arg == IF ap <= Len(parameters) THEN parameters[ap] ELSE 0

terminal_writestring(address) ==
  IF address \in DOMAIN Strings THEN Strings[address] ELSE << >>

-----------------------------------------------------------------------------
PrintfInit == call = << >> /\ pos = 1 /\ ap = 1 /\ out = << >>

\* Directives whose value says nothing are written once.
Directives ==
  [kind : {"d", "i", "u", "x", "p", "c"}, value : Values]
    \union [kind : {"s"}, value : DOMAIN Strings]
    \union {[kind |-> "text", value |-> Specifier.d], [kind |-> "percent", value |-> percent],
            [kind |-> "unknown", value |-> 88]}

Start(directives) ==
  /\ call = << >> /\ directives # << >>
  /\ call' = directives
  /\ pos' = 1 /\ ap' = 1 /\ out' = << >>

\* What one iteration prints, how many words it takes, and how far it goes.
Iteration(text, words, chars) ==
  /\ out' = Append(out, text)
  /\ ap' = ap + words
  /\ pos' = pos + chars
  /\ UNCHANGED call

PlainChar ==
  /\ pos <= Len(format) /\ format[pos] # percent
  /\ Iteration(<<format[pos]>>, 0, 1)

\* The switch on the specifier behind a percent sign.
AtSpecifier(c) == pos < Len(format) /\ format[pos] = percent /\ format[pos + 1] = c

\* Mutant of Conversion: %p leaves its argument to the next directive.
Conversion_PointerKept ==
  \/ AtSpecifier(Specifier.c) /\ Iteration(<<va_arg % 256>>, 1, 2)
  \/ AtSpecifier(Specifier.s) /\ Iteration(terminal_writestring(va_arg), 1, 2)
  \/ AtSpecifier(Specifier.d) /\ Iteration(print_int(Signed(va_arg)), 1, 2)
  \/ AtSpecifier(Specifier.i) /\ Iteration(print_int(Signed(va_arg)), 1, 2)
  \/ AtSpecifier(Specifier.u) /\ Iteration(print_uint(va_arg), 1, 2)
  \/ AtSpecifier(Specifier.x) /\ Iteration(print_hex(va_arg), 1, 2)
  \/ AtSpecifier(Specifier.p) /\ Iteration(print_pointer(va_arg), 0, 2)

Conversion ==
  \/ AtSpecifier(Specifier.c) /\ Iteration(<<va_arg % 256>>, 1, 2)
  \/ AtSpecifier(Specifier.s) /\ Iteration(terminal_writestring(va_arg), 1, 2)
  \/ AtSpecifier(Specifier.d) /\ Iteration(print_int(Signed(va_arg)), 1, 2)
  \/ AtSpecifier(Specifier.i) /\ Iteration(print_int(Signed(va_arg)), 1, 2)
  \/ AtSpecifier(Specifier.u) /\ Iteration(print_uint(va_arg), 1, 2)
  \/ AtSpecifier(Specifier.x) /\ Iteration(print_hex(va_arg), 1, 2)
  \/ AtSpecifier(Specifier.p) /\ Iteration(print_pointer(va_arg), 1, 2)

\* %% and, as it is, an unknown specifier with its percent sign.
NoConversion ==
  \/ AtSpecifier(percent) /\ Iteration(<<percent>>, 0, 2)
  \/ \E c \in {format[k] : k \in DOMAIN format} \ (Range(Specifier) \union {percent}) :
       AtSpecifier(c) /\ Iteration(<<percent, c>>, 0, 2)

Return ==
  /\ call # << >> /\ pos > Len(format)
  /\ call' = << >> /\ pos' = 1 /\ ap' = 1 /\ out' = << >>

PrintfNext ==
  \/ \E n \in 1 .. MaxDirectives : \E directives \in [1 .. n -> Directives] : Start(directives)
  \/ PlainChar \/ Conversion \/ NoConversion
  \/ Return

PrintfSpec == PrintfInit /\ [][PrintfNext]_printf_vars

-----------------------------------------------------------------------------
DigitValue(c) == IF c < letter_a THEN c - zero ELSE 10 + (c - letter_a)

\* The number that one reads in a row of digits.
ValueOf(text, base) ==
  LET value[k \in 0 .. Len(text)] ==
        IF k = 0 THEN 0 ELSE base * value[k - 1] + DigitValue(text[k])
  IN  value[Len(text)]

\* The text shows the number in lowercase digits, and in no more than it takes.
IsNumeral(text, num, base) ==
  /\ text # << >>
  /\ \A k \in DOMAIN text :
       text[k] \in (zero .. zero + 9) \union (letter_a .. letter_a + base - 11)
  /\ ValueOf(text, base) = num
  /\ Len(text) = 1 \/ text[1] # zero

\* What a directive asks for.
Means(directive, text) ==
  LET v == directive.value
  IN  CASE directive.kind \in {"d", "i"} ->
             IF Signed(v) < 0
             THEN text # << >> /\ text[1] = minus /\ IsNumeral(Tail(text), WordMod - v, 10)
             ELSE IsNumeral(text, v, 10)
        [] directive.kind = "u"       -> IsNumeral(text, v, 10)
        [] directive.kind = "x"       -> IsNumeral(text, v, 16)
        [] directive.kind = "p"       -> /\ SubSeq(text, 1, 2) = <<zero, Specifier.x>>
                                         /\ IsNumeral(SubSeq(text, 3, Len(text)), v, 16)
        [] directive.kind = "c"       -> text = <<v % 256>>
        [] directive.kind = "s"       -> text = Strings[v]
        [] directive.kind = "unknown" -> text = <<percent, v>>
        [] OTHER                      -> text = <<v>>

\* "Overflow not handled for INT_MIN" (printf.h:14).
IsLeastInt(directive) ==
  directive.kind \in {"d", "i"} /\ directive.value = WordMod \div 2

(***************************************************************************)
(* A call prints its directives in order, each as it is defined: numerals  *)
(* of signed and unsigned words in both bases, up to the largest, strings, *)
(* characters and text, whatever stands next to what.                      *)
(***************************************************************************)
PrintsDirectives ==
  call # << >> =>
    /\ \A k \in DOMAIN out : Means(call[k], out[k]) \/ IsLeastInt(call[k])
    /\ pos > Len(format) => Len(out) = Len(call)

(***************************************************************************)
(* The walk over the arguments and the one over the format stay in step:   *)
(* after each iteration the words taken are those of the directives read,  *)
(* none is left at the end, and none behind the arguments is ever taken.   *)
(***************************************************************************)
ArgumentsInStep ==
  call # << >> =>
    LET read == SubSeq(call, 1, Len(out))
    IN  /\ Len(out) <= Len(call)
        /\ pos = Len(FormatOf(read)) + 1
        /\ ap = Len(WordsOf(read)) + 1
=============================================================================

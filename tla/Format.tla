------------------------------- MODULE Format -------------------------------
(***************************************************************************)
(* dvsprintf (elf-loader/rtld/lib.c), with which rtld.so spells the names  *)
(* of the files it tries to open and all of its messages.                  *)
(*                                                                         *)
(* A character is its code.  The digits of a number are put into the       *)
(* buffer from the last to the first, the padding behind them, and what    *)
(* was put is reversed in place; a character for which there is no room is *)
(* dropped.  An argument is a number, or the address of a string: number 0 *)
(* is NULL.  The state machine and its variables have names that Loader    *)
(* does not have, so that one module can extend both.                      *)
(*                                                                         *)
(* A definition X_Something before a definition X is not part of the       *)
(* specification: it is what X would be with a plausible mistake, kept to  *)
(* show that the properties notice it.                                     *)
(***************************************************************************)
EXTENDS Integers, SequencesExt

CONSTANTS
    IntSize,   \* sizeof (int)
    LongSize,  \* sizeof (long), sizeof (long long) and sizeof (void *)
    Calls      \* the calls under consideration: [format, args, buffer_size]

IsCall(c) ==
    /\ c.format \in Seq(1 .. 127)
    /\ c.args \in Seq([number : Int, str : Seq(1 .. 127)])
    /\ c.buffer_size \in Nat \ {0}

ASSUME FormatAssumption ==
    /\ IntSize \in Nat \ {0}
    /\ LongSize \in Nat \ {0}
    /\ IntSize <= LongSize
    /\ \A c \in Calls : IsCall(c)

(* ASCII *)
Space == 32
Sharp == 35
Percent == 37
Star == 42
Minus == 45
Slash == 47
Zero == 48
Letter_P == 80
Letter_c == 99
Letter_d == 100
Letter_l == 108
Letter_p == 112
Letter_s == 115
Letter_u == 117
Letter_x == 120
isdigit(c) == c \in Zero .. Zero + 9

VARIABLES
    call,     \* the arguments
    reading,  \* "text", "directive" (behind a %), "done" or "overrun"
    fmt,      \* the character of the format it is at
    arg,      \* the argument va_arg gives next
    spec,     \* fsharp, fzero, size and padding of the directive
    buffer    \* what has been put: current_size is its length

format_vars == <<call, reading, fmt, arg, spec, buffer>>

(* The character at a place of the format: '\0' behind the last one. *)
CharAt(i) == IF i <= Len(call.format) THEN call.format[i] ELSE 0
Char == CharAt(fmt)
Plain == [fsharp |-> FALSE, fzero |-> FALSE, size |-> IntSize, padding |-> 0]

(***************************************************************************)
(* PUT, of one character after the other: the last place is kept for '\0'. *)
(***************************************************************************)
Room_ToTheEnd(chars) ==
    SubSeq(chars, 1, IF Len(buffer) + Len(chars) > call.buffer_size
                     THEN call.buffer_size - Len(buffer) ELSE Len(chars))
Room(chars) ==
    SubSeq(chars, 1, IF Len(buffer) + Len(chars) > call.buffer_size - 1
                     THEN call.buffer_size - 1 - Len(buffer) ELSE Len(chars))

PUT(chars) == buffer' = buffer \o Room(chars)

(* "0x" first, if any; then the rest, from rem on, is reversed. *)
PutReversed(prefix, chars) ==
    LET all == Room(prefix \o chars)
        rem == IF Len(all) < Len(prefix) THEN Len(all) ELSE Len(prefix)
    IN  buffer' = buffer \o SubSeq(all, 1, rem) \o Reverse(SubSeq(all, rem + 1, Len(all)))

Pad(c, n) == [i \in 1 .. n |-> c]

(***************************************************************************)
(* Integers of a number of bytes, and va_arg.                              *)
(***************************************************************************)
Unsigned(n, size) == n % 256 ^ size
Signed(n, size) ==
    LET u == Unsigned(n, size) IN IF 2 * u >= 256 ^ size THEN u - 256 ^ size ELSE u

LowestLong == -(256 ^ LongSize \div 2)
Arg == call.args[arg]

(* number, for the conversions x, d and u. *)
Number == Signed(Arg.number, spec.size)

(***************************************************************************)
(* What number % base and number /= base give until number is 0: the       *)
(* digits of the absolute value, each with the sign of the number.         *)
(***************************************************************************)
Abs(n) == IF n < 0 THEN -n ELSE n
Sign(n) == IF n < 0 THEN -1 ELSE 1
Digits(n, base) ==
    LET count == CHOOSE k \in 1 .. 8 * LongSize :
                    /\ base ^ k > Abs(n)
                    /\ k = 1 \/ base ^ (k - 1) <= Abs(n)
    IN  [i \in 1 .. count |-> Sign(n) * ((Abs(n) \div base ^ (i - 1)) % base)]

DigitChar(d) == IF d > 9 THEN 97 + d - 10 ELSE Zero + d
Spelled(digits) == [i \in DOMAIN digits |-> DigitChar(digits[i])]

(* number *= -1, which leaves the lowest number what it is. *)
Negated(n) == Signed(-n, LongSize)

-----------------------------------------------------------------------------

FormatInit ==
    /\ call \in Calls
    /\ reading = "text"
    /\ fmt = 1
    /\ arg = 1
    /\ spec = Plain
    /\ buffer = <<>>

Text ==
    /\ reading = "text"
    /\ fmt <= Len(call.format)
    /\ Char # Percent
    /\ PUT(<<Char>>)
    /\ fmt' = fmt + 1
    /\ UNCHANGED <<call, reading, arg, spec>>

StartDirective ==
    /\ reading = "text"
    /\ fmt <= Len(call.format)
    /\ Char = Percent
    /\ spec' = Plain
    /\ reading' = "directive"
    /\ fmt' = fmt + 1
    /\ UNCHANGED <<call, arg, buffer>>

(* A number, whose first digit is not 0. *)
Appended(n, digits) == FoldLeft(LAMBDA p, c : p * 10 + c - Zero, n, digits)

Width ==
    /\ reading = "directive"
    /\ isdigit(Char) /\ Char # Zero
    /\ \E end \in fmt + 1 .. Len(call.format) + 1 :
          /\ ~isdigit(CharAt(end))
          /\ \A i \in fmt .. end - 1 : isdigit(call.format[i])
          /\ spec' = [spec EXCEPT !.padding = Appended(@, SubSeq(call.format, fmt, end - 1))]
          /\ fmt' = end
    /\ UNCHANGED <<call, reading, arg, buffer>>

WidthFromArg ==
    /\ reading = "directive"
    /\ Char = Star
    /\ spec' = [spec EXCEPT !.padding = Signed(Arg.number, IntSize)]
    /\ arg' = arg + 1
    /\ fmt' = fmt + 1
    /\ UNCHANGED <<call, reading, buffer>>

(* fl and fll say no more than size: a second l changes nothing, long long is as wide as long. *)
Flag ==
    /\ reading = "directive"
    /\ \/ Char = Sharp /\ spec' = [spec EXCEPT !.fsharp = TRUE]
       \/ Char = Zero /\ spec' = [spec EXCEPT !.fzero = TRUE]
       \/ Char = Letter_l /\ spec' = [spec EXCEPT !.size = LongSize]
    /\ fmt' = fmt + 1
    /\ UNCHANGED <<call, reading, arg, buffer>>

(* Back to the text, with the argument used up. *)
Converted ==
    /\ reading' = "text"
    /\ fmt' = fmt + 1
    /\ arg' = arg + 1
    /\ UNCHANGED <<call, spec>>

print_u ==
    /\ reading = "directive"
    /\ Char = Letter_u
    /\ LET digits == Spelled(Digits(Number, 10)) IN
       PutReversed(<<>>, digits \o Pad(Space, spec.padding - Len(digits)))
    /\ Converted

(* What is different in the directives x, p and P. *)
HexSpec ==
    CASE Char = Letter_x -> spec
      [] Char = Letter_p -> [spec EXCEPT !.size = LongSize, !.fsharp = TRUE]
      [] Char = Letter_P -> [spec EXCEPT !.size = LongSize, !.fsharp = TRUE, !.fzero = TRUE,
                                         !.padding = 2 * LongSize]

HexDigits_AllOfThem(n, size) == Spelled(Digits(Unsigned(n, LongSize), 16))
HexDigits(n, size) ==
    LET all == Spelled(Digits(Unsigned(n, LongSize), 16)) IN
    SubSeq(all, 1, IF Len(all) > size * 2 THEN size * 2 ELSE Len(all))

print_x ==
    /\ reading = "directive"
    /\ Char \in {Letter_x, Letter_p, Letter_P}
    /\ LET s      == HexSpec
           digits == HexDigits(Signed(Arg.number, s.size), s.size) IN
       PutReversed(IF s.fsharp THEN <<Zero, Letter_x>> ELSE <<>>,
                   digits \o Pad(IF s.fzero THEN Zero ELSE Space, s.padding - Len(digits)))
    /\ Converted

print_d ==
    /\ reading = "directive"
    /\ Char = Letter_d
    /\ LET minus  == Number < 0
           digits == Spelled(Digits(IF minus THEN Negated(Number) ELSE Number, 10)) IN
       PutReversed(<<>>, digits \o (IF minus THEN <<Minus>> ELSE <<>>)
                                \o Pad(Space, spec.padding - Len(digits)))
    /\ Converted

print_c ==
    /\ reading = "directive"
    /\ Char = Letter_c
    /\ PUT(<<Arg.number % 256>>)
    /\ Converted

(* "(NULL)" *)
NullString == <<40, 78, 85, 76, 76, 41>>

print_s ==
    /\ reading = "directive"
    /\ Char = Letter_s
    /\ LET str == IF Arg.number = 0 THEN NullString ELSE Arg.str IN
       PUT(str \o Pad(Space, spec.padding - Len(str)))
    /\ Converted

(***************************************************************************)
(* Any other character stands for itself.  The '\0' of a format that ends  *)
(* within a directive does so too: the loop steps over it and takes what   *)
(* is behind the format for more of it, which the model does not follow.   *)
(***************************************************************************)
Other ==
    /\ reading = "directive"
    /\ ~isdigit(Char)
    /\ Char \notin {Star, Sharp, Letter_l, Letter_u, Letter_x, Letter_p, Letter_P, Letter_d,
                    Letter_c, Letter_s}
    /\ PUT(<<Char>>)
    /\ reading' = IF fmt <= Len(call.format) THEN "text" ELSE "overrun"
    /\ fmt' = fmt + 1
    /\ UNCHANGED <<call, arg, spec>>

(* '\0' behind what was put. *)
Terminate ==
    /\ reading = "text"
    /\ fmt > Len(call.format)
    /\ reading' = "done"
    /\ UNCHANGED <<call, fmt, arg, spec, buffer>>

Returned == reading \in {"done", "overrun"} /\ UNCHANGED format_vars

FormatNext ==
    \/ Text \/ StartDirective \/ Width \/ WidthFromArg \/ Flag
    \/ print_u \/ print_x \/ print_d \/ print_c \/ print_s \/ Other
    \/ Terminate \/ Returned

FormatSpec == FormatInit /\ [][FormatNext]_format_vars

-----------------------------------------------------------------------------

(* The number that characters spell, the first digit first, between spaces. *)
Value(chars, base) ==
    LET digit(c)  == IF c >= 97 THEN c - 97 + 10 ELSE c - Zero
        unsigned(s) == FoldLeft(LAMBDA n, c : n * base + digit(c), 0, s)
        s         == SelectSeq(chars, LAMBDA c : c # Space)
    IN  IF s[1] = Minus THEN -unsigned(Tail(s)) ELSE unsigned(s)

(* What a step has put into the buffer; none of it is dropped if there is room left. *)
Field == SubSeq(buffer', Len(buffer) + 1, Len(buffer'))
Whole == Len(buffer') < call.buffer_size - 1

(***************************************************************************)
(* The text of a number, read back, is the number: for d and u, within the *)
(* numbers they are made for (u takes its argument for signed, and the     *)
(* lowest number has no negative), and for x and p modulo the width of the *)
(* argument.  It takes up the width that the directive asks for.           *)
(***************************************************************************)
ReadsBack ==
    [][/\ (reading = "directive" /\ Char = Letter_d /\ Whole /\ Number # LowestLong) =>
             Value(Field, 10) = Number /\ Len(Field) >= spec.padding
       /\ (reading = "directive" /\ Char = Letter_u /\ Whole /\ Number >= 0) =>
             Value(Field, 10) = Number /\ Len(Field) >= spec.padding
       /\ (reading = "directive" /\ Char \in {Letter_x, Letter_p, Letter_P} /\ Whole) =>
             LET digits == IF HexSpec.fsharp THEN Tail(Tail(Field)) ELSE Field IN
             /\ Value(digits, 16) = Unsigned(Arg.number, HexSpec.size)
             /\ Len(digits) >= HexSpec.padding]_format_vars

(***************************************************************************)
(* The name open_path makes of a directory and a name ("%s/%s"), and any   *)
(* text with strings and characters in it, is the text itself, or as much  *)
(* of its front as fits with its '\0' into the buffer.                     *)
(*                                                                         *)
(* Piece is what the character at i of the format stands for: a % for the  *)
(* text of its directive, the letter behind it for nothing.  A piece       *)
(* begins behind all the characters of the pieces before it.               *)
(***************************************************************************)
Directives(c, i) == {k \in 1 .. i - 1 : c.format[k] = Percent}
Operand(c, i) == c.args[Cardinality(Directives(c, i)) + 1]

Piece(c, i) ==
    IF i > 1 /\ c.format[i - 1] = Percent THEN <<>>
    ELSE IF c.format[i] # Percent THEN <<c.format[i]>>
    ELSE IF c.format[i + 1] = Letter_c THEN <<Operand(c, i).number % 256>>
    ELSE IF Operand(c, i).number = 0 THEN NullString ELSE Operand(c, i).str

Places(c, i) == {i} \X DOMAIN Piece(c, i)
Start(c, i) == Cardinality(UNION {Places(c, k) : k \in 1 .. i - 1})

OnlyStrings(c) ==
    \A i \in DOMAIN c.format :
        c.format[i] = Percent =>
            /\ i < Len(c.format) /\ c.format[i + 1] \in {Letter_s, Letter_c}
            /\ Cardinality(Directives(c, i)) < Len(c.args)

NameSpelled ==
    (reading = "done" /\ OnlyStrings(call)) =>
        LET all  == Start(call, Len(call.format) + 1)
            last == call.buffer_size - 1
        IN  /\ Len(buffer) = IF all < last THEN all ELSE last
            /\ \A i \in DOMAIN call.format : \A j \in DOMAIN Piece(call, i) :
                  Start(call, i) + j <= last => buffer[Start(call, i) + j] = Piece(call, i)[j]
=============================================================================

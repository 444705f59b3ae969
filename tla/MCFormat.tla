------------------------------ MODULE MCFormat ------------------------------
(***************************************************************************)
(* Calls of dvsprintf for TLC, with an int of one byte and a long of two:  *)
(* directives of the linker's messages, flags and widths in any            *)
(* combination, numbers around the limits, and buffers that are too small. *)
(***************************************************************************)
EXTENDS Format

Num(n) == [number |-> n, str |-> <<>>]
Str(s) == [number |-> 1, str |-> s]
Null == Num(0)

Call(format, args, size) == [format |-> format, args |-> args, buffer_size |-> size]

Flags == {<<>>, <<Sharp>>, <<Zero>>, <<Sharp, Zero>>}
Lengths == {<<>>, <<Letter_l>>, <<Letter_l, Letter_l>>}
Widths == {<<>>, <<Zero + 5>>, <<Zero + 1, Zero>>}
Numbers == {-32768, -32767, -4096, -129, -128, -127, -10, -1, 0, 1, 9, 10, 15, 16, 99, 100, 127,
            128, 255, 256, 999, 4095, 32767}

(* One number in every form, with a width of up to ten, behind a directive with flags. *)
NumberCalls ==
    {Call(<<Percent, Zero, Letter_l, Letter_x, Percent>> \o f \o w \o le \o <<conv>>,
          <<Num(32767), Num(n)>>, 20) :
        f \in Flags, w \in Widths, le \in Lengths,
        conv \in {Letter_d, Letter_u, Letter_x}, n \in Numbers}

PointerCalls ==
    {Call(<<Percent, Star, Letter_d, Percent, conv>>, <<Num(w), Num(-7), Num(n)>>, size) :
        conv \in {Letter_p, Letter_P}, w \in {-1, 3}, n \in Numbers, size \in {1, 4, 6, 16}}

(* "%s/%s" and "%c%s", and a directive that is none: "%%". *)
Strings == {Null} \cup {Str([i \in 1 .. n |-> 96 + i]) : n \in 0 .. 3}
NameCalls ==
    {Call(<<Percent, Letter_s, Slash, Percent, Letter_s>>, <<a, b>>, size) :
        a \in Strings, b \in Strings, size \in 1 .. 9}
    \cup {Call(<<Percent, Letter_c, Percent, Letter_s>>, <<Num(65), b>>, size) :
             b \in Strings, size \in 1 .. 9}
    \cup {Call(<<Percent, Zero + 4, Letter_s, Percent, Percent>>, <<b>>, 9) : b \in Strings}

(* Formats that end within a directive, behind a %, a flag or a width. *)
CutCalls ==
    {Call(<<Percent, Letter_c, Percent>> \o d, <<Num(65)>>, size) :
        d \in {<<>>, <<Sharp>>, <<Zero + 1, Zero>>}, size \in 1 .. 4}

AllCalls == NumberCalls \cup PointerCalls \cup NameCalls \cup CutCalls
=============================================================================

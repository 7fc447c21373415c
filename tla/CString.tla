------------------------------- MODULE CString -------------------------------
(***************************************************************************)
(* How the key gets into the firmware: quoteCStringBytes writes it as a    *)
(* C++ string literal, and the compiler reads the literal.  Bytes and       *)
(* characters are their codes.                                             *)
(***************************************************************************)
EXTENDS Naturals, Sequences, SequencesExt

CONSTANTS
  Bytes,     \* the bytes keys are made of
  MaxKey     \* bound: their length; escapes are at most four characters long

ASSUME CStringAssumption == Bytes \subseteq 0..255 /\ MaxKey \in Nat

Tab == 9
LF == 10
CR == 13
Mark == 34
Backslash == 92
Digit(n) == 48 + n
Escaped(c) == <<Backslash, c>>

---------------------------------------------------------------------------
(* quoteCStringBytes *)

\* A wrong variant: "%o" writes no leading zeros.
OctalUnpadded(b) ==
  CASE b < 8 -> Escaped(Digit(b))
    [] b \in 8..63 -> <<Backslash, Digit(b \div 8), Digit(b % 8)>>
    [] OTHER -> <<Backslash, Digit(b \div 64), Digit((b \div 8) % 8), Digit(b % 8)>>

\* "\\%03o"
Octal(b) == <<Backslash, Digit(b \div 64), Digit((b \div 8) % 8), Digit(b % 8)>>

QuoteByte(b) ==
  CASE b \in {Backslash, Mark} -> Escaped(b)
    [] b = LF  -> Escaped(110)
    [] b = CR  -> Escaped(114)
    [] b = Tab -> Escaped(116)
    [] b \in (32..126) \ {Backslash, Mark} -> <<b>>
    [] OTHER -> Octal(b)

QuoteCStringBytes(data) ==
  <<Mark>> \o FlattenSeq([i \in 1..Len(data) |-> QuoteByte(data[i])]) \o <<Mark>>

---------------------------------------------------------------------------
(* The compiler: an automaton over the characters of the literal *)

Emit(s, b) == [s EXCEPT !.at = "plain", !.out = Append(@, b)]
Go(s, at) == [s EXCEPT !.at = at]

Plain(s, c) == CASE c = Mark -> Go(s, "closed")
                 [] c = Backslash -> Go(s, "escape")
                 [] c \in {LF, CR} -> Go(s, "bad")
                 [] OTHER -> Emit(s, c)

IsOctal(c) == c \in Digit(0)..Digit(7)

Escape(s, c) == CASE c \in {Backslash, Mark} -> Emit(s, c)
                  [] c = 110 -> Emit(s, LF)
                  [] c = 114 -> Emit(s, CR)
                  [] c = 116 -> Emit(s, Tab)
                  [] IsOctal(c) -> [s EXCEPT !.at = "octal1", !.val = c - Digit(0)]
                  [] OTHER -> Go(s, "bad")

\* An octal escape has up to three digits: it ends early at another character.
OctalDigit(s, c) ==
  LET val == 8 * s.val + (c - Digit(0))
  IN CASE ~IsOctal(c) -> Plain(Emit(s, s.val), c)
       [] IsOctal(c) /\ s.at = "octal1" -> [s EXCEPT !.at = "octal2", !.val = val]
       [] IsOctal(c) /\ s.at = "octal2" -> Emit(s, val % 256)

Char(s, c) == CASE s.at = "open" -> IF c = Mark THEN Go(s, "plain") ELSE Go(s, "bad")
                [] s.at = "plain" -> Plain(s, c)
                [] s.at = "escape" -> Escape(s, c)
                [] s.at \in {"octal1", "octal2"} -> OctalDigit(s, c)
                [] OTHER -> Go(s, "bad")

Compile(lit) ==
  LET state[i \in 0..Len(lit)] ==
        IF i = 0 THEN [at |-> "open", val |-> 0, out |-> <<>>] ELSE Char(state[i - 1], lit[i])
  IN state[Len(lit)]

---------------------------------------------------------------------------

\* The literal of a key is well formed and the compiler reads the key from it.
ReadsBack(data) ==
  LET c == Compile(QuoteCStringBytes(data)) IN c.at = "closed" /\ c.out = data

AllReadBack == \A data \in BoundedSeq(Bytes, MaxKey) : ReadsBack(data)

=============================================================================

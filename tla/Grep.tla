-------------------------------- MODULE Grep --------------------------------
(***************************************************************************)
(* user/src/grep.rs: the matcher for ^ . * $, and the loop that reads its  *)
(* input into a buffer of BUF bytes and prints the lines that match.  The  *)
(* input is a pipe (there is no open): a read gives any part of what is    *)
(* asked for and left, and nothing only at the end.                        *)
(***************************************************************************)
EXTENDS Naturals, FiniteSets, SequencesExt

CONSTANTS BUF,       \* bytes of the buffer, 1024 in the code
          Patterns, Texts

VARIABLES re, input,
          off,       \* bytes read so far
          buf,       \* buf[..m]
          lost,      \* places in the input of the bytes given up unseen
          printed,   \* lines written
          ended

grepVars == <<re, input, off, buf, lost, printed, ended>>

NL == "nl"
Rest(s, n) == SubSeq(s, n + 1, Len(s))

-----------------------------------------------------------------------------
\* matchhere and matchstar: does the text begin with a match.
RECURSIVE matchhere(_, _), matchstar(_, _, _)
matchhere(r, text) ==
  IF r = <<>> THEN TRUE
  ELSE IF Len(r) > 1 /\ r[2] = "*" THEN matchstar(r[1], Rest(r, 2), text)
  ELSE IF r = <<"$">> THEN text = <<>>
  ELSE text # <<>> /\ r[1] \in {".", text[1]} /\ matchhere(Rest(r, 1), Rest(text, 1))

\* Variant: c* takes at least one c.
matchstarOne(c, r, text) ==
  text # <<>> /\ c \in {".", text[1]} /\ (matchhere(r, Rest(text, 1)) \/ matchstar(c, r, Rest(text, 1)))

matchstar(c, r, text) ==
  \/ matchhere(r, text)
  \/ text # <<>> /\ c \in {".", text[1]} /\ matchstar(c, r, Rest(text, 1))

match_pattern(r, text) ==
  IF r # <<>> /\ r[1] = "^" THEN matchhere(Rest(r, 1), text)
  ELSE \E i \in 0..Len(text) : matchhere(r, Rest(text, i))

\* The lines that are complete in s, and what is left after the last of them.
Breaks(s) == {i \in 1..Len(s) : s[i] = NL}
LineAt(s, i) == LET before == {j \in Breaks(s) : j < i}
                    from   == IF before = {} THEN 0 ELSE CHOOSE j \in before : \A k \in before : k <= j
                IN SubSeq(s, from + 1, i - 1)
Lines(s) == [k \in 1..Cardinality(Breaks(s)) |->
              LineAt(s, CHOOSE i \in Breaks(s) : Cardinality({j \in Breaks(s) : j < i}) = k - 1)]
Partial(s) == IF Breaks(s) = {} THEN <<>>      \* p == 0: m = 0
              ELSE Rest(s, CHOOSE i \in Breaks(s) : \A j \in Breaks(s) : j <= i)

\* One turn of the loop of grep(): a buffer without a newline is given up.
GrepTurn ==
  /\ ~ended
  /\ LET most == IF BUF - Len(buf) - 1 < Len(input) - off THEN BUF - Len(buf) - 1 ELSE Len(input) - off
     IN IF most = 0 THEN ended' = TRUE /\ UNCHANGED <<off, buf, lost, printed>>
        ELSE \E n \in 1..most :
               LET s == buf \o SubSeq(input, off + 1, off + n)
               IN /\ off' = off + n
                  /\ printed' = printed \o SelectSeq(Lines(s), LAMBDA l : match_pattern(re, l))
                  /\ buf' = Partial(s)
                  /\ lost' = lost \cup IF Breaks(s) = {} THEN (off - Len(buf) + 1)..off' ELSE {}
                  /\ UNCHANGED ended
  /\ UNCHANGED <<re, input>>

GrepInit == /\ re \in Patterns /\ input \in Texts /\ off = 0 /\ buf = <<>> /\ lost = {}
            /\ printed = <<>> /\ ended = FALSE

-----------------------------------------------------------------------------
\* What a pattern means: items that each take a part of the text, side by
\* side, with the first at the start if there is a ^ and the last at the end
\* if there is a $.
RECURSIVE Items(_)
Items(r) == IF r = <<>> THEN <<>>
            ELSE IF Len(r) > 1 /\ r[2] = "*" THEN <<[c |-> r[1], star |-> TRUE]>> \o Items(Rest(r, 2))
            ELSE <<[c |-> r[1], star |-> FALSE]>> \o Items(Rest(r, 1))
Takes(item, part) == /\ item.star \/ Len(part) = 1
                     /\ \A i \in 1..Len(part) : item.c \in {".", part[i]}
Means(r, text) ==
  LET start == r # <<>> /\ r[1] = "^"
      body  == Items(IF start THEN Tail(r) ELSE r)
      end   == body # <<>> /\ body[Len(body)] = [c |-> "$", star |-> FALSE]
      items == IF end THEN Front(body) ELSE body
      n     == Len(items)
  IN \E cut \in [0..n -> 0..Len(text)] :
       /\ start => cut[0] = 0
       /\ end => cut[n] = Len(text)
       /\ \A i \in 1..n : cut[i - 1] <= cut[i] /\ Takes(items[i], SubSeq(text, cut[i - 1] + 1, cut[i]))

\* The input without the bytes that were given up.
Seen == LET places == SelectSeq([i \in 1..Len(input) |-> i], LAMBDA i : i \notin lost)
        IN [k \in 1..Len(places) |-> input[places[k]]]

\* grep reads to the end whatever the pieces the pipe delivers and however
\* long the lines; it gives up only bytes at the start of a line, never a
\* newline, so that every line of the input is seen from some place on, in
\* order; and it prints exactly those of them the pattern means.
GrepExact ==
  ended => LET all == Lines(input)
               got == Lines(Seen)
           IN /\ off = Len(input)
              /\ Len(got) = Len(all)
              /\ \A k \in 1..Len(got) : IsSuffix(got[k], all[k])
              /\ printed = SelectSeq(got, LAMBDA l : Means(re, l))
=============================================================================

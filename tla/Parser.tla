------------------------------- MODULE Parser -------------------------------
(***************************************************************************)
(* The parser of user/src/sh.rs, a recursive descent over a line of        *)
(* characters: "a" is any character of a word, " " any of WHITESPACE, and  *)
(* past the end there is the NUL.  A parsing function returns the command  *)
(* and the place where it stopped, or a panic, with which the shell's      *)
(* child exits.  Words are kept as places in the line, as in the code,     *)
(* until nulterminate has cut them.                                        *)
(***************************************************************************)
EXTENDS Naturals, SequencesExt, FiniteSets

CONSTANTS MAXARGS,
          MaxLine,   \* characters that are typed
          Drafts     \* what is there when typing begins

VARIABLES line, parsed

SYMBOLS == {"<", "|", ">", "&", ";", "(", ")"}
Ch(s)   == IF s <= Len(line) THEN line[s] ELSE "nul"
InWord(s) == Ch(s) = "a"

\* The next place from s on where the line is not like that.
RECURSIVE SkipBlanks(_), SkipWord(_)
SkipBlanks(s) == IF Ch(s) = " " THEN SkipBlanks(s + 1) ELSE s
SkipWord(s)   == IF InWord(s) THEN SkipWord(s + 1) ELSE s

Token(tok, q, eq) == [tok |-> tok, q |-> q, eq |-> eq, s |-> SkipBlanks(eq)]
TokenOf(q) == IF Ch(q) = "nul" THEN Token("nul", q, q)
               ELSE IF InWord(q) THEN Token("a", q, SkipWord(q)) ELSE Token(Ch(q), q, q + 1)

\* Variant: >> is taken for two redirections.
gettokenSingle(s) == TokenOf(SkipBlanks(s))

gettoken(s) ==
  LET q == SkipBlanks(s)
  IN IF Ch(q) = ">" /\ Ch(q + 1) = ">" THEN Token("+", q, q + 2) ELSE TokenOf(q)

peek(s, toks) == Ch(SkipBlanks(s)) \in toks

-----------------------------------------------------------------------------
\* Commands, and what a parsing function returns.
EXEC(argv)        == [t |-> "EXEC", argv |-> argv]
REDIR(c, tok, w)  == [t |-> "REDIR", cmd |-> c, fd |-> IF tok = "<" THEN 0 ELSE 1, file |-> w]
PIPE(l, r)        == [t |-> "PIPE", left |-> l, right |-> r]
LIST(l, r)        == [t |-> "LIST", left |-> l, right |-> r]
BACK(c)           == [t |-> "BACK", cmd |-> c]

PANIC == [t |-> "panic"]
Ret(c, s) == [cmd |-> c, s |-> s]
Panics    == Ret(PANIC, 0)
Ok(r)     == r.cmd.t # "panic"
WordOf(k) == <<k.q, k.eq>>

\* parseredirs: the redirections that follow, or a panic.
RECURSIVE parseredirs(_)
Redir(op, f, rest) == [ok |-> f.tok = "a" /\ rest.ok, s |-> rest.s,
                       redirs |-> <<[tok |-> op.tok, file |-> WordOf(f)]>> \o rest.redirs]
RedirTo(op, f) == Redir(op, f, parseredirs(f.s))
RedirBy(op)    == RedirTo(op, gettoken(op.s))
parseredirs(s) == IF peek(s, {"<", ">"}) THEN RedirBy(gettoken(s)) ELSE [ok |-> TRUE, redirs |-> <<>>, s |-> s]
\* Each is put round the command so far.
Wrap(c, redirs) == FoldLeft(LAMBDA acc, r : REDIR(acc, r.tok, r.file), c, redirs)

\* The loop of parseexec: words, each with the redirections after it.
RECURSIVE Args(_)
Arg(r, k, rest) == [ok |-> rest.ok, argv |-> <<WordOf(k)>> \o rest.argv, redirs |-> r.redirs \o rest.redirs, s |-> rest.s]
ArgsFrom(r, k) ==
  IF k.tok = "nul" THEN [ok |-> TRUE, argv |-> <<>>, redirs |-> r.redirs, s |-> r.s]
  ELSE IF k.tok # "a" THEN [ok |-> FALSE, argv |-> <<>>, redirs |-> <<>>, s |-> r.s]
  ELSE Arg(r, k, Args(parseredirs(k.s)))
Args(r) == IF ~r.ok \/ peek(r.s, {"|", ")", "&", ";"})
           THEN [ok |-> r.ok, argv |-> <<>>, redirs |-> r.redirs, s |-> r.s]
           ELSE ArgsFrom(r, gettoken(r.s))

\* What follows a command in parseline: the &s.
RECURSIVE Backs(_)
Backs(r) == IF Ok(r) /\ peek(r.s, {"&"}) THEN Backs(Ret(BACK(r.cmd), gettoken(r.s).s)) ELSE r

\* parseline, parsepipe, parseexec and parseblock call each other: what each
\* of them returns at each place of the line.
Both(l, op, r, tree) == IF ~Ok(l) \/ ~peek(l.s, {op}) THEN l ELSE IF Ok(r) THEN Ret(tree, r.s) ELSE r
Parsed ==
  LET P[f \in {"line", "pipe", "exec", "block"}, s \in 1..(Len(line) + 2)] ==
       CASE f = "line" ->
              LET l == Backs(P["pipe", s])
                  r == P["line", gettoken(l.s).s]
              IN Both(l, ";", r, LIST(l.cmd, r.cmd))
         [] f = "pipe" ->
              LET l == P["exec", s]
                  r == P["pipe", gettoken(l.s).s]
              IN Both(l, "|", r, PIPE(l.cmd, r.cmd))
         [] f = "exec" ->
              IF peek(s, {"("}) THEN P["block", s]
              ELSE LET a == Args(parseredirs(s))
                   IN IF a.ok /\ Len(a.argv) < MAXARGS THEN Ret(Wrap(EXEC(a.argv), a.redirs), a.s) ELSE Panics
         [] f = "block" ->
              LET r == P["line", gettoken(s).s]
                  after == parseredirs(gettoken(r.s).s)
              IN IF Ok(r) /\ peek(r.s, {")"}) /\ after.ok THEN Ret(Wrap(r.cmd, after.redirs), after.s) ELSE Panics
  IN P["line", 1]

\* nulterminate: the places of the line that become NUL.
RECURSIVE Nuls(_)
Nuls(c) == CASE c.t = "EXEC"  -> {c.argv[i][2] : i \in 1..Len(c.argv)}
             [] c.t = "REDIR" -> Nuls(c.cmd) \cup {c.file[2]}
             [] c.t = "BACK"  -> Nuls(c.cmd)
             [] OTHER         -> Nuls(c.left) \cup Nuls(c.right)

\* The command as runcmd reads it: each word up to the NUL that follows.
RECURSIVE Read(_, _)
Text(w, nuls) ==
  LET ends == {i \in w[1]..(Len(line) + 1) : i \in nuls \/ i = Len(line) + 1}
  IN SubSeq(line, w[1], (CHOOSE i \in ends : \A j \in ends : i <= j) - 1)
Read(c, nuls) ==
  CASE c.t = "EXEC"  -> EXEC([i \in 1..Len(c.argv) |-> Text(c.argv[i], nuls)])
    [] c.t = "REDIR" -> [c EXCEPT !.cmd = Read(@, nuls), !.file = Text(@, nuls)]
    [] c.t = "BACK"  -> [c EXCEPT !.cmd = Read(@, nuls)]
    [] OTHER         -> [c EXCEPT !.left = Read(@, nuls), !.right = Read(@, nuls)]

parsecmd == LET r == Parsed
            IN IF Ok(r) /\ SkipBlanks(r.s) = Len(line) + 1 THEN Read(r.cmd, Nuls(r.cmd)) ELSE PANIC

NotYet      == [t |-> "none"]
ParserInit  == line \in Drafts /\ parsed = NotYet
TypeChar    == /\ parsed = NotYet /\ Len(line) < MaxLine
               /\ \E c \in {"a", " "} \cup SYMBOLS : line' = Append(line, c)
               /\ UNCHANGED parsed
Parse       == parsed = NotYet /\ parsed' = parsecmd /\ UNCHANGED line
ParserNext  == TypeChar \/ Parse

-----------------------------------------------------------------------------
\* The tokens of the line, said without a scanner: a place begins one when it
\* is no blank, not inside a word, and not the second half of a >>.
GTs(i) == Cardinality({j \in 1..(i - 1) : \A k \in j..(i - 1) : line[k] = ">"})
Begins(i) == \/ line[i] = "a" /\ (i = 1 \/ line[i - 1] # "a")
             \/ line[i] = ">" /\ GTs(i) % 2 = 0
             \/ line[i] \in SYMBOLS \ {">"}
WordAt(i) == SubSeq(line, i, CHOOSE j \in i..Len(line) :
                     (\A k \in i..j : line[k] = "a") /\ (j = Len(line) \/ line[j + 1] # "a"))
TokenAt(i) == IF line[i] = "a" THEN [tok |-> "a", word |-> WordAt(i)]
              ELSE [tok |-> IF line[i] = ">" /\ i < Len(line) /\ line[i + 1] = ">" THEN "+" ELSE line[i], word |-> <<>>]
InOrder(S) == [k \in 1..Cardinality(S) |-> CHOOSE i \in S : Cardinality({j \in S : j < i}) = k - 1]
Tokens == LET at == InOrder({i \in 1..Len(line) : Begins(i)})
          IN [k \in 1..Len(at) |-> TokenAt(at[k])]

\* The grammar: the trees that the tokens i to j can be, as
\*   line ::= back [; line]     back ::= pipe | back &     pipe ::= exec [| pipe]
\*   exec ::= (word | redirection)* | ( line ) redirection*
Trees(ts) ==
  LET IsRedir(i) == i < Len(ts) /\ ts[i].tok \in {"<", ">", "+"} /\ ts[i + 1].tok = "a"
      Redirs(i, j) == LET at == InOrder({k \in i..j : IsRedir(k)})
                      IN [k \in 1..Len(at) |-> [tok |-> ts[at[k]].tok, file |-> ts[at[k] + 1].word]]
      Simple(i, j) == \A k \in i..j : ts[k].tok = "a" \/ (IsRedir(k) /\ k < j)
      Only(i, j)   == (j - i) % 2 = 1 /\ \A k \in i..j : (k - i) % 2 = 0 => IsRedir(k)
      Argv(i, j)   == LET at == InOrder({k \in i..j : ts[k].tok = "a" /\ ~(k > i /\ IsRedir(k - 1))})
                      IN [k \in 1..Len(at) |-> ts[at[k]].word]
      Are(t, i, j) == {k \in i..j : ts[k].tok = t}
      T[nt \in {"line", "back", "pipe", "exec"}, i \in 1..(Len(ts) + 1), j \in 0..Len(ts)] ==
           CASE nt = "line" ->
                  T["back", i, j] \cup UNION {{LIST(l, r) : l \in T["back", i, k - 1], r \in T["line", k + 1, j]} : k \in Are(";", i, j)}
             [] nt = "back" ->
                  T["pipe", i, j] \cup (IF j \in Are("&", i, j) THEN {BACK(c) : c \in T["back", i, j - 1]} ELSE {})
             [] nt = "pipe" ->
                  T["exec", i, j] \cup UNION {{PIPE(l, r) : l \in T["exec", i, k - 1], r \in T["pipe", k + 1, j]} : k \in Are("|", i, j)}
             [] nt = "exec" ->
                  (IF Simple(i, j) /\ Len(Argv(i, j)) < MAXARGS THEN {Wrap(EXEC(Argv(i, j)), Redirs(i, j))} ELSE {})
                  \cup (IF i \notin Are("(", i, j) THEN {} ELSE
                        UNION {{Wrap(c, Redirs(k + 1, j)) : c \in T["line", i + 1, k - 1]} :
                               k \in {m \in Are(")", i, j) : m = j \/ Only(m + 1, j)}})
  IN T["line", 1, Len(ts)]

\* The shell runs a line exactly when the grammar has it, and then the one
\* command the grammar gives it, with its words cut where they end.
ParseExact ==
  parsed # NotYet => IF parsed = PANIC THEN Trees(Tokens) = {} ELSE Trees(Tokens) = {parsed}
=============================================================================

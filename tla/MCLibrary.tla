----------------------------- MODULE MCLibrary ------------------------------
(***************************************************************************)
(* The code that works on text and lists - the allocator, the shell's      *)
(* parser, grep and the line editor of the console - side by side: a       *)
(* behaviour exercises one of them.                                        *)
(***************************************************************************)
EXTENDS Malloc, Parser, Grep, Terminal

VARIABLE part
parserVars == <<line, parsed>>
vars == <<part, heapVars, parserVars, grepVars, termVars>>

Strings(S, n) == UNION {[1..k -> S] : k \in 0..n}
MCDrafts == {<<>>,
             <<"(", "a", "|", "a", "a", ")", ">", ">", "a", "&", ";", "a", "<", "a">>,
             <<"(", "(", "a", ")", "<", "a", ")", "|", "a">>,
             <<"a", " ", "a", " ", "a">>}
MCPatterns == Strings({"a", ".", "*", "^", "$"}, 3)
MCTexts == Strings({"a", "b", NL}, 4) \cup {t \o <<NL>> : t \in [1..4 -> {"a", "b", NL}]}

Init ==
  /\ part \in {"malloc", "parser", "grep", "terminal"}
  /\ MallocInit
  /\ IF part = "parser" THEN ParserInit ELSE line = <<>> /\ parsed = NotYet
  /\ IF part = "grep" THEN GrepInit
     ELSE re = <<>> /\ input = <<>> /\ off = 0 /\ buf = <<>> /\ lost = {} /\ printed = <<>> /\ ended = FALSE
  /\ TermInit

Next == \/ part = "malloc" /\ MallocNext /\ UNCHANGED <<part, parserVars, grepVars, termVars>>
        \/ part = "parser" /\ ParserNext /\ UNCHANGED <<part, heapVars, grepVars, termVars>>
        \/ part = "grep" /\ GrepTurn /\ UNCHANGED <<part, heapVars, parserVars, termVars>>
        \/ part = "terminal" /\ TermNext /\ UNCHANGED <<part, heapVars, parserVars, grepVars>>

Spec == Init /\ [][Next]_vars
=============================================================================

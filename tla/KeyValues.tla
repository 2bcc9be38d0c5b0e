------------------------------ MODULE KeyValues ------------------------------
(***************************************************************************)
(* The parser of steamdepot/src/keyvalues.rs over a sequence of            *)
(* characters.  A step is one iteration of parse_map's loop; its recursion *)
(* is a stack of the maps that are open.                                   *)
(***************************************************************************)
EXTENDS Naturals, Sequences, FiniteSets

CONSTANT Texts      \* the inputs

\* "end" is what At says of a place behind the text
TextAssumption == Texts \subseteq Seq(STRING \ {"end"})

VARIABLES
  text, pos,
  stack,      \* maps being parsed, the root first: [map, key], key that of the open child
  result      \* "none", "ok", "err"

vars == <<text, pos, stack, result>>

Quote == "quote"
Backslash == "backslash"
NL == "newline"
Tab == "tab"
Null == "null"
Blank == {" ", NL, Tab}

Str(s) == [str |-> s]
Map(f) == [map |-> f]
Empty == [k \in {} |-> <<>>]
Insert(f, k, v) == [x \in DOMAIN f \cup {k} |-> IF x = k THEN v ELSE f[x]]

TypeOK ==
  /\ text \in Seq(STRING)
  /\ pos \in 1..Len(text) + 1
  /\ Len(stack) \in 1..Len(text) + 1
  /\ result \in {"none", "ok", "err"}

Until(t, c) ==
  LET at == {i \in DOMAIN t : t[i] = c} IN
  IF at = {} THEN t ELSE SubSeq(t, 1, (CHOOSE i \in at : \A j \in at : i <= j) - 1)

Init ==
  /\ \E t \in Texts : text = Until(t, Null)
  /\ pos = 1
  /\ stack = << [map |-> Empty, key |-> <<>>] >>
  /\ result = "none"

At(p) == IF p \in DOMAIN text THEN text[p] ELSE "end"

\* skip_whitespace_and_comments
Skip(p) ==
  LET skip[i \in 1..Len(text) + 1] ==
        IF At(i) \in Blank THEN skip[i + 1]
        ELSE IF At(i) = "/" /\ At(i + 1) = "/"
             THEN LET ends == {j \in i..Len(text) : At(j) = NL} \cup {Len(text) + 1}
                  IN skip[CHOOSE j \in ends : \A k \in ends : j <= k]
        ELSE i
  IN skip[p]

Failed == [ok |-> FALSE]
Parsed(s, next) == [ok |-> TRUE, str |-> s, next |-> next]
Before(cs, r) == IF r.ok THEN Parsed(cs \o r.str, r.next) ELSE r

\* Slip: a backslash only protects the character after it.
EscapedPlain(c) == <<c>>

Escaped(c) ==
  CASE c \in {Quote, Backslash} -> <<c>>
    [] c = "n" -> <<NL>>
    [] c = "t" -> <<Tab>>
    [] OTHER -> <<Backslash, c>>

Quoted(p) ==
  LET rest[i \in 1..Len(text) + 2] ==
        CASE At(i) = "end" -> Failed
          [] At(i) = Quote -> Parsed(<<>>, i + 1)
          [] At(i) = Backslash ->
               IF At(i + 1) = "end" THEN Failed ELSE Before(Escaped(At(i + 1)), rest[i + 2])
          [] OTHER -> Before(<<At(i)>>, rest[i + 1])
  IN rest[p + 1]

\* Slip: a brace does not end a word.
WordToBlank(p) ==
  LET ends == {i \in p..Len(text) : At(i) \in Blank \cup {Quote}} \cup {Len(text) + 1}
  IN CHOOSE i \in ends : \A j \in ends : i <= j

WordEnd(p) ==
  LET ends == {i \in p..Len(text) : At(i) \in Blank \cup {"{", "}", Quote}} \cup {Len(text) + 1}
  IN CHOOSE i \in ends : \A j \in ends : i <= j

Unquoted(p) ==
  IF WordEnd(p) = p THEN Failed ELSE Parsed(SubSeq(text, p, WordEnd(p) - 1), WordEnd(p))

parse_string(p) == IF At(p) = Quote THEN Quoted(p) ELSE Unquoted(p)

(***************************************************************************)
(* parse_map.                                                              *)
(***************************************************************************)
Depth == Len(stack)
Fail == result' = "err" /\ UNCHANGED <<text, pos, stack>>

\* the end of the text, or a brace: of the root whatever follows, of a child
\* its own brace
EndMap ==
  LET p == Skip(pos) IN
  /\ result = "none" /\ At(p) \in {"end", "}"}
  /\ CASE Depth = 1 -> result' = "ok" /\ pos' = p /\ UNCHANGED <<text, stack>>
       [] Depth > 1 /\ At(p) = "end" -> Fail
       [] OTHER ->
            LET parent == stack[Depth - 1] IN
            /\ pos' = p + 1
            /\ stack' = Append(SubSeq(stack, 1, Depth - 2),
                 [parent EXCEPT !.map = Insert(@, parent.key, Map(stack[Depth].map))])
            /\ UNCHANGED <<text, result>>

Entry ==
  LET key == parse_string(Skip(pos))
      p == Skip(key.next)
      value == parse_string(p)
  IN /\ result = "none" /\ At(Skip(pos)) \notin {"end", "}"}
     /\ CASE ~ key.ok -> Fail
          [] key.ok /\ At(p) = "{" ->
               /\ pos' = p + 1
               /\ stack' = Append([stack EXCEPT ![Depth].key = key.str], [map |-> Empty, key |-> <<>>])
               /\ UNCHANGED <<text, result>>
          [] key.ok /\ At(p) # "{" /\ ~ value.ok -> Fail
          [] OTHER ->
               /\ pos' = value.next
               /\ stack' = [stack EXCEPT ![Depth].map = Insert(@, key.str, Str(value.str))]
               /\ UNCHANGED <<text, result>>

Next == EndMap \/ Entry

Spec == Init /\ [][Next]_vars

-----------------------------------------------------------------------------

Count(c, n) == Cardinality({i \in 1..n : text[i] = c})

\* An accepted text has its braces in balance up to where the parser stopped,
\* which is its end or the first brace too many.
BracesBalanced ==
  (result = "ok" /\ \A i \in DOMAIN text : text[i] \notin {Quote, "/"}) =>
    /\ Count("{", pos - 1) = Count("}", pos - 1)
    /\ pos = Len(text) + 1 \/ text[pos] = "}"

=============================================================================

------------------------------ MODULE MailText ------------------------------
(***************************************************************************)
(* What handle_smtp (steam-mail/src/lib.rs) makes of the text of a mail:   *)
(* quoted-printable is decoded, then a guard code is looked for, then a    *)
(* link.  A text is a sequence of characters; the word "code", the start   *)
(* of a Steam URL and the path that marks a verification link are each one *)
(* symbol.  The digits 3, A and D stand for the hexadecimal ones and K for *)
(* the other letters; High is a letter that is no ASCII, of two bytes.     *)
(* The decoder makes a character (Latin-1) of each byte, so what it reads  *)
(* for High is two letters that are no ASCII, High twice.                  *)
(***************************************************************************)
EXTENDS Naturals, Sequences, SequencesExt

NL == "newline"
Quote == "quote"
Hex == {"3", "A", "D"}
High == "non-ascii"
Ascii == Hex \cup {"K", "i", "s", "code", "verify"}
Alphanumeric == Ascii \cup {High}

\* length in bytes of a word
Width(w) ==
  FoldLeft(LAMBDA n, c : n + (CASE c = "code" -> 4 [] c = "verify" -> 6 [] c = High -> 2 [] OTHER -> 1), 0, w)

(***************************************************************************)
(* decode_quoted_printable.                                                *)
(***************************************************************************)
HexValue(h, l) ==
  CASE <<h, l>> = <<"3", "D">> -> "="
    [] <<h, l>> = <<"3", "A">> -> ":"
    [] <<h, l>> = <<"3", "3">> -> "3"
    [] OTHER -> High

\* Slip: an "=" among the last three bytes stays as it is.
EscapesBefore(t, i) == t[i] = "=" /\ i + 2 < Len(t)

\* an "=" among the last two bytes stays as it is
Escapes(t, i) == t[i] = "=" /\ i + 2 <= Len(t)

\* a character becomes its bytes
Latin(c) == IF c = High THEN <<High, High>> ELSE <<c>>

Decode(t) ==
  LET at[i \in 1..Len(t) + 1] ==
        IF i > Len(t) THEN <<>>
        ELSE IF Escapes(t, i) /\ t[i + 1] = NL THEN at[i + 2]
        ELSE IF Escapes(t, i) /\ t[i + 1] \in Hex /\ t[i + 2] \in Hex
             THEN <<HexValue(t[i + 1], t[i + 2])>> \o at[i + 3]
        ELSE Latin(t[i]) \o at[i + 1]
  IN at[1]

\* the sender's quoted-printable, with a soft line break after p characters
Quoted(c) ==
  CASE c = "=" -> <<"=", "3", "D">>
    [] c = High -> <<"=", "D", "3", "=", "A", "3">>
    [] OTHER -> <<c>>

Encode(t, p) ==
  LET symbol(i) == Quoted(t[i]) \o (IF i = p /\ i < Len(t) THEN <<"=", NL>> ELSE <<>>)
  IN FlattenSeq([i \in 1..Len(t) |-> symbol(i)])

\* a text read byte by byte: itself, if it is ASCII
ByteByByte(t) == FlattenSeq([i \in 1..Len(t) |-> Latin(t[i])])

(***************************************************************************)
(* The extraction.                                                         *)
(***************************************************************************)
Split(t, at) ==
  FoldLeft(LAMBDA parts, c :
             IF c \in at THEN Append(parts, <<>>)
             ELSE [parts EXCEPT ![Len(parts)] = Append(@, c)], << <<>> >>, t)

Skip(t, cs) ==
  LET rest == {i \in 1..Len(t) + 1 : \A j \in 1..i - 1 : t[j] \in cs} IN
  SubSeq(t, CHOOSE i \in rest : \A j \in rest : j <= i, Len(t))
Trim(t) == Reverse(Skip(Reverse(Skip(t, {" "})), {" "}))
While(t, cs) == SubSeq(t, 1, Len(t) - Len(Skip(t, cs)))

IsCode(w) == Width(w) = 5 /\ \A i \in DOMAIN w : w[i] \in Ascii

NotFound == <<>>
\* the first of a sequence of results that is one
FirstFound(rs) ==
  LET hits == {i \in DOMAIN rs : rs[i] # NotFound} IN
  IF hits = {} THEN NotFound ELSE rs[CHOOSE i \in hits : \A j \in hits : i <= j]

\* Slip: "is" is not skipped.
LabelledNoIs(line) ==
  LET from == {i \in DOMAIN line : line[i] = "code"}
      pos == CHOOSE i \in from : \A j \in from : i <= j
      word == While(Skip(SubSeq(line, pos + 1, Len(line)), {":", " "}), Alphanumeric)
  IN IF from # {} /\ IsCode(word) THEN word ELSE NotFound

Labelled(line) ==
  LET from == {i \in DOMAIN line : line[i] = "code"}
      pos == CHOOSE i \in from : \A j \in from : i <= j
      word == While(Skip(SubSeq(line, pos + 1, Len(line)), {":", " ", "i", "s"}), Alphanumeric)
  IN IF from # {} /\ IsCode(word) THEN word ELSE NotFound

Standalone(line) == IF IsCode(Trim(line)) THEN Trim(line) ELSE NotFound

extract_guard_code(t) ==
  LET ls == Split(t, {NL}) IN
  FirstFound([i \in DOMAIN ls |-> Labelled(ls[i])] \o [i \in DOMAIN ls |-> Standalone(ls[i])])

\* the first segment that starts like a Steam URL and has a verification path
extract_verification_link(t) ==
  LET segments == Split(t, {NL, " ", Quote, "<", ">"})
      link(s) == IF s # <<>> /\ s[1] = "host" /\ Contains(s, "verify")
                 THEN Reverse(Skip(Reverse(s), {";"})) ELSE NotFound
  IN FirstFound([i \in DOMAIN segments |-> link(segments[i])])

=============================================================================

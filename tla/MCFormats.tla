----------------------------- MODULE MCFormats -----------------------------
(***************************************************************************)
(* Small instances of the pure algorithms: the checksum of a chunk         *)
(* (Adler32), the sections of a manifest (ManifestBody), and the parser of *)
(* app infos (KeyValues) on the printed forms of small trees and on every  *)
(* short text.  A behaviour runs one of them and leaves the others at      *)
(* their start: part says which.                                           *)
(*                                                                         *)
(* The checksum is scaled down: bytes of up to 3, three in a block, sums   *)
(* modulo 5, and the smallest word the block allows.                       *)
(***************************************************************************)
EXTENDS Adler32, Sequences, FiniteSets

CONSTANTS Payload, Metadata, Signature, Broken, Bodies, Texts, MaxText

VARIABLES part, body, stage, data, offset, sections, result, text, pos, stack, parsed

-----------------------------------------------------------------------------
(* Bodies: zips of three pieces in any order, with right, short and long   *)
(* lengths, and cut short; and the other formats with a good manifest.     *)

Pieces ==
  {<<m, n>> \o x : m \in {Payload, Metadata, Signature}, n \in 0..2, x \in {<<>>, <<0>>, <<1>>}}

Good == <<Payload, 1, 0, Metadata, 0, Signature, 0>>
Undecodable == <<Payload, 1, Broken, Metadata, 0, Signature, 0>>

Served(format, aligned, d) == [format |-> format, aligned |-> aligned, data |-> d]

Zips == {Served("zip", FALSE, SubSeq(p \o q \o r, 1, Len(p \o q \o r) - cut)) :
           p \in Pieces, q \in Pieces, r \in Pieces, cut \in 0..2}
Others == {Served(f, x, Good) : f \in {"zip", "empty zip", "encrypted zlib", "zlib", "raw"}, x \in BOOLEAN}

AllBodies == Zips \cup Others \cup {Served("zip", TRUE, Undecodable)}

Body == INSTANCE ManifestBody
Unserved == INSTANCE ManifestBody WITH Bodies <- {Served("raw", FALSE, <<>>)}
manifest == <<body, stage, data, offset, sections, result>>

-----------------------------------------------------------------------------
(* Texts *)

Quote == "quote"
Backslash == "backslash"
NL == "newline"
Tab == "tab"
Null == "null"
Str(s) == [str |-> s]
Map(f) == [map |-> f]
Empty == [k \in {} |-> <<>>]

Strings == {<<>>, <<"a">>, <<Backslash, "n">>, <<NL, Quote>>, <<"/", "/">>, <<"{">>, <<Tab, Backslash>>, <<Backslash, "a">>}
Keys == {<<"a">>, <<"n", Quote>>}
Leaves == {Str(s) : s \in Strings}
Inner == {Map(Empty)} \cup {Map([k \in {<<"a">>} |-> v]) : v \in Leaves}
Trees == UNION {[ks -> Leaves \cup Inner] : ks \in SUBSET Keys}

Escaped(c) ==
  CASE c = Quote -> <<Backslash, Quote>> [] c = Backslash -> <<Backslash, Backslash>>
    [] c = NL -> <<Backslash, "n">> [] OTHER -> <<c>>

Escape(s) ==
  LET esc[n \in 0..Len(s)] == IF n = 0 THEN <<>> ELSE esc[n - 1] \o Escaped(s[n]) IN esc[Len(s)]
InQuotes(s) == <<Quote>> \o Escape(s) \o <<Quote>>

Gaps == {<<>>, <<NL, " ">>, <<"/", "/", "{", Quote, NL>>}

\* the keys of f with their printed values; a value is a string or a map of strings
Entries(f, gap, Form(_)) ==
  LET from[ks \in SUBSET DOMAIN f] ==
        IF ks = {} THEN gap
        ELSE LET k == CHOOSE k \in ks : TRUE
             IN gap \o InQuotes(k) \o gap \o Form(f[k]) \o from[ks \ {k}]
  IN from[DOMAIN f]

Leaf(v) == InQuotes(v.str)
Node(v, gap) ==
  IF "str" \in DOMAIN v THEN Leaf(v) ELSE <<"{">> \o Entries(v.map, gap, Leaf) \o gap \o <<"}">>
Write(f, gap) == Entries(f, gap, LAMBDA v : Node(v, gap))

Printings == {Write(f, gap) : f \in Trees, gap \in Gaps}

Alphabet == {Quote, Backslash, "{", "}", " ", "/", "a"}
AllTexts == {t \o <<Null, "a">> : t \in Printings} \cup UNION {[1..n -> Alphabet] : n \in 0..MaxText}

Reader == INSTANCE KeyValues WITH result <- parsed
Unread == INSTANCE KeyValues WITH Texts <- {<<>>}, result <- parsed

keyvalues == <<text, pos, stack, parsed>>

Root == stack[1].map

\* The text printed from a tree, with escapes and with comments between the
\* words, parses to that tree, and what follows a NUL is not read.
TreeParsed ==
  (parsed # "none" /\ text \in Printings) =>
    /\ parsed = "ok" /\ Root \in Trees
    /\ \E gap \in Gaps : Write(Root, gap) = text

\* Whatever the text, the parser stays within it and its recursion, and what
\* it accepts has its braces in balance.
ParserInv == Reader!TypeOK /\ Reader!BracesBalanced

-----------------------------------------------------------------------------

ASSUME FormatsAssumption == Body!BodyAssumption /\ Reader!TextAssumption

MCInit ==
  /\ part \in {"checksum", "manifest", "keyvalues"}
  /\ Init
  /\ IF part = "manifest" THEN Body!Init ELSE Unserved!Init
  /\ IF part = "keyvalues" THEN Reader!Init ELSE Unread!Init

MCNext ==
  /\ UNCHANGED part
  /\ \/ part = "checksum" /\ Next /\ UNCHANGED <<manifest, keyvalues>>
     \/ part = "manifest" /\ Body!Next /\ UNCHANGED <<vars, keyvalues>>
     \/ part = "keyvalues" /\ Reader!Next /\ UNCHANGED <<vars, manifest>>

MCSpec == MCInit /\ [][MCNext]_<<part, vars, manifest, keyvalues>>

SectionsFaithful == Body!SectionsFaithful

=============================================================================

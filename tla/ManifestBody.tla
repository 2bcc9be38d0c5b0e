---------------------------- MODULE ManifestBody ----------------------------
(***************************************************************************)
(* What download_manifest (steamdepot/src/cdn.rs) does with the body of a  *)
(* response: it unpacks it by its first bytes and its length, and reads    *)
(* three sections, each with a magic number and a length in front.  The    *)
(* unpacked data is a sequence of 4-byte words, a body's length a multiple *)
(* of them.                                                                *)
(***************************************************************************)
EXTENDS Integers, Sequences

CONSTANTS
  Payload, Metadata, Signature,   \* the magic numbers
  Broken,     \* a word that no protobuf message holds
  Bodies      \* the bodies served: [format, aligned, data]

\* A body's data is a sequence.
BodyAssumption == \A b \in Bodies : b.data \in Seq({b.data[i] : i \in DOMAIN b.data})

VARIABLES body, stage, data, offset, sections, result

vars == <<body, stage, data, offset, sections, result>>

Magics == <<Payload, Metadata, Signature>>

TypeOK ==
  /\ data \in {<<>>, body.data}
  /\ stage \in {"unpack", "sections", "done"}
  /\ offset \in 0..Len(data)
  /\ Len(sections) \in 0..3
  /\ result \in {"none", "ok", "err"}

Init ==
  /\ body \in Bodies
  /\ stage = "unpack"
  /\ data = <<>> /\ offset = 0 /\ sections = <<>>
  /\ result = "none"

Fails == stage' = "done" /\ result' = "err" /\ UNCHANGED <<body, data, offset, sections>>

\* "PK" is a zip archive (its first entry); else a length that is a multiple
\* of 16 is taken for an encrypted zlib stream, and any other for a plain one
Readable ==
  CASE body.format \in {"zip", "empty zip"} -> body.format = "zip"
    [] body.aligned -> body.format = "encrypted zlib"
    [] OTHER -> body.format = "zlib"

Unpack ==
  /\ stage = "unpack"
  /\ IF Readable
     THEN stage' = "sections" /\ data' = body.data /\ UNCHANGED <<body, offset, sections, result>>
     ELSE Fails

IsLength(w) == w \in Nat

\* Slip: the length in the header is believed.
ReadUnchecked ==
  /\ stage = "sections" /\ Len(sections) < 3
  /\ IF \/ offset + 2 > Len(data)
        \/ ~ IsLength(data[offset + 2])
        \/ data[offset + 1] # Magics[Len(sections) + 1]
     THEN Fails
     ELSE LET end == offset + 2 + data[offset + 2]
              last == IF end > Len(data) THEN Len(data) ELSE end
          IN /\ sections' = Append(sections, SubSeq(data, offset + 3, last))
             /\ offset' = last
             /\ UNCHANGED <<body, stage, data, result>>

\* read_section, the check of its magic, and the decoding of its body
ReadSection ==
  /\ stage = "sections" /\ Len(sections) < 3
  /\ IF \/ offset + 2 > Len(data)
        \/ ~ IsLength(data[offset + 2])
        \/ offset + 2 + data[offset + 2] > Len(data)
        \/ data[offset + 1] # Magics[Len(sections) + 1]
     THEN Fails
     ELSE LET end == offset + 2 + data[offset + 2]
              section == SubSeq(data, offset + 3, end)
          IN IF \E i \in DOMAIN section : section[i] = Broken THEN Fails
             ELSE /\ sections' = Append(sections, section)
                  /\ offset' = end
                  /\ UNCHANGED <<body, stage, data, result>>

Finish ==
  /\ stage = "sections" /\ Len(sections) = 3
  /\ stage' = "done" /\ result' = "ok"
  /\ UNCHANGED <<body, data, offset, sections>>

Next == Unpack \/ ReadSection \/ Finish

Spec == Init /\ [][Next]_vars

-----------------------------------------------------------------------------

Section(magic, x) == <<magic, Len(x)>> \o x

\* A manifest is accepted exactly if its data starts with the three sections
\* in their order, and what it holds are their bodies.
SectionsFaithful ==
  /\ TypeOK
  /\ result = "ok" =>
       LET whole == Section(Payload, sections[1]) \o Section(Metadata, sections[2])
                    \o Section(Signature, sections[3])
       IN Len(whole) <= Len(data) /\ SubSeq(data, 1, Len(whole)) = whole
  /\ (result = "err" /\ stage = "done" /\ data # <<>> /\ Broken \notin {data[i] : i \in DOMAIN data}) =>
       \A x \in 0..Len(data), y \in 0..Len(data), z \in 0..Len(data) :
         x + y + z + 6 <= Len(data) =>
           LET whole == Section(Payload, SubSeq(data, 3, 2 + x))
                        \o Section(Metadata, SubSeq(data, 5 + x, 4 + x + y))
                        \o Section(Signature, SubSeq(data, 7 + x + y, 6 + x + y + z))
           IN SubSeq(data, 1, Len(whole)) # whole

=============================================================================

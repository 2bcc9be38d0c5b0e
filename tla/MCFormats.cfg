\* Ten bytes; three pieces of a manifest; printed trees and texts of five characters.
SPECIFICATION MCSpec
CONSTANTS
  MOD_ADLER = 5
  Block = 3
  Word = 36
  MaxByte = 3
  MaxLen = 10
  Payload = Payload
  Metadata = Metadata
  Signature = Signature
  Broken = Broken
  Bodies <- AllBodies
  Texts <- AllTexts
  MaxText = 5
\* the functions return
CHECK_DEADLOCK FALSE
INVARIANTS
AdlerInv
SectionsFaithful
TreeParsed
ParserInv

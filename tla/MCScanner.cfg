SPECIFICATION FairSpec
CONSTANT Texts <- MCTexts
INVARIANTS PositionsExact TextCovered MarksExact
PROPERTIES Ends

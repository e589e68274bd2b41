CONSTANTS
    Objects = {f1, f2}
    Texts <- MCTexts
    FewTexts <- MCFewTexts
    Parts <- MCParts
    Numeral <- MCNumeral
    TooLarge = TooLarge
    Width <- MCWidth
    InlineCapacity = 15
    NoFrame = NoFrame
    NoParts = NoParts
    Unspecified = Unspecified
SPECIFICATION Spec
SYMMETRY Symmetry
INVARIANTS
    ReadsItsText
    Verdict
    PartsComeBack
CHECK_DEADLOCK FALSE

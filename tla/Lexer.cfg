\* Texts of up to three pieces and of up to five characters.
SPECIFICATION Spec
CONSTANTS
    Texts <- MCTexts
    Letters <- MCLetters
    Digits <- MCDigits
INVARIANTS
    TypeOK
    TokensExact
    ValuesFresh
PROPERTIES
    EndReached

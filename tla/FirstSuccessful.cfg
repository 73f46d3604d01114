CONSTANT N = 4
SPECIFICATION Spec
INVARIANTS TypeOK AnswerIsFirst SendNeverBlocks
PROPERTIES NoNeedlessWait ImplementsChoice AllEnd

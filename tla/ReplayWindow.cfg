SPECIFICATION WindowSpec
CONSTANTS
  WordBits = 2
  WordCount = 3
  MaxSequence = 9
  MaxTokens = 2
INVARIANT CheckExact
PROPERTIES CommitOnce ImplementsPromise

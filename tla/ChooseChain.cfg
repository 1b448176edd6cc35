\* Two kinds of item, streams of up to three items on either side: none,
\* one, and several items in every combination.
CONSTANTS
  Item = {a, b}
  MaxLen = 3
  Streams <- MCStreams
SPECIFICATION FairSpec
INVARIANTS ChainTypeOK Exclusive PollingIsSafe
PROPERTIES ImplementsEitherStream CallerGetsAll

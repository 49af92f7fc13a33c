SPECIFICATION FairSpec
CONSTANTS
  c1 = c1
  c2 = c2
  x1 = x1
  x2 = x2
  None = none
  Tournaments = {t1}
  Hotkeys = {h1, h2}
  Coldkeys = {c1, c2}
  Transfers = {x1, x2}
  Sender <- MCSender
  Sent <- MCSent
  Amount <- MCAmount
  Fee <- MCFee
  MinMiners = 2
  EventLimit = 4
  Requests = {r1}
  MaxMoves = 1
  MaxFaults = 1
INVARIANTS
  EntriesArePaidOnce
  BooksBalance
  NothingRefundedTwice
PROPERTIES
  EventuallyCredited

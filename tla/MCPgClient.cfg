\* One statement beside one transaction: every order of their calls on one connection.
SPECIFICATION FairSpec
CONSTANTS
  Plain = {p1}
  Txs = {t1}
  MaxAsked = 5
INVARIANTS AnswersAreOwn TxAtomic
PROPERTIES Settles ImplementsService
CHECK_DEADLOCK FALSE

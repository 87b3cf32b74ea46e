SPECIFICATION GeneratorSpec
CONSTANTS
  Threads = {t1, t2}
  SeqMax = 1
  SeqMod = 4
  MaxClock = 3
  MaxIds = 5
  AtomicThreads = {a1, a2, a3}
  MaxNow = 2
  MaxCalls = 2
INVARIANTS IInv BorrowsOnlyWhenExhausted IdsStayUnique
PROPERTIES ImplementsIdSource CallsReturn

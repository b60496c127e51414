SPECIFICATION FairSpec
CONSTANTS
  Threads = {t1, t2, t3, t4}
INVARIANT NoLostWakeup
PROPERTIES WritePreference AbstractSpec SomeWriterGetsIn ReaderGetsIn

\* Two threads in kalloc() and kfree(), three pages, a counter that wraps.
CONSTANTS
  Threads = {t1, t2}
  N = 3
  CountMod = 2
SPECIFICATION MCSpec
INVARIANTS OneOwner PagesOwnedOnce
PROPERTIES ImplementsAllocator MappingsStable

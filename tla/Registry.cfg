\* Two registrations, so that one stop may hang while the other one fails; two
\* workers (one more than MaxConcurrentReconciles, 1 by default: the registry's
\* lock allows for any number of callers); and two instances: one per name, or
\* one that outlives its entry beside its successor.
SPECIFICATION FairSpec
CONSTANTS
  Names = {n1, n2}
  Controllers = {c1, c2}
  Workers = {w1, w2}
INVARIANTS
  TypeOK
  LiveIsTracked
  OneLivePerName
  EntryHasAResult
  CleanExitMeansStopped
PROPERTIES
  NoStartWhenClosing
  ImplementsContract
  CallsReturn
  SignalEnds

SPECIFICATION DedicatedSpec
CONSTANTS
  Queues = {j1}
  Workers = {w1, w2, w3}
  Clients = {c1, c2}
  Items = {i1, i2}
  NoQueue = NoQueue
  NoItem = NoItem
CHECK_DEADLOCK FALSE
INVARIANT TypeOK
INVARIANT CountersExact
INVARIANT NoLostPush
PROPERTY BarrierSound
PROPERTY ReleaseSound
PROPERTY ImplementsBarrier
PROPERTY BarrierOpens
PROPERTY PacketsRun
PROPERTY ReleaseReturns

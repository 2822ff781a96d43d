SPECIFICATION PoolSpec
CONSTANTS
  num_workers_used_ = 2
  Capacity = 1
  MaxLaunches = 2
  MaxBarriers = 0
INVARIANT ErrorsReported

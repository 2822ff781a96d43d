SPECIFICATION FairPoolSpec
CONSTANTS
  num_workers_used_ = 3
  Capacity = 1
  MaxLaunches = 3
  MaxBarriers = 2
INVARIANTS
  LaunchJoins
  

  

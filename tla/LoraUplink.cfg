SPECIFICATION FairSpec
CONSTANTS
  QUEUE_SIZE = 10
  PAYLOAD_SIZE = 3
  MODBUS_CONFIGS = 2
  Sizes = {3, 4}
  ErrorSize = 2
  Timestep = 20
  MaxDownlinks = 5
INVARIANTS QueueIsAllocated QueueFits NeverAsleepForGood
PROPERTY QueueDrains

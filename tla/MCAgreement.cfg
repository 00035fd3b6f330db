SPECIFICATION MCSpec
CONSTANTS
  MaxTime = 23
  NS = 10
  Rate = 4
  MaxBlock = 3
  MaxSamples = 12
  hd = hd
  sd = sd
  pcm = pcm
  sample = sample
  render = render
  dmabuf = dmabuf
  ahb = ahb
  copy = copy
  upload = upload
  alien = alien
INVARIANTS DurationsAddUp MappedAsAWhole ContractSound MemorySound
PROPERTIES MemoryReturns
CHECK_DEADLOCK FALSE

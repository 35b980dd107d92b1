SPECIFICATION Spec
CONSTANTS
  None = None
  NaN = NaN
  Infinity = Infinity
  Precision = 4
  ProbeStride = 16
  AbandonBlock = 32
  KSub = 4
  KSub4 = 4
  MaxBlockRows = 3
  WordBits = 3
  FlatNum = 5
  Bbs = 4
  ByteMax = 3
  AccumulatorMax = 15
  Unit = 3
  CodeMax = 3
  BlockSize = 4
  MinCheckpoint = 2
  RotationBlock = 4
  ByteBits = 4
  U8Max = 15
  U16Range = 65536
  ChunkBytes = 120
  Refinements = 3
INVARIANTS
  KernelsAgree
  QuantizersAreFaithful

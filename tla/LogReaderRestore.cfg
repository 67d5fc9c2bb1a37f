CONSTANTS
  ChunkSize = 3
  Width <- MCWidth
  Count <- MCCount
  MaxStamp = 5
SPECIFICATION Spec
PROPERTY RestoresNearest

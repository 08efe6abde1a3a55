CONSTANTS
  MAX_EOBRUN = 2
  MAX_CORR_BITS = 65
  FRAME_MAX_LENGTH = 16
  Streams <- CameraStreams
  ForwardDct <- forward_DCT
  InverseDct <- inverse_DCT
  OptimalTable <- jpeg_gen_optimal_table
  Encode <- EncodeScan
  Decode <- Decoded
SPECIFICATION MCSpec
INVARIANT ForwardUndoesInverseAt12And14
CHECK_DEADLOCK FALSE

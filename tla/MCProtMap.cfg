CONSTANT NumFrames = 10
SPECIFICATION MCSpec
INVARIANTS Tiling TableMatchesKernel Granted
 


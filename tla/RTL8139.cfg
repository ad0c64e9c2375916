\* A ring of eight words and frames of three, so that the third frame crosses
\* the end; two descriptors for up to six packets; two calls of the shell.
SPECIFICATION Spec
CONSTANTS
  RX_BUF_SIZE = 32
  RX_CAPR_GAP = 4
  Lens = {6}
  NDesc = 2
  MaxFrames = 4
  MaxCalls = 2
INVARIANTS HandledOnce FramesIntact DrainsMasked SentInOrder
 

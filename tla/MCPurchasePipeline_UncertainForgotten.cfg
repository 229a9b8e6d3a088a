CONSTANTS
  Signals = {s1, s2, s3}
  NoSignal = NoSignal
SPECIFICATION Spec
SYMMETRY Symmetry
PROPERTY UncertainBuyReconciledFirst

CONSTANT Call = {c1, c2}
SPECIFICATION Spec
SYMMETRY CallSymmetry
INVARIANTS FailureIsSettled BrokerFailureHadNoEffect
PROPERTY FailureIsFinal

CONSTANTS
    Senders = {f1, f2}
    Rcpts = {here, there}
    Local = {here}
    None = None
    MaxMessageSize = 1
    MaxRcpts = 2
    MaxQueued = 2
SPECIFICATION Spec
INVARIANT RelayControl
PROPERTY EnvelopeAgreed
PROPERTY AckedOnce

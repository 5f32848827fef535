\* Four opens: each of the shared variables can be passed on and left behind.
CONSTANT MaxOpens = 4
SPECIFICATION ScannerSpec
INVARIANTS OffWhenClosed HandedToOpener LoopHeld

\* Four acts of tampering or kills, anywhere in the loop.
SPECIFICATION Spec
CONSTANT MaxFaults = 4
PROPERTIES StaysArmed

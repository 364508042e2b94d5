\* Three calls for two capabilities, around one lock.
SPECIFICATION Spec
CONSTANTS
  c1 = c1
  c2 = c2
  c3 = c3
  k1 = k1
  k2 = k2
  Callers <- ThreeCallers
  Keys <- TwoKeys
  MinGap = 2
  Ttl = 3
INVARIANTS SearchesAreDue
PROPERTIES CallsReturn

SPECIFICATION Spec
CONSTANTS
  c1 = c1
  c2 = c2
  c3 = c3
  w1 = w1
  i1 = i1
  i2 = i2
  r1 = r1
  r2 = r2
  kc = kc
  kx = kx
  ks = ks
  kt = kt
  NoKey = NoKey
  Junk = Junk
  Stranger = Stranger
  Direct = Direct
  Initiators = {c1, c2, c3, i1, i2}
  Responders = {w1, r1, r2}
  Static <- MCStatic
  Expected <- MCExpected
  Casts <- MCCasts
  Starters = {c1}
  Allowed = {kc}
  MaxForeign = 3
INVARIANTS Agreement PinBeforeFinish DialOutcome SessionOutcome
PROPERTIES EndIsFinal EstablishmentEnds

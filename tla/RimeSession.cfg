SPECIFICATION Spec
CONSTANTS
  Services = {front, back}
  Fronts = {front}
  MaxEvents = 2
  MaxSwitches = 1
  NoEngine = NoEngine
  front = front
  back = back
INVARIANTS Alive ReadyIsInitialized ConfigInForce OptionsInForce

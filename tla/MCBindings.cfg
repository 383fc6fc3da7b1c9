SPECIFICATION Spec
INVARIANTS Served BindingsLive Configured
CONSTANTS
  NULL = NULL
  Addr = {"a1", "a2"}
  Device = {"eth0", "eth1"}
  DevOf <- MCDevOf
  Server = {s1, s2}
  Type = {y1}
  TypeOf <- MCTypeOf
  PortName = {"one", "any", "all", "dev", "pipe"}
  PortText <- MCPortText
  ServerText <- MCServerText
  Num <- MCNum
  IntBits = 20
  Users <- MCUsers
  Groups <- MCGroups
  Prototype <- MCPrototype
  Listener = {l1, l2, l3}
  Client = {c1}
  Remote = {"r1"}
  Setups <- MCSetups
  MaxRefs = 1
CHECK_DEADLOCK FALSE
SYMMETRY Symmetry

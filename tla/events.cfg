CONSTANTS
  Funcs = {f, g, m}
  Methods = {m}
  MaxHooks = 3
  Binders = {x}
  Addresses = {a1, a2}
  Nowhere = Nowhere
  Py = Py
SYMMETRY AnyAddress
SPECIFICATION Spec
INVARIANTS TypeOK CalledOnce HookedOnce
PROPERTY BinderKept
CHECK_DEADLOCK FALSE

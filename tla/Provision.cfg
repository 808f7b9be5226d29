CONSTANTS
  a1 = a1
  o1 = o1
  o2 = o2
  Accounts = {a1}
  Operations = {o1, o2}
  AccountOf <- TwoIdentities
  Requests = {r1, r2}
  MaxPolls = 1
  MaxProvided = 2
  MaxFaults = 1
SYMMETRY Interchangeable
SPECIFICATION Spec
INVARIANTS TypeOK OneAccountPerMarker CompletedIsBound
PROPERTIES BindingIsNeverReplaced

CONSTANTS
  i1 = i1
  i2 = i2
  h1 = h1
  h2 = h2
  a1 = a1
  a2 = a2
  n1 = n1
  n2 = n2
  Nil = Nil
  Instances <- OneInstance
  Hardware <- OneHardware
  Addresses = {a1, a2}
  Names = {n1, n2}
  NameOf <- NamesApart
  Matches <- SelectAll
  Tolerates <- TolerateNothing
  Lease <- OwnAddress
  Prepared <- OneHardware
  Verdicts = {TRUE}
  Edits = {}
  InstanceLag = 1
  HardwareLag = 1
SPECIFICATION Spec
INVARIANT
  RunningIsImaged

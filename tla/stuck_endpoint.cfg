CONSTANTS
  Nil = Nil
  i1 = i1
  i2 = i2
  Instances <- OneInstance
  Endpoints <- TwoEndpoints
  Networks <- OneNetwork
  NICs <- OneNIC
  NetworkOf <- OneNICOnNet
  Specs <- Tight
  EndpointLag = 2
  ObjectLag = 1
SPECIFICATION Spec
PROPERTY
  EveryDeletedEndpointGoes

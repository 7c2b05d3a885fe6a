SPECIFICATION Spec
CONSTANTS
    Nil = Nil
    i1 = i1
    i2 = i2
    Instances <- TwoInstances
    Endpoints <- TwoEndpoints
    Networks <- OneNetwork
    NICs <- OneNIC
    NetworkOf <- OneNICOnNet
    Specs <- Roomy
    EndpointLag = 2
    ObjectLag = 1
INVARIANTS
    OneEndpointPerAddress

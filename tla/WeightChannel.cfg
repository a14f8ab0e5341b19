SPECIFICATION FairSpec
CONSTANTS
  ParamWords <- MCParamWords
  StatWords <- MCStatWords
  Transports <- MCTransports
  MaxVersion <- MCMaxVersion
INVARIANTS TypeOK HostPolicyIntact
PROPERTIES LoadIsConsistent RefinesRegister EventuallyCurrent

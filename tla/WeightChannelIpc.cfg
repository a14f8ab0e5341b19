SPECIFICATION Spec
CONSTANTS
  ParamWords <- MCParamWords
  StatWords <- MCStatWords
  Transports <- MCIpcOnly
  MaxVersion <- MCMaxVersion
INVARIANT PolicyIsLoadedVersion
